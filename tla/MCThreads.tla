------------------------------ MODULE MCThreads ------------------------------
EXTENDS Threads

CONSTANTS a, b, c

MCThread == {a, b, c}

Uses(calls, start, type) == [calls |-> calls, start |-> start, type |-> type, spent |-> 1,
                             net |-> 0]

(* The interface in groups: a product of all of them would say no more. The *)
(* recursive mutex meets its limit in a cond wait, three readers meet that  *)
(* of the rwlock, and one program has NET_TIMEOUT ticks.                    *)
MCPrograms ==
    {Uses({"mutex"}, {a, b}, type) : type \in {"normal", "recursive", "errorcheck"}} \cup
    {Uses({"mutex", "cond", "signal"}, {a, b}, "recursive"),
     Uses({"mutex", "timedwait", "signal"}, {a, b}, "normal"),
     Uses({"sleep", "futex_timed"}, {a, b}, "normal"),
     Uses({"futex"}, {a, b}, "normal"),
     Uses({"rdlock", "wrlock"}, {a, b}, "normal"),
     Uses({"rdlock"}, {a, b, c}, "normal"),
     Uses({"once", "spin"}, {a, b}, "normal"),
     Uses({"create", "join", "detach", "exit"}, {a}, "normal"),
     [Uses({"create"}, {a}, "normal") EXCEPT !.spent = 0],
     [Uses({"sleep"}, {a, b}, "normal") EXCEPT !.net = 1]}
=============================================================================
