------------------------------ MODULE EventLoop ------------------------------
(***************************************************************************)
(* When the BEAM's cothreads get to run: the root cothread's event loop     *)
(* with its drain (config/runtime_lifecycle.c, compat/pthread/              *)
(* runtime_cothread.c and runtime_drain.h) and the one timeout slot that    *)
(* every deadline shares (io/timer). Waiting is WaitBroadcast, which        *)
(* IdleWait implements.                                                     *)
(*                                                                         *)
(* While the root blocks in seL4_Recv no cothread runs; while it drains,    *)
(* each ready cothread gets one turn per round.                             *)
(***************************************************************************)
EXTENDS WaitBroadcast, Naturals

CONSTANTS
    DrainLimit,      \* drain_round_limit
    CallsPerTurn,    \* calls a cothread makes before it blocks or yields (bound)
    TimeMax          \* UINT64_MAX of the timer, at a width TLC can reach

ASSUME EventLoopAssumption ==
    /\ DrainLimit \in Nat \ {0} /\ CallsPerTurn \in Nat \ {0}
    /\ TimeMax \in Nat \ {0}

VARIABLES
    live,       \* cothreads that exist
    root,       \* "idle" in seL4_Recv, or in "drain"
    rounds,     \* rounds of this drain
    turn,       \* calls left to each cothread in this round, 0 out of its turn
    now,        \* sDDF timer time
    slot,       \* beam_timer_deadline, 0 when nothing is armed
    timeout,    \* the timer driver's timeout of this client, 0 for none
    ntfn        \* a notification of the timer driver is pending

loopVars == <<root, rounds, now, slot, timeout, ntfn>>

LoopInit ==
    /\ BroadcastInit
    /\ root = "drain" /\ rounds = 0
    /\ turn = [t \in Thread |-> 0]
    /\ now = 0 /\ slot = 0 /\ timeout = 0 /\ ntfn = FALSE

(* Cothreads are not preempted: once one has begun its turn the others wait *)
(* until it blocks or yields.                                               *)
HasProcessor(t) ==
    /\ t \in live /\ turn[t] > 0
    /\ \A u \in Thread \ {t} : turn[u] \in {0, CallsPerTurn + 1}

InTurn(t) == HasProcessor(t) /\ wait[t] = "running"
Ready == {t \in live : wait[t] # "waiting"}

Saturated(n) == IF n > TimeMax THEN TimeMax ELSE n

(* The nearest deadline owns the slot; one already past fires on the next   *)
(* tick.                                                                    *)
runtime_timer_slot_update(deadline) ==
    LET d == IF deadline <= now THEN Saturated(now + 1) ELSE deadline
    IN  IF slot # 0 /\ d >= slot THEN slot ELSE d

(* The timer is programmed only when the slot changes hands.                *)
beam_timer_arm(deadline) ==
    LET next == runtime_timer_slot_update(deadline)
    IN  slot' = next /\ timeout' = IF next = slot THEN timeout ELSE next

runtime_deadline_after(t, ns) == Saturated(t + ns)

(* The timer driver: time passes, a timeout fires, and a driver that        *)
(* restarts notifies the clients whose timeouts it dropped.                 *)
Tick ==
    /\ now < TimeMax
    /\ now' = now + 1
    /\ UNCHANGED <<wait, turn, root, rounds, slot, timeout, ntfn>>

TimerFires ==
    /\ timeout # 0 /\ timeout <= now
    /\ timeout' = 0 /\ ntfn' = TRUE
    /\ UNCHANGED <<wait, turn, root, rounds, now, slot>>

TimerDriverRestarts ==
    /\ timeout # 0
    /\ timeout' = 0 /\ ntfn' = TRUE
    /\ UNCHANGED <<wait, turn, root, rounds, now, slot>>

(* runtime_timer_notified and runtime_network_notified on the timer's       *)
(* channel: the slot is emptied and, with the network up, armed for lwIP.   *)
(* net is NET_TIMEOUT, 0 in an image without the network.                   *)
runtime_network_notified(net) ==
    IF net = 0 THEN slot' = 0 /\ UNCHANGED timeout
    ELSE LET d == Saturated(now + net)
         IN  slot' = d /\ timeout' = d

(* Mutant: the notification of a spent timeout leaves the slot taken.       *)
notified_SlotKept(timer, net) ==
    /\ root = "idle"
    /\ IF timer THEN ntfn /\ ntfn' = FALSE ELSE UNCHANGED ntfn
    /\ UNCHANGED <<slot, timeout>>
    /\ Pulse
    /\ root' = "drain" /\ rounds' = 0
    /\ UNCHANGED <<turn, now>>

(* runtime_lifecycle_notified: the timer's own notification empties the     *)
(* slot and, with the network up, arms it for lwIP; every one pulses the    *)
(* idle wait and drains.                                                    *)
runtime_lifecycle_notified(timer, net) ==
    /\ root = "idle"
    /\ \/ timer /\ ntfn /\ ntfn' = FALSE /\ runtime_network_notified(net)
       \/ ~timer /\ UNCHANGED <<ntfn, slot, timeout>>
    /\ Pulse
    /\ root' = "drain" /\ rounds' = 0
    /\ UNCHANGED <<turn, now>>

(* What the root does next in a drain.                                      *)
runtime_drain_next ==
    IF Ready = {} THEN "idle" ELSE IF rounds < DrainLimit THEN "run" ELSE "rearm"

RoundOver == root = "drain" /\ \A t \in Thread : turn[t] = 0

(* thread_drain: yield a round while anything is ready.                     *)
thread_drain ==
    /\ RoundOver /\ runtime_drain_next = "run"
    /\ turn' = [t \in Thread |-> IF t \in Ready THEN CallsPerTurn + 1 ELSE 0]
    /\ rounds' = rounds + 1
    /\ UNCHANGED <<wait, root, now, slot, timeout, ntfn>>

(* Mutant: the root gives up after the last round without a timeout.        *)
drain_NoRearm ==
    /\ RoundOver /\ runtime_drain_next # "run"
    /\ root' = "idle" /\ rounds' = 0
    /\ UNCHANGED <<wait, turn, now, slot, timeout, ntfn>>

(* drain_cothreads: back to the event loop, past the limit with an          *)
(* immediate timeout.                                                       *)
drain_cothreads ==
    /\ RoundOver /\ runtime_drain_next # "run"
    /\ root' = "idle" /\ rounds' = 0
    /\ IF runtime_drain_next = "rearm" THEN beam_timer_arm(now) ELSE UNCHANGED <<slot, timeout>>
    /\ UNCHANGED <<wait, turn, now, ntfn>>

(* What a cothread in its turn may do with the processor.                   *)
Yielded(t) == turn' = [turn EXCEPT ![t] = 0]

thread_io_wait(t) == Wait(t) /\ Yielded(t)

ReturnFromWait(t) ==
    /\ HasProcessor(t)
    /\ Return(t)
    /\ UNCHANGED <<turn, root, rounds, now, slot, timeout, ntfn>>

LoopNext(net) ==
    \/ Tick \/ TimerFires \/ TimerDriverRestarts
    \/ \E timer \in BOOLEAN : runtime_lifecycle_notified(timer, net)
    \/ thread_drain \/ drain_cothreads
=============================================================================
