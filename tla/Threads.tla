------------------------------- MODULE Threads -------------------------------
(***************************************************************************)
(* The pthread calls, the futex and the sleeps of the BEAM's cothreads over *)
(* the event loop: src/pd/beam/compat/pthread, compat/syscall/              *)
(* runtime_sys_sync.c and compat/time/runtime_sys_time.c.                   *)
(*                                                                         *)
(* One mutex, condition variable, rwlock, once control, spinlock and futex  *)
(* word. A call that blocks is a loop the cothread goes round in its turns. *)
(* A condition variable's generation is kept as what a waiter can tell of   *)
(* it, whether it has moved since the wait began. Calls that are refused    *)
(* (EINVAL, EPERM, ESRCH, EDEADLK) change nothing.                          *)
(***************************************************************************)
EXTENDS EventLoop

CONSTANTS
    Programs,        \* the calls a program makes, the type of its mutex, the
                     \* cothreads that start it, the tokens spent before,
                     \* and NET_TIMEOUT of its image, 0 without the network
    IntMax,          \* INT_MAX: depth of a recursive mutex, readers of a rwlock
    PulseMax,        \* pulses one pthread_cond_wait sits through (64)
    TokenMax,        \* UINTPTR_MAX of the token counter: threads ever created
    Delays,          \* the timeouts a program asks for
    NoThread

CallName == {"mutex", "cond", "signal", "timedwait", "sleep", "futex", "futex_timed",
             "rdlock", "wrlock", "once", "spin", "create", "join", "detach", "exit"}

ASSUME ThreadsAssumption ==
    /\ NoThread \notin Thread
    /\ IntMax \in Nat \ {0} /\ PulseMax \in Nat \ {0} /\ TokenMax \in Nat
    /\ Delays \subseteq Nat
    /\ Programs \subseteq [calls : SUBSET CallName, start : SUBSET Thread,
                           spent : 0 .. TokenMax, net : Nat, type : {"normal", "recursive", "errorcheck"}]

VARIABLES
    program,   \* the program that runs
    op,        \* the call each cothread is inside
    mutex,     \* owner and depth
    rw,        \* -1 a writer, 0 free, n readers; and the writer
    once,      \* pthread_once_t
    spin,      \* pthread_spinlock_t
    word,      \* the futex word
    records,   \* thread_records, by token
    by_handle, \* token of the thread on each cothread, 0 for none
    token,     \* last token handed out
    holds      \* history: the locks each cothread believes it holds

lockVars == <<mutex, rw, once, spin, word, holds>>
recordVars == <<records, by_handle, token, live>>
threadVars == <<wait, turn, root, rounds, now, slot, timeout, ntfn, program, op,
                mutex, rw, once, spin, word, records, by_handle, token, live, holds>>

NoOp == [name |-> "none"]
FreeMutex == [owner |-> NoThread, depth |-> 0]
Absent == [used |-> FALSE, detached |-> FALSE, join_claimed |-> FALSE, complete |-> FALSE]

ThreadsInit ==
    /\ LoopInit
    /\ program \in Programs
    /\ live = program.start
    /\ op = [t \in Thread |-> NoOp]
    /\ mutex = FreeMutex
    /\ rw = [state |-> 0, writer |-> NoThread]
    /\ once = 0 /\ spin = 0 /\ word = 0
    /\ records = [k \in 1 .. TokenMax |-> Absent]
    /\ by_handle = [t \in Thread |-> 0]
    /\ token = program.spent
    /\ holds = [t \in Thread |-> {}]

(* A cothread in its turn and in application code makes one more call.      *)
Makes(t, name) ==
    /\ InTurn(t) /\ op[t] = NoOp /\ turn[t] > 1
    /\ name \in program.calls

Spends(t) == turn' = [turn EXCEPT ![t] = @ - 1]

Inside(t, name) == InTurn(t) /\ op[t].name = name

Enters(t, state) == op' = [op EXCEPT ![t] = state]
Leaves(t) == op' = [op EXCEPT ![t] = NoOp]

Takes(t, lock) == holds' = [holds EXCEPT ![t] = @ \cup {lock}]
Drops(t, lock) == holds' = [holds EXCEPT ![t] = @ \ {lock}]

SameLoop == UNCHANGED <<wait, root, rounds, now, slot, timeout, ntfn>>
SameTimer == UNCHANGED <<root, rounds, now, slot, timeout, ntfn>>

(***************************************************************************)
(* Mutex.                                                                   *)
(***************************************************************************)
mutex_try_acquire(t) ==
    IF mutex.owner = NoThread THEN "ok"
    ELSE IF mutex.owner # t THEN "EBUSY"
    ELSE IF program.type = "recursive"
         THEN IF mutex.depth = IntMax THEN "EAGAIN" ELSE "ok"
    ELSE IF program.type = "errorcheck" THEN "EDEADLK" ELSE "EBUSY"

MutexAcquired(t) ==
    /\ mutex' = [owner |-> t, depth |-> mutex.depth + 1]
    /\ Takes(t, "mutex")

(* pthread_mutex_lock, and the way back into the mutex of a condition wait: *)
(* a busy mutex is tried again after a yield.                               *)
pthread_mutex_lock(t) ==
    /\ \/ Makes(t, "mutex") \/ Inside(t, "lock") \/ Inside(t, "relock")
    /\ \/ /\ mutex_try_acquire(t) = "ok"
          /\ MutexAcquired(t) /\ Leaves(t) /\ Spends(t)
       \/ /\ mutex_try_acquire(t) = "EBUSY"
          /\ IF op[t] = NoOp THEN Enters(t, [name |-> "lock"]) ELSE UNCHANGED op
          /\ Yielded(t) /\ UNCHANGED <<mutex, holds>>
       \/ /\ mutex_try_acquire(t) \in {"EAGAIN", "EDEADLK"}
          /\ Leaves(t) /\ Spends(t) /\ UNCHANGED <<mutex, holds>>
    /\ SameLoop /\ UNCHANGED <<program, rw, once, spin, word, recordVars>>

pthread_mutex_trylock(t) ==
    /\ Makes(t, "mutex") /\ mutex_try_acquire(t) = "ok"
    /\ MutexAcquired(t) /\ Spends(t)
    /\ SameLoop /\ UNCHANGED <<program, op, rw, once, spin, word, recordVars>>

(* Mutant: unlock does not ask whose mutex it is.                           *)
Unlocked_AnyOwner(t) ==
    /\ mutex.owner # NoThread
    /\ IF mutex.depth > 1 THEN mutex' = [mutex EXCEPT !.depth = @ - 1] /\ UNCHANGED holds
       ELSE mutex' = FreeMutex /\ Drops(t, "mutex")

(* pthread_mutex_unlock by the owner; anyone else gets EPERM.               *)
Unlocked(t) ==
    /\ mutex.owner = t
    /\ IF mutex.depth > 1 THEN mutex' = [mutex EXCEPT !.depth = @ - 1] /\ UNCHANGED holds
       ELSE mutex' = FreeMutex /\ Drops(t, "mutex")

pthread_mutex_unlock(t) ==
    /\ Makes(t, "mutex")
    /\ Unlocked(t) /\ Spends(t)
    /\ SameLoop /\ UNCHANGED <<program, op, rw, once, spin, word, recordVars>>

(***************************************************************************)
(* Condition variable.                                                      *)
(***************************************************************************)
CondWaits(u) == op[u].name \in {"cond", "timed"}

(* Mutant: a signal that pulses nobody.                                     *)
cond_signal_NoWake(t) ==
    /\ Makes(t, "cond")
    /\ op' = [u \in Thread |-> IF CondWaits(u) THEN [op[u] EXCEPT !.signalled = TRUE] ELSE op[u]]
    /\ Spends(t)
    /\ SameLoop /\ UNCHANGED <<program, lockVars, recordVars>>

(* pthread_cond_signal and broadcast: advance the generation, then wake.    *)
pthread_cond_signal(t) ==
    /\ Makes(t, "signal")
    /\ op' = [u \in Thread |-> IF CondWaits(u) THEN [op[u] EXCEPT !.signalled = TRUE] ELSE op[u]]
    /\ Pulse /\ Spends(t)
    /\ SameTimer /\ UNCHANGED <<program, lockVars, recordVars>>

(* pthread_cond_wait and timedwait up to their loops: the generation is     *)
(* read before the mutex is given up.                                       *)
pthread_cond_wait(t) ==
    /\ Unlocked(t) /\ Spends(t)
    /\ \/ /\ Makes(t, "cond")
          /\ Enters(t, [name |-> "cond", signalled |-> FALSE, left |-> PulseMax])
       \/ /\ Makes(t, "timedwait")
          /\ \E d \in Delays : Enters(t, [name |-> "timed", signalled |-> FALSE,
                                          deadline |-> runtime_deadline_after(now, d)])
    /\ SameLoop /\ UNCHANGED <<program, rw, once, spin, word, recordVars>>

(* The way out of either loop is through pthread_mutex_lock, whose success  *)
(* lets the wait return its own answer.                                     *)
Relocks(t, answer) ==
    /\ Enters(t, [name |-> "relock", answer |-> answer])
    /\ UNCHANGED <<wait, turn>>

(* The loop of pthread_cond_wait: a bounded number of pulses, then back to  *)
(* the mutex whether signalled or not.                                      *)
CondLoop(t) ==
    /\ Inside(t, "cond")
    /\ IF op[t].left > 0 /\ ~op[t].signalled
       THEN thread_io_wait(t) /\ op' = [op EXCEPT ![t].left = @ - 1]
       ELSE Relocks(t, "0")
    /\ SameTimer /\ UNCHANGED <<program, lockVars, recordVars>>

(* Mutant: a wait whose clock fails returns at once, without the mutex.     *)
TimedLoop_NoRelock(t) ==
    /\ Inside(t, "timed")
    /\ \/ op[t].signalled /\ Relocks(t, "0") /\ UNCHANGED <<slot, timeout>>
       \/ ~op[t].signalled /\ Leaves(t) /\ UNCHANGED <<wait, turn, slot, timeout>>
       \/ /\ ~op[t].signalled
          /\ IF now >= op[t].deadline
             THEN Relocks(t, "ETIMEDOUT") /\ UNCHANGED <<slot, timeout>>
             ELSE beam_timer_arm(op[t].deadline) /\ thread_io_wait(t) /\ UNCHANGED op
    /\ UNCHANGED <<root, rounds, now, ntfn, program, lockVars, recordVars>>

(* The loop of pthread_cond_timedwait: the generation first, then the       *)
(* clock, which may fail; before the deadline, arm it and wait.             *)
TimedLoop(t) ==
    /\ Inside(t, "timed")
    /\ \/ op[t].signalled /\ Relocks(t, "0") /\ UNCHANGED <<slot, timeout>>
       \/ ~op[t].signalled /\ Relocks(t, "EIO") /\ UNCHANGED <<slot, timeout>>
       \/ /\ ~op[t].signalled
          /\ IF now >= op[t].deadline
             THEN Relocks(t, "ETIMEDOUT") /\ UNCHANGED <<slot, timeout>>
             ELSE beam_timer_arm(op[t].deadline) /\ thread_io_wait(t) /\ UNCHANGED op
    /\ UNCHANGED <<root, rounds, now, ntfn, program, lockVars, recordVars>>

(***************************************************************************)
(* Sleeps and the futex. One store and its FUTEX_WAKE are two steps.        *)
(***************************************************************************)
runtime_sys_clock_nanosleep(t) ==
    /\ Makes(t, "sleep") /\ Spends(t)
    /\ \E d \in Delays : Enters(t, [name |-> "sleep", deadline |-> runtime_deadline_after(now, d)])
    /\ SameLoop /\ UNCHANGED <<program, lockVars, recordVars>>

SleepLoop(t) ==
    /\ Inside(t, "sleep")
    /\ IF now < op[t].deadline
       THEN beam_timer_arm(op[t].deadline) /\ thread_io_wait(t) /\ UNCHANGED op
       ELSE Leaves(t) /\ UNCHANGED <<wait, turn, slot, timeout>>
    /\ UNCHANGED <<root, rounds, now, ntfn, program, lockVars, recordVars>>

(* FUTEX_WAIT with or without a timeout; a value already gone is EAGAIN.    *)
runtime_sys_futex(t) ==
    /\ Spends(t)
    /\ \/ /\ Makes(t, "futex")
          /\ Enters(t, [name |-> "futex", val |-> word])
       \/ /\ Makes(t, "futex_timed")
          /\ \E d \in Delays : Enters(t, [name |-> "futex_timed", val |-> word,
                                          deadline |-> runtime_deadline_after(now, d)])
    /\ SameLoop /\ UNCHANGED <<program, lockVars, recordVars>>

FutexLoop(t) ==
    \/ /\ Inside(t, "futex")
       /\ IF word = op[t].val THEN thread_io_wait(t) /\ UNCHANGED op
          ELSE Leaves(t) /\ UNCHANGED <<wait, turn>>
       /\ SameTimer /\ UNCHANGED <<program, lockVars, recordVars>>
    \/ /\ Inside(t, "futex_timed")
       /\ IF word = op[t].val /\ now < op[t].deadline
          THEN beam_timer_arm(op[t].deadline) /\ thread_io_wait(t) /\ UNCHANGED op
          ELSE Leaves(t) /\ UNCHANGED <<wait, turn, slot, timeout>>
       /\ UNCHANGED <<root, rounds, now, ntfn, program, lockVars, recordVars>>

(* ERTS changes the word, then asks for FUTEX_WAKE.                         *)
FutexStore(t) ==
    /\ Makes(t, "futex") /\ Spends(t)
    /\ word' = 1 - word
    /\ Enters(t, [name |-> "futex_wake"])
    /\ SameLoop /\ UNCHANGED <<program, mutex, rw, once, spin, holds, recordVars>>

(* Mutant: FUTEX_WAKE wakes nobody.                                         *)
FutexWake_NoPulse(t) ==
    /\ Inside(t, "futex_wake")
    /\ Leaves(t)
    /\ SameLoop /\ UNCHANGED <<turn, program, lockVars, recordVars>>

FutexWake(t) ==
    /\ Inside(t, "futex_wake")
    /\ Leaves(t) /\ Pulse
    /\ SameTimer /\ UNCHANGED <<turn, program, lockVars, recordVars>>

(***************************************************************************)
(* Reader-writer lock, spinlock and once.                                   *)
(***************************************************************************)
rw_try_read ==
    IF rw.state < 0 THEN "EBUSY" ELSE IF rw.state = IntMax THEN "EAGAIN" ELSE "ok"

rw_try_write == IF rw.state = 0 THEN "ok" ELSE "EBUSY"

(* rdlock and wrlock spin with a yield; the try variants give up instead,   *)
(* and a reader that would be one too many gets EAGAIN.                     *)
pthread_rwlock_rdlock(t) ==
    /\ \/ Makes(t, "rdlock") /\ "read" \notin holds[t]
       \/ Inside(t, "rdlock")
    /\ \/ /\ rw_try_read = "ok"
          /\ rw' = [rw EXCEPT !.state = @ + 1]
          /\ Takes(t, "read") /\ Leaves(t) /\ Spends(t)
       \/ /\ rw_try_read = "EAGAIN"
          /\ Leaves(t) /\ Spends(t) /\ UNCHANGED <<rw, holds>>
       \/ /\ rw_try_read = "EBUSY"
          /\ Enters(t, [name |-> "rdlock"]) /\ Yielded(t) /\ UNCHANGED <<rw, holds>>
    /\ SameLoop /\ UNCHANGED <<program, mutex, once, spin, word, recordVars>>

pthread_rwlock_wrlock(t) ==
    /\ \/ Makes(t, "wrlock") \/ Inside(t, "wrlock")
    /\ IF rw_try_write = "ok"
       THEN /\ rw' = [state |-> 0 - 1, writer |-> t]
            /\ Takes(t, "write") /\ Leaves(t) /\ Spends(t)
       ELSE Enters(t, [name |-> "wrlock"]) /\ Yielded(t) /\ UNCHANGED <<rw, holds>>
    /\ SameLoop /\ UNCHANGED <<program, mutex, once, spin, word, recordVars>>

(* unlock knows a writer, but not which readers there are: a program gives  *)
(* up only a read lock it has.                                              *)
pthread_rwlock_unlock(t) ==
    /\ Spends(t)
    /\ \/ /\ Makes(t, "wrlock") /\ rw.state < 0 /\ rw.writer = t
          /\ rw' = [state |-> 0, writer |-> NoThread]
          /\ Drops(t, "write")
       \/ /\ Makes(t, "rdlock") /\ rw.state > 0 /\ "read" \in holds[t]
          /\ rw' = [rw EXCEPT !.state = @ - 1]
          /\ Drops(t, "read")
    /\ SameLoop /\ UNCHANGED <<program, op, mutex, once, spin, word, recordVars>>

pthread_spin_lock(t) ==
    /\ \/ Makes(t, "spin") \/ Inside(t, "spin")
    /\ IF spin = 0
       THEN spin' = 1 /\ Takes(t, "spin") /\ Leaves(t) /\ Spends(t)
       ELSE Enters(t, [name |-> "spin"]) /\ Yielded(t) /\ UNCHANGED <<spin, holds>>
    /\ SameLoop /\ UNCHANGED <<program, mutex, rw, once, word, recordVars>>

(* A spinlock has no owner: a program gives up only the one it holds.       *)
pthread_spin_unlock(t) ==
    /\ Makes(t, "spin") /\ Spends(t)
    /\ spin = 1 /\ "spin" \in holds[t]
    /\ spin' = 0 /\ Drops(t, "spin")
    /\ SameLoop /\ UNCHANGED <<program, op, mutex, rw, once, word, recordVars>>

(* pthread_once: the first caller runs the routine, the others wait for it. *)
pthread_once(t) ==
    /\ \/ Makes(t, "once") /\ Spends(t)
       \/ Inside(t, "once") /\ UNCHANGED turn
    /\ \/ once = 0 /\ once' = 1 /\ Enters(t, [name |-> "once_init"]) /\ UNCHANGED wait
       \/ once = 1 /\ op[t] = NoOp /\ Enters(t, [name |-> "once"]) /\ UNCHANGED <<wait, once>>
       \/ once = 2 /\ Leaves(t) /\ UNCHANGED <<wait, once>>
    /\ SameTimer /\ UNCHANGED <<program, mutex, rw, spin, word, holds, recordVars>>

OnceWaits(t) ==
    /\ Inside(t, "once") /\ once = 1
    /\ thread_io_wait(t)
    /\ SameTimer /\ UNCHANGED <<op, program, lockVars, recordVars>>

(* The routine may give up the processor, which lets others find it busy.   *)
init_routine(t) ==
    /\ Inside(t, "once_init")
    /\ Yielded(t)
    /\ SameLoop /\ UNCHANGED <<op, program, lockVars, recordVars>>

OnceDone(t) ==
    /\ Inside(t, "once_init")
    /\ once' = 2 /\ Leaves(t) /\ Pulse
    /\ SameTimer /\ UNCHANGED <<turn, program, mutex, rw, spin, word, holds, recordVars>>

(***************************************************************************)
(* Threads: a record per token, freed by the joiner, or by whoever comes    *)
(* last of the detacher and the thread itself.                              *)
(***************************************************************************)
(* pthread_create: a token, which is spent even when no cothread is free.   *)
pthread_create(t) ==
    /\ Makes(t, "create") /\ Spends(t)
    /\ token < TokenMax
    /\ token' = token + 1
    /\ \/ Thread \subseteq live /\ UNCHANGED <<records, by_handle, live>>
       \/ \E u \in Thread \ live, detached \in BOOLEAN :
          /\ records' = [records EXCEPT ![token + 1] =
                            [Absent EXCEPT !.used = TRUE, !.detached = detached]]
          /\ by_handle' = [by_handle EXCEPT ![u] = token + 1]
          /\ live' = live \cup {u}
    /\ SameLoop /\ UNCHANGED <<program, op, lockVars>>

(* finish_current, at the end of a thread or in pthread_exit.               *)
finish_current(t) ==
    /\ Makes(t, "exit") /\ by_handle[t] # 0
    /\ LET k == by_handle[t]
       IN  records' = [records EXCEPT ![k] = IF @.detached THEN Absent
                                             ELSE [@ EXCEPT !.complete = TRUE]]
    /\ by_handle' = [by_handle EXCEPT ![t] = 0]
    /\ live' = live \ {t}
    /\ Pulse /\ Yielded(t)
    /\ SameTimer /\ UNCHANGED <<program, op, token, lockVars>>

pthread_join(t) ==
    /\ Makes(t, "join") /\ Spends(t)
    /\ \E k \in 1 .. token :
          /\ records[k].used /\ by_handle[t] # k
          /\ ~records[k].detached /\ ~records[k].join_claimed
          /\ records' = [records EXCEPT ![k].join_claimed = TRUE]
          /\ Enters(t, [name |-> "join", token |-> k])
    /\ SameLoop /\ UNCHANGED <<program, lockVars, by_handle, token, live>>

JoinLoop(t) ==
    /\ Inside(t, "join")
    /\ IF ~records[op[t].token].complete
       THEN thread_io_wait(t) /\ UNCHANGED <<op, records>>
       ELSE /\ records' = [records EXCEPT ![op[t].token] = Absent]
            /\ Leaves(t) /\ UNCHANGED <<wait, turn>>
    /\ SameTimer /\ UNCHANGED <<program, lockVars, by_handle, token, live>>

(* Mutant: detach takes a thread a joiner has claimed.                      *)
detach_Claimed(t) ==
    /\ Makes(t, "detach") /\ Spends(t)
    /\ \E k \in 1 .. token :
          /\ records[k].used /\ ~records[k].detached
          /\ records' = [records EXCEPT ![k] = IF @.complete THEN Absent
                                               ELSE [@ EXCEPT !.detached = TRUE]]
    /\ SameLoop /\ UNCHANGED <<program, op, lockVars, by_handle, token, live>>

pthread_detach(t) ==
    /\ Makes(t, "detach") /\ Spends(t)
    /\ \E k \in 1 .. token :
          /\ records[k].used /\ ~records[k].detached /\ ~records[k].join_claimed
          /\ records' = [records EXCEPT ![k] = IF @.complete THEN Absent
                                               ELSE [@ EXCEPT !.detached = TRUE]]
    /\ SameLoop /\ UNCHANGED <<program, op, lockVars, by_handle, token, live>>

(***************************************************************************)
(* The system.                                                              *)
(***************************************************************************)
(* A cothread with nothing to do gives up the processor.                    *)
Yield(t) ==
    /\ InTurn(t) /\ op[t] = NoOp
    /\ Yielded(t)
    /\ SameLoop /\ UNCHANGED <<program, op, lockVars, recordVars>>

Resumes(t) == ReturnFromWait(t) /\ UNCHANGED <<program, op, lockVars, recordVars>>

(* A call goes round its loop once more.                                    *)
Loops(t) ==
    \/ op[t] # NoOp /\ \/ pthread_mutex_lock(t) \/ pthread_rwlock_rdlock(t)
                       \/ pthread_rwlock_wrlock(t) \/ pthread_spin_lock(t) \/ pthread_once(t)
    \/ CondLoop(t) \/ TimedLoop(t) \/ SleepLoop(t) \/ FutexLoop(t) \/ FutexWake(t)
    \/ OnceWaits(t) \/ init_routine(t) \/ OnceDone(t) \/ JoinLoop(t)

NewCall(t) ==
    \/ op[t] = NoOp /\ \/ pthread_mutex_lock(t) \/ pthread_rwlock_rdlock(t)
                       \/ pthread_rwlock_wrlock(t) \/ pthread_spin_lock(t) \/ pthread_once(t)
    \/ pthread_mutex_trylock(t) \/ pthread_mutex_unlock(t)
    \/ pthread_cond_signal(t) \/ pthread_cond_wait(t)
    \/ runtime_sys_clock_nanosleep(t) \/ runtime_sys_futex(t) \/ FutexStore(t)
    \/ pthread_rwlock_unlock(t) \/ pthread_spin_unlock(t)
    \/ pthread_create(t) \/ finish_current(t) \/ pthread_join(t) \/ pthread_detach(t)

RootStep == LoopNext(program.net) /\ UNCHANGED <<program, op, lockVars, recordVars>>

ThreadsNext == RootStep \/ \E t \in Thread : Yield(t) \/ Resumes(t) \/ Loops(t) \/ NewCall(t)

(* The timer driver and the kernel answer, the root goes on, and a cothread *)
(* in its turn goes on until it blocks or yields.                           *)
ThreadsFairness ==
    /\ WF_threadVars((Tick \/ TimerFires) /\ UNCHANGED <<program, op, lockVars, recordVars>>)
    /\ WF_threadVars((runtime_lifecycle_notified(TRUE, program.net) \/ thread_drain \/ drain_cothreads)
                     /\ UNCHANGED <<program, op, lockVars, recordVars>>)
    /\ \A t \in Thread : WF_threadVars(Yield(t) \/ Resumes(t) \/ Loops(t))

ThreadsSpec == ThreadsInit /\ [][ThreadsNext]_threadVars /\ ThreadsFairness

-----------------------------------------------------------------------------
(* Whatever mixture of lock, trylock, condition waits and foreign unlocks:  *)
(* the holders of a lock are the ones it records, one for the mutex, the    *)
(* spinlock and the writer, and no reader beside a writer                   *)
(* (runtime_pthread_locks.c:27, :155, :173).                                *)
LocksExclude ==
    /\ \A t \in Thread : "mutex" \in holds[t] <=> mutex.owner = t
    /\ \A t, u \in Thread :
          /\ t # u => ~("spin" \in holds[t] /\ "spin" \in holds[u])
          /\ t # u => ~("write" \in holds[t] /\ holds[u] \cap {"read", "write"} # {})

(* A cothread asleep in a condition wait has not been signalled, and one    *)
(* asleep on the futex still sees its value, unless the waker is on its way *)
(* (runtime_pthread_cond.c:75, :107, runtime_sys_sync.c:76).                *)
SleeperMissesNoSignal ==
    \A t \in Thread : wait[t] = "waiting" =>
        /\ CondWaits(t) => ~op[t].signalled
        /\ op[t].name \in {"futex", "futex_timed"} /\ op[t].val # word =>
              \E u \in Thread : op[u].name = "futex_wake"
        /\ op[t].name = "once" => once = 1
        /\ op[t].name = "join" => ~records[op[t].token].complete

(* A joiner's record outlives its wait, and nobody else joins it: neither   *)
(* detach nor the thread's own end frees it (runtime_pthread.c:164, :183).  *)
JoinerKeepsRecord ==
    /\ \A t \in Thread : op[t].name = "join" =>
          records[op[t].token].used /\ ~records[op[t].token].detached
    /\ \A t, u \in Thread : op[t].name = "join" /\ op[t] = op[u] => t = u

(* A condition wait keeps its contract on every way out, the failing clock  *)
(* and a recursive mutex at its limit included: it returns with the mutex,  *)
(* and it times out only unsignalled and past its deadline                  *)
(* (runtime_pthread_cond.c:110: "the caller owns mutex again on return,     *)
(* even on this failure").                                                  *)
InCondWait == {"cond", "timed", "relock"}

CondWaitContract ==
    [][\A t \in Thread :
          /\ op[t].name \in InCondWait /\ op'[t].name \notin InCondWait => mutex'.owner = t
          /\ op'[t].name = "relock" /\ op'[t] # op[t] /\ op'[t].answer = "ETIMEDOUT" =>
                op[t].name = "timed" /\ ~op[t].signalled /\ op[t].deadline <= now]_threadVars

TimedCall == {"timed", "sleep", "futex_timed"}

(* Nobody waits for ever for what has come. A call with a deadline comes    *)
(* back, although all deadlines share one timeout slot and the timer driver *)
(* may restart (runtime_timer.c:4-7). A futex waiter whose word has moved   *)
(* and stays moved leaves, whoever was woken before it: only a word that    *)
(* has its old value again keeps it parked (runtime_sys_sync.c:76).         *)
WaitEnds ==
    \A t \in Thread :
        /\ (op[t].name \in TimedCall) ~> (op[t].name \notin TimedCall)
        /\ (op[t].name = "futex" /\ op[t].val # word) ~>
              (op[t].name # "futex" \/ op[t].val = word)

(* A cothread that is ready gets a turn: the drain never leaves one behind  *)
(* without a timeout that brings the root back (runtime_drain.h:8-12).      *)
ReadyThreadRuns ==
    \A t \in Thread : (t \in Ready) ~> (turn[t] > 0 \/ t \notin live)
=============================================================================
