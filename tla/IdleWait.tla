------------------------------- MODULE IdleWait -------------------------------
(***************************************************************************)
(* The shared idle wait of the BEAM's cothreads:                            *)
(* src/pd/beam/compat/pthread/runtime_wait.c. One binary semaphore holds    *)
(* every parked cothread; a notification signals it once and each resumed   *)
(* waiter passes the signal on.                                             *)
(*                                                                         *)
(* io_wake_generation is kept as what a waiter can tell of it: moved[t] is  *)
(* "the counter differs from the value t loaded". The 64-bit counter is     *)
(* taken never to come round while a cothread waits. Cothreads are          *)
(* cooperative: a step runs to the next call that may switch.               *)
(***************************************************************************)
EXTENDS Integers, Sequences

CONSTANT Thread    \* the cothreads, the root (handle 0) left out

VARIABLES
    sem,      \* io_wakeup_sem: latched signal and the queue of waiters
    at,       \* running, parked in the semaphore, or resumed and not yet run
    moved     \* t waits, and io_wake_generation is no longer the one it loaded

waitVars == <<sem, at, moved>>

IdleInit ==
    /\ sem = [set |-> FALSE, queue |-> <<>>]
    /\ at = [t \in Thread |-> "running"]
    /\ moved = [t \in Thread |-> FALSE]

(* microkit_cothread_semaphore_wait in the loop of thread_io_wait: a        *)
(* latched signal is consumed at once and, the generation being unchanged,  *)
(* the loop waits again, now in the queue.                                  *)
SemaphoreWait(t) ==
    /\ sem' = [set |-> FALSE, queue |-> Append(sem.queue, t)]
    /\ at' = [at EXCEPT ![t] = "parked"]

(* microkit_cothread_semaphore_signal: the longest waiter is resumed, or    *)
(* the signal is latched. base is at[] with the caller's own change.        *)
SemaphoreSignal(base) ==
    IF sem.queue = <<>>
    THEN sem' = [sem EXCEPT !.set = TRUE] /\ at' = base
    ELSE /\ sem' = [sem EXCEPT !.queue = Tail(@)]
         /\ at' = [base EXCEPT ![Head(sem.queue)] = "resumed"]

(* thread_io_wait: load the generation and park.                            *)
thread_io_wait(t) ==
    /\ at[t] = "running"
    /\ moved' = [moved EXCEPT ![t] = FALSE]
    /\ SemaphoreWait(t)

(* Mutant: the resumed waiter keeps the signal to itself.                   *)
Resume_NoCascade(t) ==
    /\ at[t] = "resumed"
    /\ moved' = [moved EXCEPT ![t] = FALSE]
    /\ \/ ~moved[t] /\ SemaphoreWait(t)
       \/ moved[t] /\ at' = [at EXCEPT ![t] = "running"] /\ UNCHANGED sem

(* Mutant: it returns on any signal, new generation or not.                 *)
Resume_AnySignal(t) ==
    /\ at[t] = "resumed"
    /\ moved' = [moved EXCEPT ![t] = FALSE]
    /\ LET base == [at EXCEPT ![t] = "running"]
       IN  IF sem.queue = <<>> THEN at' = base /\ UNCHANGED sem
           ELSE SemaphoreSignal(base)

(* A resumed waiter goes back to the queue while the generation is the one  *)
(* it loaded; otherwise it passes the signal on and returns.                *)
Resume(t) ==
    /\ at[t] = "resumed"
    /\ moved' = [moved EXCEPT ![t] = FALSE]
    /\ \/ ~moved[t] /\ SemaphoreWait(t)
       \/ /\ moved[t]
          /\ LET base == [at EXCEPT ![t] = "running"]
             IN  IF sem.queue = <<>> THEN at' = base /\ UNCHANGED sem
                 ELSE SemaphoreSignal(base)

(* thread_io_wake: advance the generation, signal once.                     *)
thread_io_wake ==
    /\ moved' = [t \in Thread |-> at[t] # "running"]
    /\ SemaphoreSignal(at)

IdleNext == thread_io_wake \/ \E t \in Thread : thread_io_wait(t) \/ Resume(t)

(* libmicrokitco runs every cothread that is ready.                         *)
IdleFairness == \A t \in Thread : WF_waitVars(Resume(t))

IdleSpec == IdleInit /\ [][IdleNext]_waitVars /\ IdleFairness

-----------------------------------------------------------------------------
(* What the idle wait is for. A waiter is reached by a pulse as soon as the *)
(* generation it loaded is out of date.                                     *)
WaitState == [t \in Thread |-> CASE at[t] = "running" -> "running"
                                 [] at[t] # "running" /\ ~moved[t] -> "waiting"
                                 [] OTHER -> "woken"]

Broadcast == INSTANCE WaitBroadcast WITH wait <- WaitState

(* The semaphore passes every pulse to every waiter of its generation, no   *)
(* wait returns without one, and whoever was reached runs: thread_io_wait   *)
(* and thread_io_wake implement the broadcast (runtime_wait.c:4-7).         *)
PulseReachesEveryWaiter == Broadcast!BroadcastSpec

(* A parked cothread whose pulse was sent is never left behind: another one *)
(* that was resumed, and has a pulse to pass on, is about to run            *)
(* (runtime_wait.c:56).                                                     *)
NoPulseStranded ==
    \A t \in Thread : at[t] = "parked" /\ moved[t] =>
        \E u \in Thread : at[u] = "resumed" /\ moved[u]

IdleTypeOK ==
    /\ sem \in [set : BOOLEAN, queue : Seq(Thread)]
    /\ at \in [Thread -> {"running", "parked", "resumed"}]
    /\ moved \in [Thread -> BOOLEAN]

(* Why: the queue holds exactly the parked cothreads, those reached by a    *)
(* pulse in front of those that are not, and a signal is latched only while *)
(* the queue is empty.                                                      *)
QueueIsOrdered ==
    /\ \A i \in DOMAIN sem.queue : at[sem.queue[i]] = "parked"
    /\ \A t \in Thread : at[t] = "parked" => \E i \in DOMAIN sem.queue : sem.queue[i] = t
    /\ \A i, j \in DOMAIN sem.queue : sem.queue[i] = sem.queue[j] => i = j
    /\ \A i, j \in DOMAIN sem.queue :
          i < j /\ moved[sem.queue[j]] => moved[sem.queue[i]]
    /\ sem.set => sem.queue = <<>>
=============================================================================
