---------------------------- MODULE ThreadsProofs ----------------------------
(***************************************************************************)
(* Proofs about Threads, for any number of cothreads, any programs and any  *)
(* bounds: the locks exclude, a joiner keeps its record, and no sleeper     *)
(* misses what it sleeps for.                                               *)
(*                                                                         *)
(* Each property is part of an inductive invariant of its own over the      *)
(* types of the state. LockInv adds what the lock words say of the holders: *)
(* a spinlock at 0 has none, and a rwlock counts its readers. JoinInv adds  *)
(* that the record of a joiner is claimed and its token was handed out.     *)
(* WakeInv is the property itself, and needs JoinInv for a record that is   *)
(* freed while another cothread waits for its own.                          *)
(***************************************************************************)
EXTENDS Threads, FiniteSets, FiniteSetTheorems, TLAPS

(* What a cothread can be inside.                                           *)
PlainOp == [name : {"none", "lock", "rdlock", "wrlock", "spin", "once", "once_init", "futex_wake"}]
Answer == {"0", "ETIMEDOUT", "EIO"}
RelockOp == [name : {"relock"}, answer : Answer]
CondOp == [name : {"cond"}, signalled : BOOLEAN, left : Nat]
TimedOp == [name : {"timed"}, signalled : BOOLEAN, deadline : Nat]
SleepOp == [name : {"sleep"}, deadline : Nat]
FutexOp == [name : {"futex"}, val : {0, 1}]
FutexTimedOp == [name : {"futex_timed"}, val : {0, 1}, deadline : Nat]
JoinOp == [name : {"join"}, token : 1 .. TokenMax]
OpType == PlainOp \cup RelockOp \cup CondOp \cup TimedOp \cup SleepOp \cup FutexOp
          \cup FutexTimedOp \cup JoinOp

Lock == {"mutex", "read", "write", "spin"}
RecordType == [used : BOOLEAN, detached : BOOLEAN, join_claimed : BOOLEAN, complete : BOOLEAN]

LockTypeOK ==
    /\ mutex \in [owner : Thread \cup {NoThread}, depth : Nat]
    /\ rw \in [state : Nat \cup {0 - 1}, writer : Thread \cup {NoThread}]
    /\ spin \in {0, 1}
    /\ holds \in [Thread -> SUBSET Lock]

ThreadTypeOK ==
    /\ wait \in [Thread -> {"running", "waiting", "woken"}]
    /\ now \in Nat
    /\ op \in [Thread -> OpType]
    /\ once \in {0, 1, 2} /\ word \in {0, 1}
    /\ LockTypeOK
    /\ records \in [1 .. TokenMax -> RecordType]
    /\ by_handle \in [Thread -> 0 .. TokenMax]
    /\ token \in 0 .. TokenMax

Readers == {t \in Thread : "read" \in holds[t]}

(* What the lock words say of the holders.                                  *)
MutexHeld == \A t \in Thread : "mutex" \in holds[t] <=> mutex.owner = t

SpinHeld ==
    /\ spin = 0 => \A t \in Thread : "spin" \notin holds[t]
    /\ \A t, u \in Thread : "spin" \in holds[t] /\ "spin" \in holds[u] => t = u

RwHeld ==
    /\ IsFiniteSet(Readers)
    /\ rw.state >= 0 => Cardinality(Readers) = rw.state
    /\ rw.state < 0 => Readers = {}
    /\ \A t \in Thread : "write" \in holds[t] => rw.state < 0 /\ rw.writer = t
    /\ \A t \in Thread : op[t].name = "rdlock" => "read" \notin holds[t]

LockInv == MutexHeld /\ SpinHeld /\ RwHeld

(* A joiner's record is its own until it frees it.                          *)
JoinInv ==
    /\ \A t \in Thread : op[t].name = "join" =>
          /\ op[t].token <= token
          /\ records[op[t].token].used
          /\ ~records[op[t].token].detached
          /\ records[op[t].token].join_claimed
    /\ \A t, u \in Thread :
          op[t].name = "join" /\ op[u].name = "join" /\ op[t].token = op[u].token => t = u

-----------------------------------------------------------------------------
LEMMA ConstantFacts ==
    /\ NoThread \notin Thread /\ IntMax \in Nat /\ PulseMax \in Nat /\ TokenMax \in Nat
    /\ Delays \subseteq Nat /\ TimeMax \in Nat
    /\ \A p \in Programs : p.start \subseteq Thread /\ p.spent \in 0 .. TokenMax
BY ThreadsAssumption, EventLoopAssumption

LEMMA WaitTyped ==
    ASSUME wait \in [Thread -> {"running", "waiting", "woken"}],
           \/ UNCHANGED wait \/ Pulse
           \/ \E t \in Thread : Wait(t) \/ Return(t)
    PROVE  wait' \in [Thread -> {"running", "waiting", "woken"}]
BY DEF Pulse, Pulsed, Wait, Return

(* The names of the calls tell them apart.                                  *)
LEMMA OpNames ==
    ASSUME NEW r \in OpType
    PROVE  /\ r.name = "cond" => r \in CondOp
           /\ r.name = "timed" => r \in TimedOp
           /\ r.name = "join" => r \in JoinOp
           /\ r.name \in {"futex", "futex_timed"} => r.val \in {0, 1}
BY DEF OpType, PlainOp, RelockOp, CondOp, TimedOp, SleepOp, FutexOp, FutexTimedOp, JoinOp

LEMMA PlainOps ==
    /\ NoOp \in OpType /\ NoOp.name = "none"
    /\ \A n \in {"lock", "rdlock", "wrlock", "spin", "once", "once_init", "futex_wake"} :
          [name |-> n] \in OpType
    /\ \A a \in Answer : [name |-> "relock", answer |-> a] \in OpType
BY DEF OpType, PlainOp, RelockOp, NoOp

LEMMA DelayTyped ==
    ASSUME NEW d \in Delays, now \in Nat
    PROVE  runtime_deadline_after(now, d) \in Nat
BY ConstantFacts DEF runtime_deadline_after, Saturated

(* A signal changes what a waiter knows, not the call it is inside.         *)
LEMMA Signalled ==
    ASSUME NEW r \in OpType, r.name \in {"cond", "timed"}
    PROVE  /\ [r EXCEPT !.signalled = TRUE] \in OpType
           /\ [r EXCEPT !.signalled = TRUE].name = r.name
           /\ [r EXCEPT !.signalled = TRUE].signalled = TRUE
<1>1. CASE r.name = "cond"
    <2>1. r \in CondOp BY <1>1, OpNames
    <2>2. [r EXCEPT !.signalled = TRUE] \in CondOp BY <2>1 DEF CondOp
    <2>. QED BY <2>1, <2>2 DEF CondOp, OpType
<1>2. CASE r.name = "timed"
    <2>1. r \in TimedOp BY <1>2, OpNames
    <2>2. [r EXCEPT !.signalled = TRUE] \in TimedOp BY <2>1 DEF TimedOp
    <2>. QED BY <2>1, <2>2 DEF TimedOp, OpType
<1>. QED BY <1>1, <1>2

LEMMA OpSet ==
    ASSUME op \in [Thread -> OpType], NEW t \in Thread, NEW x \in OpType,
           op' = [op EXCEPT ![t] = x]
    PROVE  op' \in [Thread -> OpType] /\ op'[t] = x /\ \A u \in Thread \ {t} : op'[u] = op[u]
OBVIOUS

LEMMA HoldsSet ==
    ASSUME holds \in [Thread -> SUBSET Lock], NEW t \in Thread, NEW l \in Lock
    PROVE  /\ Takes(t, l) => /\ holds' \in [Thread -> SUBSET Lock]
                             /\ holds'[t] = holds[t] \cup {l}
           /\ Drops(t, l) => /\ holds' \in [Thread -> SUBSET Lock]
                             /\ holds'[t] = holds[t] \ {l}
           /\ Takes(t, l) \/ Drops(t, l) => \A u \in Thread \ {t} : holds'[u] = holds[u]
BY DEF Takes, Drops

LEMMA ThreadTypeInit == ThreadsInit => ThreadTypeOK
<1>. SUFFICES ASSUME ThreadsInit PROVE ThreadTypeOK OBVIOUS
<1>. USE DEF ThreadsInit
<1>1. wait \in [Thread -> {"running", "waiting", "woken"}] /\ now \in Nat
    BY DEF LoopInit, BroadcastInit
<1>2. op \in [Thread -> OpType] BY PlainOps
<1>3. mutex \in [owner : Thread \cup {NoThread}, depth : Nat] BY DEF FreeMutex
<1>4. rw \in [state : Nat \cup {0 - 1}, writer : Thread \cup {NoThread}] OBVIOUS
<1>5. records \in [1 .. TokenMax -> RecordType] BY DEF Absent, RecordType
<1>6. by_handle \in [Thread -> 0 .. TokenMax] /\ token \in 0 .. TokenMax BY ConstantFacts
<1>. QED BY <1>1, <1>2, <1>3, <1>4, <1>5, <1>6 DEF ThreadTypeOK, LockTypeOK

(* The steps of the system, one action each.                                *)
Step(t) ==
    \/ Yield(t) \/ Resumes(t) \/ pthread_mutex_lock(t) \/ pthread_rwlock_rdlock(t)
    \/ pthread_rwlock_wrlock(t) \/ pthread_spin_lock(t) \/ pthread_once(t)
    \/ CondLoop(t) \/ TimedLoop(t) \/ SleepLoop(t) \/ FutexLoop(t) \/ FutexWake(t)
    \/ OnceWaits(t) \/ init_routine(t) \/ OnceDone(t) \/ JoinLoop(t)
    \/ pthread_mutex_trylock(t) \/ pthread_mutex_unlock(t)
    \/ pthread_cond_signal(t) \/ pthread_cond_wait(t)
    \/ runtime_sys_clock_nanosleep(t) \/ runtime_sys_futex(t) \/ FutexStore(t)
    \/ pthread_rwlock_unlock(t) \/ pthread_spin_unlock(t)
    \/ pthread_create(t) \/ finish_current(t) \/ pthread_join(t) \/ pthread_detach(t)

LEMMA StepSplit == ThreadsNext => RootStep \/ \E t \in Thread : Step(t)
BY DEF ThreadsNext, Loops, NewCall, Step

(* What a step of t does to the calls: its own may change, and a signal     *)
(* reaches the others in a condition wait, with a pulse.                    *)
OpEffect(t) ==
    /\ op' \in [Thread -> OpType]
    /\ \A u \in Thread \ {t} :
          \/ op'[u] = op[u]
          \/ /\ CondWaits(u) /\ Pulse
             /\ op'[u].name = op[u].name

LEMMA OpEffectSet ==
    ASSUME op \in [Thread -> OpType], NEW t \in Thread, NEW x \in OpType,
           op' = [op EXCEPT ![t] = x]
    PROVE  OpEffect(t)
BY OpSet DEF OpEffect

LEMMA OpEffectSame ==
    ASSUME op \in [Thread -> OpType], NEW t \in Thread, UNCHANGED op
    PROVE  OpEffect(t)
BY DEF OpEffect

LEMMA StepOps ==
    ASSUME ThreadTypeOK, NEW t \in Thread, Step(t)
    PROVE  OpEffect(t)
<1>. op \in [Thread -> OpType] /\ op[t] \in OpType BY DEF ThreadTypeOK
<1>1. CASE \/ Yield(t) \/ Resumes(t) \/ OnceWaits(t) \/ init_routine(t)
           \/ pthread_mutex_trylock(t) \/ pthread_mutex_unlock(t)
           \/ pthread_rwlock_unlock(t) \/ pthread_spin_unlock(t)
           \/ pthread_create(t) \/ finish_current(t) \/ pthread_detach(t)
    <2>1. UNCHANGED op
        BY <1>1 DEF Yield, Resumes, OnceWaits, init_routine, pthread_mutex_trylock,
           pthread_mutex_unlock, pthread_rwlock_unlock, pthread_spin_unlock, pthread_create,
           finish_current, pthread_detach
    <2>. QED BY <2>1, OpEffectSame
<1>2. CASE \/ pthread_rwlock_rdlock(t) \/ pthread_rwlock_wrlock(t)
           \/ pthread_spin_lock(t) \/ FutexWake(t) \/ OnceDone(t) \/ FutexStore(t)
    <2>1. \/ op' = [op EXCEPT ![t] = NoOp]
          \/ \E n \in {"rdlock", "wrlock", "spin", "futex_wake"} :
                op' = [op EXCEPT ![t] = [name |-> n]]
        BY <1>2 DEF pthread_rwlock_rdlock, pthread_rwlock_wrlock,
           pthread_spin_lock, FutexWake, OnceDone, FutexStore, Enters, Leaves
    <2>. QED BY <2>1, PlainOps, OpEffectSet
<1>3. CASE pthread_mutex_lock(t)
    <2>1. \/ op' = [op EXCEPT ![t] = NoOp]
          \/ op' = [op EXCEPT ![t] = [name |-> "lock"]]
          \/ UNCHANGED op
        BY <1>3 DEF pthread_mutex_lock, Enters, Leaves
    <2>. QED BY <2>1, PlainOps, OpEffectSet, OpEffectSame
<1>4. CASE pthread_once(t)
    <2>1. \/ op' = [op EXCEPT ![t] = NoOp]
          \/ \E n \in {"once", "once_init"} : op' = [op EXCEPT ![t] = [name |-> n]]
        BY <1>4 DEF pthread_once, Enters, Leaves
    <2>. QED BY <2>1, PlainOps, OpEffectSet
<1>5. CASE CondLoop(t)
    <2>1. op[t] \in CondOp BY <1>5, OpNames DEF CondLoop, Inside
    <2>2. CASE op[t].left > 0 /\ ~op[t].signalled
        <3>1. op' = [op EXCEPT ![t] = [op[t] EXCEPT !.left = op[t].left - 1]]
            BY <1>5, <2>2 DEF CondLoop
        <3>2. [op[t] EXCEPT !.left = op[t].left - 1] \in CondOp BY <2>1, <2>2 DEF CondOp
        <3>. QED BY <3>1, <3>2, OpEffectSet DEF OpType
    <2>3. CASE ~(op[t].left > 0 /\ ~op[t].signalled)
        <3>1. op' = [op EXCEPT ![t] = [name |-> "relock", answer |-> "0"]]
            BY <1>5, <2>3 DEF CondLoop, Relocks, Enters
        <3>. QED BY <3>1, PlainOps, OpEffectSet DEF Answer
    <2>. QED BY <2>2, <2>3
<1>6. CASE TimedLoop(t) \/ SleepLoop(t) \/ FutexLoop(t) \/ JoinLoop(t)
    <2>1. \/ UNCHANGED op
          \/ op' = [op EXCEPT ![t] = NoOp]
          \/ \E a \in Answer : op' = [op EXCEPT ![t] = [name |-> "relock", answer |-> a]]
        BY <1>6 DEF TimedLoop, SleepLoop, FutexLoop, JoinLoop, Relocks, Enters, Leaves, Answer
    <2>. QED BY <2>1, PlainOps, OpEffectSet, OpEffectSame
<1>7. CASE pthread_cond_signal(t)
    <2>1. op' = [u \in Thread |-> IF CondWaits(u) THEN [op[u] EXCEPT !.signalled = TRUE]
                                  ELSE op[u]]
        BY <1>7 DEF pthread_cond_signal
    <2>2. \A u \in Thread : CondWaits(u) =>
              op'[u] \in OpType /\ op'[u].name = op[u].name
        BY <2>1, Signalled DEF CondWaits
    <2>3. \A u \in Thread : ~CondWaits(u) => op'[u] = op[u] BY <2>1
    <2>4. Pulse BY <1>7 DEF pthread_cond_signal
    <2>5. op' \in [Thread -> OpType]
        <3>. SUFFICES ASSUME NEW u \in Thread PROVE op'[u] \in OpType BY <2>1
        <3>. QED BY <2>2, <2>3
    <2>. QED BY <2>2, <2>3, <2>4, <2>5 DEF OpEffect
<1>8. CASE pthread_cond_wait(t)
    <2>1. CASE op' = [op EXCEPT ![t] = [name |-> "cond", signalled |-> FALSE, left |-> PulseMax]]
        <3>1. [name |-> "cond", signalled |-> FALSE, left |-> PulseMax] \in OpType
            BY ConstantFacts DEF OpType, CondOp
        <3>. QED BY <2>1, <3>1, OpEffectSet
    <2>2. CASE \E d \in Delays : op' = [op EXCEPT ![t] =
                  [name |-> "timed", signalled |-> FALSE, deadline |-> runtime_deadline_after(now, d)]]
        <3>1. PICK d \in Delays : op' = [op EXCEPT ![t] =
                  [name |-> "timed", signalled |-> FALSE, deadline |-> runtime_deadline_after(now, d)]]
            BY <2>2
        <3>2. runtime_deadline_after(now, d) \in Nat BY DelayTyped DEF ThreadTypeOK
        <3>3. [name |-> "timed", signalled |-> FALSE, deadline |-> runtime_deadline_after(now, d)]
              \in OpType
            BY <3>2 DEF OpType, TimedOp
        <3>. QED BY <3>1, <3>3, OpEffectSet
    <2>. QED BY <1>8, <2>1, <2>2 DEF pthread_cond_wait, Enters
<1>9. CASE runtime_sys_clock_nanosleep(t)
    <2>1. PICK d \in Delays : op' = [op EXCEPT ![t] =
              [name |-> "sleep", deadline |-> runtime_deadline_after(now, d)]]
        BY <1>9 DEF runtime_sys_clock_nanosleep, Enters
    <2>2. runtime_deadline_after(now, d) \in Nat BY DelayTyped DEF ThreadTypeOK
    <2>3. [name |-> "sleep", deadline |-> runtime_deadline_after(now, d)] \in OpType
        BY <2>2 DEF OpType, SleepOp
    <2>. QED BY <2>1, <2>3, OpEffectSet
<1>10. CASE runtime_sys_futex(t)
    <2>1. CASE op' = [op EXCEPT ![t] = [name |-> "futex", val |-> word]]
        <3>1. [name |-> "futex", val |-> word] \in OpType BY DEF OpType, FutexOp, ThreadTypeOK
        <3>. QED BY <2>1, <3>1, OpEffectSet
    <2>2. CASE \E d \in Delays : op' = [op EXCEPT ![t] =
                  [name |-> "futex_timed", val |-> word, deadline |-> runtime_deadline_after(now, d)]]
        <3>1. PICK d \in Delays : op' = [op EXCEPT ![t] =
                  [name |-> "futex_timed", val |-> word, deadline |-> runtime_deadline_after(now, d)]]
            BY <2>2
        <3>2. runtime_deadline_after(now, d) \in Nat BY DelayTyped DEF ThreadTypeOK
        <3>3. [name |-> "futex_timed", val |-> word, deadline |-> runtime_deadline_after(now, d)]
              \in OpType
            BY <3>2 DEF OpType, FutexTimedOp, ThreadTypeOK
        <3>. QED BY <3>1, <3>3, OpEffectSet
    <2>. QED BY <1>10, <2>1, <2>2 DEF runtime_sys_futex, Enters
<1>11. CASE pthread_join(t)
    <2>1. PICK k \in 1 .. token : op' = [op EXCEPT ![t] = [name |-> "join", token |-> k]]
        BY <1>11 DEF pthread_join, Enters
    <2>2. k \in 1 .. TokenMax BY ConstantFacts DEF ThreadTypeOK
    <2>3. [name |-> "join", token |-> k] \in OpType BY <2>2 DEF OpType, JoinOp
    <2>. QED BY <2>1, <2>3, OpEffectSet
<1>. QED BY <1>1, <1>2, <1>3, <1>4, <1>5, <1>6, <1>7, <1>8, <1>9, <1>10, <1>11 DEF Step

(* A step of t that leaves the locks alone, and does not go to wait for a   *)
(* read lock, keeps what the lock words say.                                *)
LEMMA LockFrame ==
    ASSUME ThreadTypeOK, LockInv, NEW t \in Thread, OpEffect(t),
           UNCHANGED <<mutex, rw, spin, holds>>,
           op'[t].name = "rdlock" => op[t].name = "rdlock"
    PROVE  LockTypeOK' /\ LockInv'
<1>1. LockTypeOK' BY DEF ThreadTypeOK, LockTypeOK
<1>2. \A u \in Thread : op'[u].name = "rdlock" => op[u].name = "rdlock"
    BY DEF OpEffect
<1>3. MutexHeld' BY DEF LockInv, MutexHeld
<1>4. SpinHeld' BY DEF LockInv, SpinHeld
<1>5. Readers' = Readers BY DEF Readers
<1>6. RwHeld' BY <1>2, <1>5 DEF LockInv, RwHeld
<1>. QED BY <1>1, <1>3, <1>4, <1>6 DEF LockInv

LEMMA MutexTaken ==
    ASSUME ThreadTypeOK, LockInv, NEW t \in Thread, OpEffect(t),
           mutex_try_acquire(t) = "ok", MutexAcquired(t), UNCHANGED <<rw, spin>>,
           op'[t].name # "rdlock"
    PROVE  LockTypeOK' /\ LockInv'
<1>. LockTypeOK BY DEF ThreadTypeOK
<1>1. mutex.owner \in {NoThread, t} BY DEF mutex_try_acquire
<1>2. /\ holds' \in [Thread -> SUBSET Lock]
      /\ holds'[t] = holds[t] \cup {"mutex"}
      /\ \A u \in Thread \ {t} : holds'[u] = holds[u]
    BY HoldsSet DEF MutexAcquired, Lock, LockTypeOK
<1>3. mutex' \in [owner : Thread \cup {NoThread}, depth : Nat] /\ mutex'.owner = t
    BY DEF MutexAcquired, LockTypeOK
<1>4. LockTypeOK' BY <1>2, <1>3 DEF LockTypeOK
<1>5. MutexHeld' BY <1>1, <1>2, <1>3, ConstantFacts DEF LockInv, MutexHeld
<1>6. \A u \in Thread : \A l \in {"read", "write", "spin"} : l \in holds'[u] <=> l \in holds[u]
    BY <1>2
<1>7. SpinHeld' BY <1>6 DEF LockInv, SpinHeld
<1>8. Readers' = Readers BY <1>6 DEF Readers
<1>9. \A u \in Thread : op'[u].name = "rdlock" => op[u].name = "rdlock" BY DEF OpEffect
<1>10. RwHeld' BY <1>6, <1>8, <1>9 DEF LockInv, RwHeld
<1>. QED BY <1>4, <1>5, <1>7, <1>10 DEF LockInv

LEMMA MutexGiven ==
    ASSUME ThreadTypeOK, LockInv, NEW t \in Thread, OpEffect(t),
           Unlocked(t), UNCHANGED <<rw, spin>>, op'[t].name # "rdlock"
    PROVE  LockTypeOK' /\ LockInv'
<1>. LockTypeOK BY DEF ThreadTypeOK
<1>1. CASE mutex.depth > 1
    <2>1. /\ mutex' \in [owner : Thread \cup {NoThread}, depth : Nat]
          /\ mutex'.owner = mutex.owner
          /\ UNCHANGED holds
        BY <1>1 DEF Unlocked, LockTypeOK
    <2>2. LockTypeOK' BY <2>1 DEF LockTypeOK
    <2>3. MutexHeld' BY <2>1 DEF LockInv, MutexHeld
    <2>4. SpinHeld' BY <2>1 DEF LockInv, SpinHeld
    <2>5. Readers' = Readers BY <2>1 DEF Readers
    <2>6. \A u \in Thread : op'[u].name = "rdlock" => op[u].name = "rdlock" BY DEF OpEffect
    <2>7. RwHeld' BY <2>1, <2>5, <2>6 DEF LockInv, RwHeld
    <2>. QED BY <2>2, <2>3, <2>4, <2>7 DEF LockInv
<1>2. CASE ~(mutex.depth > 1)
    <2>1. mutex' = FreeMutex /\ Drops(t, "mutex") /\ mutex.owner = t BY <1>2 DEF Unlocked
    <2>2. /\ holds' \in [Thread -> SUBSET Lock]
          /\ holds'[t] = holds[t] \ {"mutex"}
          /\ \A u \in Thread \ {t} : holds'[u] = holds[u]
        BY <2>1, HoldsSet DEF Lock, LockTypeOK
    <2>3. mutex' \in [owner : Thread \cup {NoThread}, depth : Nat] /\ mutex'.owner = NoThread
        BY <2>1 DEF FreeMutex
    <2>4. LockTypeOK' BY <2>2, <2>3 DEF LockTypeOK
    <2>5. MutexHeld' BY <2>1, <2>2, <2>3, ConstantFacts DEF LockInv, MutexHeld
    <2>6. \A u \in Thread : \A l \in {"read", "write", "spin"} : l \in holds'[u] <=> l \in holds[u]
        BY <2>2
    <2>7. SpinHeld' BY <2>6 DEF LockInv, SpinHeld
    <2>8. Readers' = Readers BY <2>6 DEF Readers
    <2>9. \A u \in Thread : op'[u].name = "rdlock" => op[u].name = "rdlock" BY DEF OpEffect
    <2>10. RwHeld' BY <2>6, <2>8, <2>9 DEF LockInv, RwHeld
    <2>. QED BY <2>4, <2>5, <2>7, <2>10 DEF LockInv
<1>. QED BY <1>1, <1>2

LEMMA SpinStep ==
    ASSUME ThreadTypeOK, LockInv, NEW t \in Thread, OpEffect(t),
           pthread_spin_lock(t) \/ pthread_spin_unlock(t)
    PROVE  LockTypeOK' /\ LockInv'
<1>. LockTypeOK BY DEF ThreadTypeOK
<1>. UNCHANGED <<mutex, rw>> BY DEF pthread_spin_lock, pthread_spin_unlock
<1>1. op'[t].name # "rdlock"
    <2>1. CASE pthread_spin_lock(t)
        <3>1. op'[t] \in {NoOp, [name |-> "spin"]}
            BY <2>1 DEF pthread_spin_lock, Enters, Leaves, ThreadTypeOK
        <3>. QED BY <3>1, PlainOps
    <2>2. CASE pthread_spin_unlock(t)
        BY <2>2, PlainOps DEF pthread_spin_unlock, Makes
    <2>. QED BY <2>1, <2>2
<1>2. CASE UNCHANGED <<spin, holds>> BY <1>1, <1>2, LockFrame
<1>3. CASE ~UNCHANGED <<spin, holds>>
    <2>1. \/ spin = 0 /\ spin' = 1 /\ Takes(t, "spin")
          \/ spin = 1 /\ spin' = 0 /\ "spin" \in holds[t] /\ Drops(t, "spin")
        BY <1>3 DEF pthread_spin_lock, pthread_spin_unlock
    <2>2. /\ holds' \in [Thread -> SUBSET Lock]
          /\ \A u \in Thread \ {t} : holds'[u] = holds[u]
          /\ \A l \in {"mutex", "read", "write"} : l \in holds'[t] <=> l \in holds[t]
          /\ "spin" \in holds'[t] <=> spin' = 1
        BY <2>1, HoldsSet DEF Lock, LockTypeOK
    <2>3. LockTypeOK' BY <2>1, <2>2 DEF LockTypeOK
    <2>4. \A u \in Thread : \A l \in {"mutex", "read", "write"} : l \in holds'[u] <=> l \in holds[u]
        BY <2>2
    <2>5. MutexHeld' BY <2>4 DEF LockInv, MutexHeld
    <2>6. \A u \in Thread \ {t} : "spin" \notin holds'[u]
        BY <2>1, <2>2 DEF LockInv, SpinHeld
    <2>7. SpinHeld' BY <2>2, <2>6 DEF SpinHeld
    <2>8. Readers' = Readers BY <2>4 DEF Readers
    <2>9. \A u \in Thread : op'[u].name = "rdlock" => op[u].name = "rdlock"
        BY <1>1 DEF OpEffect
    <2>10. RwHeld' BY <2>4, <2>8, <2>9 DEF LockInv, RwHeld
    <2>. QED BY <2>3, <2>5, <2>7, <2>10 DEF LockInv
<1>. QED BY <1>2, <1>3

(* A read lock taken or given up moves the count and the readers together.  *)
LEMMA ReadStep ==
    ASSUME ThreadTypeOK, LockInv, NEW t \in Thread, OpEffect(t),
           UNCHANGED <<mutex, spin>>, op'[t].name # "rdlock",
           \/ /\ rw_try_read = "ok" /\ "read" \notin holds[t]
              /\ rw' = [rw EXCEPT !.state = @ + 1] /\ Takes(t, "read")
           \/ /\ rw.state > 0 /\ "read" \in holds[t]
              /\ rw' = [rw EXCEPT !.state = @ - 1] /\ Drops(t, "read")
    PROVE  LockTypeOK' /\ LockInv'
<1>. LockTypeOK BY DEF ThreadTypeOK
<1>1. /\ holds' \in [Thread -> SUBSET Lock]
      /\ \A u \in Thread \ {t} : holds'[u] = holds[u]
      /\ \A l \in {"mutex", "spin", "write"} : l \in holds'[t] <=> l \in holds[t]
    BY HoldsSet DEF Lock, LockTypeOK
<1>2. \A u \in Thread : \A l \in {"mutex", "spin", "write"} : l \in holds'[u] <=> l \in holds[u]
    BY <1>1
<1>3. rw.state \in Nat BY DEF rw_try_read, LockTypeOK
<1>4. /\ rw' \in [state : Nat \cup {0 - 1}, writer : Thread \cup {NoThread}]
      /\ rw'.state \in Nat
    BY <1>3 DEF LockTypeOK
<1>5. LockTypeOK' BY <1>1, <1>4 DEF LockTypeOK
<1>6. MutexHeld' BY <1>2 DEF LockInv, MutexHeld
<1>7. SpinHeld' BY <1>2 DEF LockInv, SpinHeld
<1>8. IsFiniteSet(Readers) /\ Cardinality(Readers) = rw.state
    BY <1>3 DEF LockInv, RwHeld
<1>9. IsFiniteSet(Readers') /\ Cardinality(Readers') = rw'.state
    <2>1. CASE /\ "read" \notin holds[t] /\ rw' = [rw EXCEPT !.state = @ + 1]
               /\ Takes(t, "read")
        <3>1. holds'[t] = holds[t] \cup {"read"} BY <2>1, HoldsSet DEF Lock, LockTypeOK
        <3>2. Readers' = Readers \cup {t} /\ t \notin Readers BY <1>1, <2>1, <3>1 DEF Readers
        <3>3. rw'.state = rw.state + 1 BY <2>1 DEF LockTypeOK
        <3>. QED BY <1>8, <3>2, <3>3, FS_AddElement
    <2>2. CASE /\ "read" \in holds[t] /\ rw' = [rw EXCEPT !.state = @ - 1]
               /\ Drops(t, "read")
        <3>1. holds'[t] = holds[t] \ {"read"} BY <2>2, HoldsSet DEF Lock, LockTypeOK
        <3>2. Readers' = Readers \ {t} /\ t \in Readers BY <1>1, <2>2, <3>1 DEF Readers
        <3>3. rw'.state = rw.state - 1 BY <2>2 DEF LockTypeOK
        <3>. QED BY <1>8, <3>2, <3>3, FS_RemoveElement
    <2>. QED BY <2>1, <2>2
<1>10. \A u \in Thread : "write" \notin holds'[u] BY <1>2, <1>3 DEF LockInv, RwHeld
<1>11. \A u \in Thread : op'[u].name = "rdlock" => "read" \notin holds'[u]
    BY <1>1 DEF OpEffect, LockInv, RwHeld
<1>12. RwHeld' BY <1>4, <1>9, <1>10, <1>11 DEF RwHeld
<1>. QED BY <1>5, <1>6, <1>7, <1>12 DEF LockInv

(* A write lock is taken from nobody, and given up by the writer.           *)
LEMMA WriteStep ==
    ASSUME ThreadTypeOK, LockInv, NEW t \in Thread, OpEffect(t),
           UNCHANGED <<mutex, spin>>, op'[t].name # "rdlock",
           \/ /\ rw.state = 0
              /\ rw' = [state |-> 0 - 1, writer |-> t] /\ Takes(t, "write")
           \/ /\ rw.state < 0 /\ rw.writer = t
              /\ rw' = [state |-> 0, writer |-> NoThread] /\ Drops(t, "write")
    PROVE  LockTypeOK' /\ LockInv'
<1>. LockTypeOK BY DEF ThreadTypeOK
<1>1. /\ holds' \in [Thread -> SUBSET Lock]
      /\ \A u \in Thread \ {t} : holds'[u] = holds[u]
      /\ \A l \in {"mutex", "spin", "read"} : l \in holds'[t] <=> l \in holds[t]
    BY HoldsSet DEF Lock, LockTypeOK
<1>2. \A u \in Thread : \A l \in {"mutex", "spin", "read"} : l \in holds'[u] <=> l \in holds[u]
    BY <1>1
<1>3. rw' \in [state : Nat \cup {0 - 1}, writer : Thread \cup {NoThread}]
    OBVIOUS
<1>4. LockTypeOK' BY <1>1, <1>3 DEF LockTypeOK
<1>5. MutexHeld' BY <1>2 DEF LockInv, MutexHeld
<1>6. SpinHeld' BY <1>2 DEF LockInv, SpinHeld
<1>7. Readers = {}
    <2>1. CASE rw.state < 0 BY <2>1 DEF LockInv, RwHeld
    <2>2. CASE rw.state = 0
        <3>1. IsFiniteSet(Readers) /\ Cardinality(Readers) = 0 BY <2>2 DEF LockInv, RwHeld
        <3>. QED BY <3>1, FS_EmptySet
    <2>. QED BY <2>1, <2>2
<1>8. Readers' = {} BY <1>2, <1>7 DEF Readers
<1>9. IsFiniteSet(Readers') /\ Cardinality(Readers') = 0 BY <1>8, FS_EmptySet
<1>10. \A u \in Thread : "write" \in holds'[u] => rw'.state < 0 /\ rw'.writer = u
    <2>1. \A u \in Thread \ {t} : "write" \notin holds[u] BY DEF LockInv, RwHeld
    <2>2. "write" \in holds'[t] => rw' = [state |-> 0 - 1, writer |-> t]
        BY HoldsSet DEF Lock, LockTypeOK
    <2>. QED BY <1>1, <2>1, <2>2
<1>11. \A u \in Thread : "read" \notin holds'[u] BY <1>8 DEF Readers
<1>12. rw'.state \in {0, 0 - 1} OBVIOUS
<1>13. RwHeld' BY <1>8, <1>9, <1>10, <1>11, <1>12 DEF RwHeld
<1>. QED BY <1>4, <1>5, <1>6, <1>13 DEF LockInv

LEMMA RwStep ==
    ASSUME ThreadTypeOK, LockInv, NEW t \in Thread, OpEffect(t),
           pthread_rwlock_rdlock(t) \/ pthread_rwlock_wrlock(t) \/ pthread_rwlock_unlock(t)
    PROVE  LockTypeOK' /\ LockInv'
<1>. op \in [Thread -> OpType] BY DEF ThreadTypeOK
<1>1. CASE pthread_rwlock_rdlock(t)
    <2>1. UNCHANGED <<mutex, spin>> BY <1>1 DEF pthread_rwlock_rdlock
    <2>2. "read" \notin holds[t]
        BY <1>1 DEF pthread_rwlock_rdlock, Inside, LockInv, RwHeld
    <2>3. CASE rw_try_read = "ok"
        <3>1. op'[t] = NoOp BY <1>1, <2>3 DEF pthread_rwlock_rdlock, Leaves
        <3>2. rw' = [rw EXCEPT !.state = @ + 1] /\ Takes(t, "read")
            BY <1>1, <2>3 DEF pthread_rwlock_rdlock
        <3>. QED BY <2>1, <2>2, <2>3, <3>1, <3>2, PlainOps, ReadStep
    <2>4. CASE rw_try_read # "ok"
        <3>1. UNCHANGED <<rw, holds>> BY <1>1, <2>4 DEF pthread_rwlock_rdlock
        <3>2. LockTypeOK' BY <2>1, <3>1 DEF ThreadTypeOK, LockTypeOK
        <3>3. MutexHeld' /\ SpinHeld' BY <2>1, <3>1 DEF LockInv, MutexHeld, SpinHeld
        <3>4. \A u \in Thread : op'[u].name = "rdlock" => "read" \notin holds'[u]
            BY <2>2, <3>1 DEF OpEffect, LockInv, RwHeld
        <3>5. Readers' = Readers BY <3>1 DEF Readers
        <3>6. RwHeld' BY <3>1, <3>4, <3>5 DEF LockInv, RwHeld
        <3>. QED BY <3>2, <3>3, <3>6 DEF LockInv
    <2>. QED BY <2>3, <2>4
<1>2. CASE pthread_rwlock_wrlock(t)
    <2>1. UNCHANGED <<mutex, spin>> BY <1>2 DEF pthread_rwlock_wrlock
    <2>2. op'[t] \in {NoOp, [name |-> "wrlock"]} BY <1>2 DEF pthread_rwlock_wrlock, Enters, Leaves
    <2>3. op'[t].name # "rdlock" BY <2>2, PlainOps
    <2>4. CASE UNCHANGED <<rw, holds>> BY <2>1, <2>3, <2>4, LockFrame
    <2>5. CASE ~UNCHANGED <<rw, holds>>
        <3>1. rw.state = 0 /\ rw' = [state |-> 0 - 1, writer |-> t] /\ Takes(t, "write")
            BY <1>2, <2>5 DEF pthread_rwlock_wrlock, rw_try_write
        <3>. QED BY <2>1, <2>3, <3>1, WriteStep
    <2>. QED BY <2>4, <2>5
<1>3. CASE pthread_rwlock_unlock(t)
    <2>1. UNCHANGED <<mutex, spin>> BY <1>3 DEF pthread_rwlock_unlock
    <2>2. op'[t].name # "rdlock" BY <1>3, PlainOps DEF pthread_rwlock_unlock, Makes
    <2>3. \/ /\ rw.state < 0 /\ rw.writer = t
             /\ rw' = [state |-> 0, writer |-> NoThread] /\ Drops(t, "write")
          \/ /\ rw.state > 0 /\ "read" \in holds[t]
             /\ rw' = [rw EXCEPT !.state = @ - 1] /\ Drops(t, "read")
        BY <1>3 DEF pthread_rwlock_unlock
    <2>4. CASE rw.state < 0
        BY <2>1, <2>2, <2>3, <2>4, WriteStep DEF ThreadTypeOK, LockTypeOK
    <2>5. CASE ~(rw.state < 0)
        BY <2>1, <2>2, <2>3, <2>5, ReadStep
    <2>. QED BY <2>4, <2>5
<1>. QED BY <1>1, <1>2, <1>3

LEMMA LockStep ==
    ASSUME ThreadTypeOK, LockInv, NEW t \in Thread, OpEffect(t), Step(t)
    PROVE  LockTypeOK' /\ LockInv'
<1>. op \in [Thread -> OpType] BY DEF ThreadTypeOK
<1>1. CASE pthread_rwlock_rdlock(t) \/ pthread_rwlock_wrlock(t) \/ pthread_rwlock_unlock(t)
    BY <1>1, RwStep
<1>2. CASE pthread_spin_lock(t) \/ pthread_spin_unlock(t)
    BY <1>2, SpinStep
<1>3. CASE pthread_mutex_lock(t)
    <2>1. UNCHANGED <<rw, spin>> BY <1>3 DEF pthread_mutex_lock
    <2>2. op'[t].name # "rdlock"
        <3>1. \/ op'[t] = NoOp \/ op'[t] = [name |-> "lock"]
              \/ op[t].name \in {"lock", "relock"} /\ op'[t] = op[t]
            BY <1>3 DEF pthread_mutex_lock, Enters, Leaves, Makes, Inside
        <3>. QED BY <3>1, PlainOps
    <2>3. CASE UNCHANGED <<mutex, holds>> BY <2>1, <2>2, <2>3, LockFrame
    <2>4. CASE ~UNCHANGED <<mutex, holds>>
        <3>1. mutex_try_acquire(t) = "ok" /\ MutexAcquired(t)
            BY <1>3, <2>4 DEF pthread_mutex_lock
        <3>. QED BY <2>1, <2>2, <3>1, MutexTaken
    <2>. QED BY <2>3, <2>4
<1>4. CASE pthread_mutex_trylock(t)
    <2>1. /\ UNCHANGED <<op, rw, spin>> /\ op[t] = NoOp
          /\ mutex_try_acquire(t) = "ok" /\ MutexAcquired(t)
        BY <1>4 DEF pthread_mutex_trylock, Makes
    <2>. QED BY <2>1, PlainOps, MutexTaken
<1>5. CASE pthread_mutex_unlock(t)
    <2>1. UNCHANGED <<op, rw, spin>> /\ op[t] = NoOp /\ Unlocked(t)
        BY <1>5 DEF pthread_mutex_unlock, Makes
    <2>. QED BY <2>1, PlainOps, MutexGiven
<1>6. CASE pthread_cond_wait(t)
    <2>1. UNCHANGED <<rw, spin>> /\ Unlocked(t) BY <1>6 DEF pthread_cond_wait
    <2>2. op'[t].name \in {"cond", "timed"} BY <1>6 DEF pthread_cond_wait, Enters
    <2>. QED BY <2>1, <2>2, MutexGiven
<1>7. CASE pthread_cond_signal(t)
    <2>1. UNCHANGED <<mutex, rw, spin, holds>> BY <1>7 DEF pthread_cond_signal, lockVars
    <2>2. op'[t] = op[t]
        <3>1. op[t] = NoOp BY <1>7 DEF pthread_cond_signal, Makes
        <3>2. ~CondWaits(t) BY <3>1, PlainOps DEF CondWaits
        <3>. QED BY <1>7, <3>2 DEF pthread_cond_signal
    <2>. QED BY <2>1, <2>2, LockFrame
<1>8. CASE CondLoop(t)
    <2>1. UNCHANGED <<mutex, rw, spin, holds>> BY <1>8 DEF CondLoop, lockVars
    <2>2. op[t] \in CondOp BY <1>8, OpNames DEF CondLoop, Inside
    <2>3. op'[t] = [op[t] EXCEPT !.left = op[t].left - 1] \/ op'[t].name = "relock"
        BY <1>8 DEF CondLoop, Relocks, Enters
    <2>4. op'[t].name # "rdlock" BY <2>2, <2>3 DEF CondOp
    <2>. QED BY <2>1, <2>4, LockFrame
<1>9. CASE \/ Yield(t) \/ Resumes(t) \/ OnceWaits(t) \/ init_routine(t)
           \/ pthread_create(t) \/ finish_current(t) \/ pthread_detach(t)
    <2>1. UNCHANGED <<op, mutex, rw, spin, holds>>
        BY <1>9 DEF Yield, Resumes, OnceWaits, init_routine, pthread_create, finish_current,
           pthread_detach, lockVars
    <2>. QED BY <2>1, LockFrame
<1>10. CASE \/ pthread_once(t) \/ FutexWake(t) \/ OnceDone(t) \/ FutexStore(t)
            \/ TimedLoop(t) \/ SleepLoop(t) \/ FutexLoop(t) \/ JoinLoop(t)
    <2>1. UNCHANGED <<mutex, rw, spin, holds>>
        BY <1>10 DEF pthread_once, FutexWake, OnceDone, FutexStore, TimedLoop, SleepLoop,
           FutexLoop, JoinLoop, lockVars
    <2>2. \/ op'[t] = op[t] \/ op'[t] = NoOp
          \/ op'[t].name \in {"once", "once_init", "futex_wake", "relock"}
        BY <1>10 DEF pthread_once, FutexWake, OnceDone, FutexStore, TimedLoop, SleepLoop,
           FutexLoop, JoinLoop, Relocks, Enters, Leaves
    <2>. QED BY <2>1, <2>2, PlainOps, LockFrame
<1>11. CASE runtime_sys_clock_nanosleep(t) \/ runtime_sys_futex(t) \/ pthread_join(t)
    <2>1. UNCHANGED <<mutex, rw, spin, holds>>
        BY <1>11 DEF runtime_sys_clock_nanosleep, runtime_sys_futex, pthread_join, lockVars
    <2>2. op'[t].name \in {"sleep", "futex", "futex_timed", "join"}
        BY <1>11 DEF runtime_sys_clock_nanosleep, runtime_sys_futex, pthread_join, Enters
    <2>. QED BY <2>1, <2>2, LockFrame
<1>. QED BY <1>1, <1>2, <1>3, <1>4, <1>5, <1>6, <1>7, <1>8, <1>9, <1>10, <1>11 DEF Step

-----------------------------------------------------------------------------
RecordTypeOK ==
    /\ records \in [1 .. TokenMax -> RecordType]
    /\ by_handle \in [Thread -> 0 .. TokenMax]
    /\ token \in 0 .. TokenMax

(* A record as its joiner must find it.                                     *)
Claimed(r) == r.used /\ ~r.detached /\ r.join_claimed

(* A step that starts no join, and leaves the joiners' records claimed.     *)
LEMMA JoinFrame ==
    ASSUME ThreadTypeOK, JoinInv, NEW t \in Thread, OpEffect(t),
           op'[t].name = "join" => op'[t] = op[t],
           token' \in Nat, token <= token',
           \A u \in Thread : op'[u].name = "join" => Claimed(records'[op[u].token])
    PROVE  JoinInv'
<1>1. \A u \in Thread : op'[u].name = "join" => op'[u] = op[u]
    BY DEF OpEffect, CondWaits
<1>2. \A u \in Thread : op'[u].name = "join" =>
          op'[u].token = op[u].token /\ op[u].name = "join" /\ op[u].token \in 1 .. TokenMax
    <2>. SUFFICES ASSUME NEW u \in Thread, op'[u].name = "join"
                  PROVE  op'[u].token = op[u].token /\ op[u].name = "join"
                         /\ op[u].token \in 1 .. TokenMax
        OBVIOUS
    <2>1. op'[u] = op[u] BY <1>1
    <2>2. op[u] \in JoinOp BY <2>1, OpNames DEF ThreadTypeOK
    <2>. QED BY <2>1, <2>2 DEF JoinOp
<1>3. \A u \in Thread : op'[u].name = "join" =>
          op'[u].token <= token' /\ Claimed(records'[op'[u].token])
    <2>. SUFFICES ASSUME NEW u \in Thread, op'[u].name = "join"
                  PROVE  op'[u].token <= token' /\ Claimed(records'[op'[u].token])
        OBVIOUS
    <2>1. op'[u].token = op[u].token /\ op[u].name = "join" /\ op[u].token \in 1 .. TokenMax
        BY <1>2
    <2>2. op[u].token <= token BY <2>1 DEF JoinInv
    <2>3. op[u].token <= token' BY <2>1, <2>2, ConstantFacts DEF ThreadTypeOK
    <2>. QED BY <2>1, <2>3
<1>4. ASSUME NEW u \in Thread, NEW v \in Thread,
             op'[u].name = "join", op'[v].name = "join", op'[u].token = op'[v].token
      PROVE  u = v
    BY <1>2, <1>4 DEF JoinInv
<1>. QED BY <1>3, <1>4 DEF JoinInv, Claimed

LEMMA RecordStep ==
    ASSUME ThreadTypeOK, JoinInv, NEW t \in Thread, OpEffect(t), Step(t)
    PROVE  RecordTypeOK' /\ JoinInv'
<1>. op \in [Thread -> OpType] /\ RecordTypeOK BY DEF ThreadTypeOK, RecordTypeOK
<1>. token \in Nat /\ TokenMax \in Nat BY ConstantFacts DEF RecordTypeOK
<1>. Absent \in RecordType /\ ~Absent.complete BY DEF Absent, RecordType
<1>a. \A u \in Thread : op'[u].name = "join" /\ u # t =>
          op[u].name = "join" /\ op[u].token \in 1 .. TokenMax /\ op[u].token <= token
          /\ Claimed(records[op[u].token])
    <2>. SUFFICES ASSUME NEW u \in Thread, op'[u].name = "join", u # t
                  PROVE  op[u].name = "join" /\ op[u].token \in 1 .. TokenMax
                         /\ op[u].token <= token /\ Claimed(records[op[u].token])
        OBVIOUS
    <2>1. op[u].name = "join" BY DEF OpEffect
    <2>2. op[u] \in JoinOp BY <2>1, OpNames
    <2>. QED BY <2>1, <2>2 DEF JoinOp, JoinInv, Claimed
<1>1. CASE pthread_create(t)
    <2>0. op[t] = NoOp /\ UNCHANGED op /\ token < TokenMax /\ token' = token + 1
        BY <1>1 DEF pthread_create, Makes
    <2>1. op'[t].name = "none" BY <2>0, PlainOps
    <2>2. RecordTypeOK' /\ \A k \in 1 .. token : records'[k] = records[k]
        <3>1. CASE UNCHANGED <<records, by_handle>>
            BY <2>0, <3>1 DEF RecordTypeOK
        <3>2. CASE ~UNCHANGED <<records, by_handle>>
            <4>1. PICK u \in Thread, d \in BOOLEAN :
                      /\ records' = [records EXCEPT ![token + 1] =
                                        [Absent EXCEPT !.used = TRUE, !.detached = d]]
                      /\ by_handle' = [by_handle EXCEPT ![u] = token + 1]
                BY <1>1, <3>2 DEF pthread_create
            <4>2. [Absent EXCEPT !.used = TRUE, !.detached = d] \in RecordType
                BY DEF Absent, RecordType
            <4>3. token + 1 \in 1 .. TokenMax BY <2>0
            <4>4. records' \in [1 .. TokenMax -> RecordType]
                BY <4>1, <4>2, <4>3 DEF RecordTypeOK
            <4>5. by_handle' \in [Thread -> 0 .. TokenMax]
                BY <4>1, <4>3 DEF RecordTypeOK
            <4>6. \A k \in 1 .. token : records'[k] = records[k]
                BY <4>1, <4>3 DEF RecordTypeOK
            <4>. QED BY <2>0, <4>3, <4>4, <4>5, <4>6 DEF RecordTypeOK
        <3>. QED BY <3>1, <3>2
    <2>3. \A u \in Thread : op'[u].name = "join" => Claimed(records'[op[u].token])
        BY <1>a, <2>1, <2>2
    <2>. QED BY <2>0, <2>1, <2>2, <2>3, JoinFrame
<1>2. CASE finish_current(t)
    <2>0. op[t] = NoOp /\ UNCHANGED <<op, token>> /\ by_handle[t] # 0
        BY <1>2 DEF finish_current, Makes
    <2>1. op'[t].name = "none" BY <2>0, PlainOps
    <2>. DEFINE k == by_handle[t]
                r == records[k]
    <2>2. k \in 1 .. TokenMax /\ r \in RecordType BY <2>0 DEF RecordTypeOK
    <2>3. records' = [records EXCEPT ![k] = IF r.detached THEN Absent
                                            ELSE [r EXCEPT !.complete = TRUE]]
        BY <1>2, <2>2 DEF finish_current
    <2>4. by_handle' = [by_handle EXCEPT ![t] = 0] BY <1>2 DEF finish_current
    <2>. HIDE DEF k, r
    <2>5. [r EXCEPT !.complete = TRUE] \in RecordType BY <2>2 DEF RecordType
    <2>6. Claimed(r) => Claimed(IF r.detached THEN Absent ELSE [r EXCEPT !.complete = TRUE])
        BY <2>2 DEF Claimed, RecordType
    <2>7. RecordTypeOK' BY <2>0, <2>2, <2>3, <2>4, <2>5 DEF RecordTypeOK
    <2>8. \A j \in 1 .. TokenMax : Claimed(records[j]) => Claimed(records'[j])
        BY <2>2, <2>3, <2>6 DEF RecordTypeOK, r
    <2>9. \A u \in Thread : op'[u].name = "join" => Claimed(records'[op[u].token])
        BY <1>a, <2>1, <2>8
    <2>. QED BY <2>0, <2>1, <2>7, <2>9, JoinFrame
<1>3. CASE pthread_detach(t)
    <2>0. op[t] = NoOp /\ UNCHANGED <<op, token, by_handle>>
        BY <1>3 DEF pthread_detach, Makes
    <2>1. op'[t].name = "none" BY <2>0, PlainOps
    <2>2. PICK k \in 1 .. token :
              /\ ~records[k].join_claimed
              /\ records' = [records EXCEPT ![k] = IF @.complete THEN Absent
                                                   ELSE [@ EXCEPT !.detached = TRUE]]
        BY <1>3 DEF pthread_detach
    <2>. DEFINE r == records[k]
    <2>3. k \in 1 .. TokenMax /\ r \in RecordType BY DEF RecordTypeOK
    <2>4. records' = [records EXCEPT ![k] = IF r.complete THEN Absent
                                            ELSE [r EXCEPT !.detached = TRUE]]
        BY <2>2, <2>3
    <2>5. [r EXCEPT !.detached = TRUE] \in RecordType BY <2>3 DEF RecordType
    <2>6. RecordTypeOK' BY <2>0, <2>3, <2>4, <2>5 DEF RecordTypeOK
    <2>7. \A j \in 1 .. TokenMax : Claimed(records[j]) => Claimed(records'[j])
        BY <2>2, <2>3, <2>4 DEF Claimed, RecordTypeOK
    <2>8. \A u \in Thread : op'[u].name = "join" => Claimed(records'[op[u].token])
        BY <1>a, <2>1, <2>7
    <2>. QED BY <2>0, <2>1, <2>6, <2>8, JoinFrame
<1>4. CASE pthread_join(t)
    <2>0. op[t] = NoOp /\ UNCHANGED <<token, by_handle>>
        BY <1>4 DEF pthread_join, Makes
    <2>1. PICK k \in 1 .. token :
              /\ records[k].used /\ ~records[k].detached /\ ~records[k].join_claimed
              /\ records' = [records EXCEPT ![k].join_claimed = TRUE]
              /\ op' = [op EXCEPT ![t] = [name |-> "join", token |-> k]]
        BY <1>4 DEF pthread_join, Enters
    <2>. DEFINE r == records[k]
    <2>2. k \in 1 .. TokenMax /\ r \in RecordType BY DEF RecordTypeOK
    <2>3. records' = [records EXCEPT ![k] = [r EXCEPT !.join_claimed = TRUE]]
        BY <2>1, <2>2
    <2>4. [r EXCEPT !.join_claimed = TRUE] \in RecordType /\ Claimed([r EXCEPT !.join_claimed = TRUE])
        BY <2>1, <2>2 DEF RecordType, Claimed
    <2>5. RecordTypeOK' BY <2>0, <2>2, <2>3, <2>4 DEF RecordTypeOK
    <2>6. \A j \in 1 .. TokenMax : Claimed(records[j]) \/ j = k => Claimed(records'[j])
        BY <2>2, <2>3, <2>4 DEF RecordTypeOK
    <2>7. op'[t] = [name |-> "join", token |-> k] /\ \A u \in Thread \ {t} : op'[u] = op[u]
        BY <2>1
    <2>8. \A u \in Thread \ {t} : op'[u].name = "join" =>
              op'[u].token # k /\ op'[u].token <= token /\ Claimed(records'[op'[u].token])
        BY <1>a, <2>1, <2>6, <2>7 DEF Claimed
    <2>9. op'[t].token = k /\ k <= token /\ Claimed(records'[k]) BY <2>2, <2>6, <2>7
    <2>10. ASSUME NEW u \in Thread, NEW v \in Thread,
                  op'[u].name = "join", op'[v].name = "join", op'[u].token = op'[v].token
           PROVE  u = v
        BY <2>7, <2>8, <2>9, <2>10 DEF JoinInv
    <2>11. \A u \in Thread : op'[u].name = "join" =>
              op'[u].token <= token' /\ Claimed(records'[op'[u].token])
        BY <2>0, <2>8, <2>9
    <2>. QED BY <2>5, <2>10, <2>11 DEF JoinInv, Claimed
<1>5. CASE JoinLoop(t)
    <2>0. UNCHANGED <<token, by_handle>> /\ op[t].name = "join"
        BY <1>5 DEF JoinLoop, Inside
    <2>1. CASE UNCHANGED <<op, records>>
        <3>1. \A u \in Thread : op'[u].name = "join" => Claimed(records'[op[u].token])
            BY <2>1 DEF JoinInv, Claimed
        <3>. QED BY <2>0, <2>1, <3>1, JoinFrame DEF RecordTypeOK
    <2>2. CASE /\ records' = [records EXCEPT ![op[t].token] = Absent]
               /\ op' = [op EXCEPT ![t] = NoOp]
        <3>1. op'[t].name = "none" BY <2>2, PlainOps
        <3>2. RecordTypeOK' BY <2>0, <2>2 DEF RecordTypeOK
        <3>3. \A u \in Thread : op'[u].name = "join" => Claimed(records'[op[u].token])
            BY <1>a, <2>0, <2>2, <3>1 DEF JoinInv, RecordTypeOK
        <3>. QED BY <2>0, <3>1, <3>2, <3>3, JoinFrame
    <2>. QED BY <1>5, <2>1, <2>2 DEF JoinLoop, Leaves
<1>6. CASE /\ UNCHANGED <<records, by_handle, token>>
           /\ op'[t].name = "join" => op'[t] = op[t]
    <2>1. RecordTypeOK' BY <1>6 DEF RecordTypeOK
    <2>2. \A u \in Thread : op'[u].name = "join" => Claimed(records'[op[u].token])
        BY <1>a, <1>6 DEF JoinInv, Claimed
    <2>. QED BY <1>6, <2>1, <2>2, JoinFrame

<1>7. CASE \/ Yield(t) \/ Resumes(t) \/ OnceWaits(t) \/ init_routine(t)
           \/ pthread_mutex_trylock(t) \/ pthread_mutex_unlock(t)
           \/ pthread_rwlock_unlock(t) \/ pthread_spin_unlock(t)
    <2>1. UNCHANGED <<records, by_handle, token>> /\ op'[t] = op[t]
        BY <1>7 DEF Yield, Resumes, OnceWaits, init_routine, pthread_mutex_trylock,
           pthread_mutex_unlock, pthread_rwlock_unlock, pthread_spin_unlock, recordVars
    <2>. QED BY <1>6, <2>1
<1>8. CASE \/ pthread_rwlock_rdlock(t) \/ pthread_rwlock_wrlock(t) \/ pthread_spin_lock(t)
           \/ pthread_once(t) \/ FutexWake(t) \/ OnceDone(t) \/ FutexStore(t)
           \/ TimedLoop(t) \/ SleepLoop(t) \/ FutexLoop(t)
    <2>1. UNCHANGED <<records, by_handle, token>>
        BY <1>8 DEF pthread_rwlock_rdlock, pthread_rwlock_wrlock, pthread_spin_lock, pthread_once,
           FutexWake, OnceDone, FutexStore, TimedLoop, SleepLoop, FutexLoop, recordVars
    <2>2. \/ op'[t] = op[t] \/ op'[t] = NoOp
          \/ op'[t].name \in {"rdlock", "wrlock", "spin", "once", "once_init", "futex_wake", "relock"}
        BY <1>8 DEF pthread_rwlock_rdlock, pthread_rwlock_wrlock, pthread_spin_lock, pthread_once,
           FutexWake, OnceDone, FutexStore, TimedLoop, SleepLoop, FutexLoop, Relocks, Enters, Leaves
    <2>. QED BY <1>6, <2>1, <2>2, PlainOps
<1>9. CASE pthread_cond_wait(t) \/ runtime_sys_clock_nanosleep(t) \/ runtime_sys_futex(t)
    <2>1. UNCHANGED <<records, by_handle, token>>
        BY <1>9 DEF pthread_cond_wait, runtime_sys_clock_nanosleep, runtime_sys_futex, recordVars
    <2>2. op'[t].name \in {"cond", "timed", "sleep", "futex", "futex_timed"}
        BY <1>9 DEF pthread_cond_wait, runtime_sys_clock_nanosleep, runtime_sys_futex, Enters
    <2>. QED BY <1>6, <2>1, <2>2
<1>10. CASE pthread_mutex_lock(t)
    <2>1. UNCHANGED <<records, by_handle, token>> BY <1>10 DEF pthread_mutex_lock, recordVars
    <2>2. \/ op'[t] = NoOp \/ op'[t] = [name |-> "lock"]
          \/ op'[t] = op[t]
        BY <1>10 DEF pthread_mutex_lock, Enters, Leaves
    <2>. QED BY <1>6, <2>1, <2>2, PlainOps
<1>11. CASE pthread_cond_signal(t)
    <2>1. UNCHANGED <<records, by_handle, token>> BY <1>11 DEF pthread_cond_signal, recordVars
    <2>2. ~CondWaits(t) BY <1>11, PlainOps DEF CondWaits, pthread_cond_signal, Makes
    <2>3. op'[t] = op[t] BY <1>11, <2>2 DEF pthread_cond_signal
    <2>. QED BY <1>6, <2>1, <2>3
<1>12. CASE CondLoop(t)
    <2>1. UNCHANGED <<records, by_handle, token>> BY <1>12 DEF CondLoop, recordVars
    <2>2. op[t] \in CondOp BY <1>12, OpNames DEF CondLoop, Inside
    <2>3. op'[t] = [op[t] EXCEPT !.left = op[t].left - 1] \/ op'[t].name = "relock"
        BY <1>12 DEF CondLoop, Relocks, Enters
    <2>4. op'[t].name # "join" BY <2>2, <2>3 DEF CondOp
    <2>. QED BY <1>6, <2>1, <2>4
<1>. QED BY <1>1, <1>2, <1>3, <1>4, <1>5, <1>7, <1>8, <1>9, <1>10, <1>11, <1>12 DEF Step

-----------------------------------------------------------------------------
(* The rest of the types, and the steps of the root.                        *)
LEMMA RestStep ==
    ASSUME ThreadTypeOK, NEW t \in Thread, Step(t)
    PROVE  /\ wait' \in [Thread -> {"running", "waiting", "woken"}]
           /\ now' \in Nat /\ once' \in {0, 1, 2} /\ word' \in {0, 1}
<1>1. UNCHANGED wait \/ Pulse \/ Wait(t) \/ Return(t)
    BY DEF Step, Yield, Resumes, OnceWaits, init_routine, pthread_mutex_trylock, SameLoop,
       pthread_mutex_unlock, pthread_rwlock_unlock, pthread_spin_unlock, pthread_create,
       finish_current, pthread_detach, pthread_mutex_lock, pthread_rwlock_rdlock,
       pthread_rwlock_wrlock, pthread_spin_lock, pthread_once, CondLoop, TimedLoop, SleepLoop,
       FutexLoop, FutexWake, OnceDone, JoinLoop, pthread_cond_signal, pthread_cond_wait,
       runtime_sys_clock_nanosleep, runtime_sys_futex, FutexStore, pthread_join,
       thread_io_wait, ReturnFromWait, Relocks
<1>2. UNCHANGED now
    BY DEF Step, Yield, Resumes, OnceWaits, init_routine, pthread_mutex_trylock, SameLoop,
       pthread_mutex_unlock, pthread_rwlock_unlock, pthread_spin_unlock, pthread_create,
       finish_current, pthread_detach, pthread_mutex_lock, pthread_rwlock_rdlock, SameTimer,
       pthread_rwlock_wrlock, pthread_spin_lock, pthread_once, CondLoop, TimedLoop, SleepLoop,
       FutexLoop, FutexWake, OnceDone, JoinLoop, pthread_cond_signal, pthread_cond_wait,
       runtime_sys_clock_nanosleep, runtime_sys_futex, FutexStore, pthread_join, ReturnFromWait
<1>3. once' \in {once, 1, 2}
    BY DEF Step, Yield, Resumes, OnceWaits, init_routine, pthread_mutex_trylock, lockVars,
       pthread_mutex_unlock, pthread_rwlock_unlock, pthread_spin_unlock, pthread_create,
       finish_current, pthread_detach, pthread_mutex_lock, pthread_rwlock_rdlock,
       pthread_rwlock_wrlock, pthread_spin_lock, pthread_once, CondLoop, TimedLoop, SleepLoop,
       FutexLoop, FutexWake, OnceDone, JoinLoop, pthread_cond_signal, pthread_cond_wait,
       runtime_sys_clock_nanosleep, runtime_sys_futex, FutexStore, pthread_join
<1>4. word' \in {word, 1 - word}
    BY DEF Step, Yield, Resumes, OnceWaits, init_routine, pthread_mutex_trylock, lockVars,
       pthread_mutex_unlock, pthread_rwlock_unlock, pthread_spin_unlock, pthread_create,
       finish_current, pthread_detach, pthread_mutex_lock, pthread_rwlock_rdlock,
       pthread_rwlock_wrlock, pthread_spin_lock, pthread_once, CondLoop, TimedLoop, SleepLoop,
       FutexLoop, FutexWake, OnceDone, JoinLoop, pthread_cond_signal, pthread_cond_wait,
       runtime_sys_clock_nanosleep, runtime_sys_futex, FutexStore, pthread_join
<1>5. wait \in [Thread -> {"running", "waiting", "woken"}] BY DEF ThreadTypeOK
<1>6. wait' \in [Thread -> {"running", "waiting", "woken"}] BY <1>1, <1>5, WaitTyped
<1>7. 1 - word \in {0, 1} BY DEF ThreadTypeOK
<1>. QED BY <1>2, <1>3, <1>4, <1>6, <1>7 DEF ThreadTypeOK

(* The root, or a stuttering step, changes only when cothreads run.         *)
LEMMA RootFacts ==
    ASSUME ThreadTypeOK, RootStep \/ UNCHANGED threadVars
    PROVE  /\ UNCHANGED <<op, mutex, rw, once, spin, word, holds, records, by_handle, token>>
           /\ UNCHANGED wait \/ Pulse
           /\ now' \in Nat
BY DEF RootStep, threadVars, lockVars, recordVars, LoopNext, Tick, TimerFires,
   TimerDriverRestarts, runtime_lifecycle_notified, thread_drain, drain_cothreads, ThreadTypeOK

-----------------------------------------------------------------------------
(* What a cothread asleep may count on.                                     *)
Informed(t) ==
    /\ CondWaits(t) => ~op[t].signalled
    /\ op[t].name \in {"futex", "futex_timed"} /\ op[t].val # word =>
          \E u \in Thread : op[u].name = "futex_wake"
    /\ op[t].name = "once" => once = 1
    /\ op[t].name = "join" => ~records[op[t].token].complete

LEMMA SleepersInformed ==
    SleeperMissesNoSignal <=> \A t \in Thread : wait[t] = "waiting" => Informed(t)
BY DEF SleeperMissesNoSignal, Informed

LEMMA PulseInforms ==
    ASSUME ThreadTypeOK, Pulse
    PROVE  SleeperMissesNoSignal'
<1>1. \A t \in Thread : wait'[t] # "waiting" BY DEF Pulse, Pulsed, ThreadTypeOK
<1>. QED BY <1>1 DEF SleeperMissesNoSignal

(* A step of t without a pulse: it may fall asleep informed, change the     *)
(* futex word with its wake to follow, start the once routine, and complete *)
(* no record another cothread joins.                                        *)
LEMMA WakeFrame ==
    ASSUME ThreadTypeOK, SleeperMissesNoSignal, NEW t \in Thread, OpEffect(t), ~Pulse,
           wait[t] # "waiting",
           UNCHANGED wait \/ Return(t) \/ (Wait(t) /\ Informed(t)'),
           word' = word \/ op'[t].name = "futex_wake",
           op[t].name = "futex_wake" => op'[t].name = "futex_wake",
           once' = once \/ once # 1,
           \A u \in Thread \ {t} : op[u].name = "join" /\ records'[op[u].token].complete =>
               records[op[u].token].complete
    PROVE  SleeperMissesNoSignal'
<1>1. \A u \in Thread \ {t} : op'[u] = op[u] BY DEF OpEffect
<1>2. \A u \in Thread \ {t} : wait'[u] = wait[u] BY DEF Wait, Return, ThreadTypeOK
<1>3. wait'[t] = "waiting" => Informed(t)' BY DEF Return, ThreadTypeOK
<1>4. \A u \in Thread : op[u].name = "futex_wake" => op'[u].name = "futex_wake" BY <1>1
<1>5. ASSUME NEW u \in Thread \ {t}, wait'[u] = "waiting" PROVE Informed(u)'
    <2>1. Informed(u) /\ op'[u] = op[u] BY <1>1, <1>2, <1>5, SleepersInformed
    <2>2. (CondWaits(u) => ~op[u].signalled)' BY <2>1 DEF Informed, CondWaits
    <2>3. (op[u].name = "once" => once = 1)' BY <2>1 DEF Informed
    <2>4. (op[u].name = "join" => ~records[op[u].token].complete)' BY <2>1 DEF Informed
    <2>5. op'[u].name \in {"futex", "futex_timed"} /\ op'[u].val # word' =>
              \E v \in Thread : op'[v].name = "futex_wake"
        <3>1. CASE word' = word BY <1>4, <2>1, <3>1 DEF Informed
        <3>2. CASE op'[t].name = "futex_wake" BY <3>2
        <3>. QED BY <3>1, <3>2
    <2>. QED BY <2>2, <2>3, <2>4, <2>5 DEF Informed
<1>6. \A u \in Thread : wait'[u] = "waiting" => Informed(u)' BY <1>3, <1>5
<1>. QED BY <1>6 DEF SleeperMissesNoSignal, Informed

LEMMA StepRuns ==
    ASSUME NEW t \in Thread, Step(t)
    PROVE  wait[t] # "waiting"
BY DEF Step, Yield, Resumes, OnceWaits, init_routine, pthread_mutex_trylock, InTurn, Inside, Makes,
   pthread_mutex_unlock, pthread_rwlock_unlock, pthread_spin_unlock, pthread_create,
   finish_current, pthread_detach, pthread_mutex_lock, pthread_rwlock_rdlock,
   pthread_rwlock_wrlock, pthread_spin_lock, pthread_once, CondLoop, TimedLoop, SleepLoop,
   FutexLoop, FutexWake, OnceDone, JoinLoop, pthread_cond_signal, pthread_cond_wait,
   runtime_sys_clock_nanosleep, runtime_sys_futex, FutexStore, pthread_join, ReturnFromWait, Return

LEMMA WakeStep ==
    ASSUME ThreadTypeOK, JoinInv, SleeperMissesNoSignal, NEW t \in Thread, OpEffect(t), Step(t)
    PROVE  SleeperMissesNoSignal'
<1>. op \in [Thread -> OpType] BY DEF ThreadTypeOK
<1>1. CASE Pulse BY <1>1, PulseInforms
<1>2. CASE ~Pulse
    <2>0. wait[t] # "waiting" BY StepRuns
    <2>1. CASE \/ Yield(t) \/ Resumes(t) \/ init_routine(t) \/ pthread_mutex_trylock(t)
               \/ pthread_mutex_unlock(t) \/ pthread_rwlock_unlock(t) \/ pthread_spin_unlock(t)
        <3>1. UNCHANGED <<op, word, once, records>> /\ (UNCHANGED wait \/ Return(t))
            BY <2>1 DEF Yield, Resumes, init_routine, pthread_mutex_trylock, pthread_mutex_unlock,
               pthread_rwlock_unlock, pthread_spin_unlock, lockVars, recordVars, SameLoop,
               ReturnFromWait
        <3>. QED BY <1>2, <2>0, <3>1, WakeFrame
    <2>2. CASE \/ pthread_mutex_lock(t) \/ pthread_rwlock_rdlock(t) \/ pthread_rwlock_wrlock(t)
               \/ pthread_spin_lock(t) \/ pthread_cond_wait(t)
               \/ runtime_sys_clock_nanosleep(t) \/ runtime_sys_futex(t)
        <3>1. UNCHANGED <<word, once, records, wait>>
            BY <2>2 DEF pthread_mutex_lock, pthread_rwlock_rdlock, pthread_rwlock_wrlock,
               pthread_spin_lock, pthread_cond_wait, runtime_sys_clock_nanosleep,
               runtime_sys_futex, lockVars, recordVars, SameLoop
        <3>2. op[t].name # "futex_wake"
            BY <2>2, PlainOps DEF pthread_mutex_lock, pthread_rwlock_rdlock,
               pthread_rwlock_wrlock, pthread_spin_lock, pthread_cond_wait,
               runtime_sys_clock_nanosleep, runtime_sys_futex, Makes, Inside
        <3>. QED BY <1>2, <2>0, <3>1, <3>2, WakeFrame
    <2>3. CASE pthread_once(t)
        <3>1. UNCHANGED <<word, records, wait>> /\ (once' = once \/ once = 0)
            BY <2>3 DEF pthread_once, recordVars
        <3>2. op[t].name # "futex_wake" BY <2>3, PlainOps DEF pthread_once, Makes, Inside
        <3>. QED BY <1>2, <2>0, <3>1, <3>2, WakeFrame
    <2>4. CASE FutexStore(t)
        <3>1. UNCHANGED <<once, records, wait>> /\ op'[t].name = "futex_wake"
            BY <2>4 DEF FutexStore, recordVars, SameLoop, Enters
        <3>. QED BY <1>2, <2>0, <3>1, WakeFrame
    <2>5. CASE pthread_create(t) \/ pthread_join(t) \/ pthread_detach(t)
        <3>1. UNCHANGED <<word, once, wait>> /\ op[t] = NoOp
            BY <2>5 DEF pthread_create, pthread_join, pthread_detach, lockVars, SameLoop, Makes
        <3>2. ASSUME NEW k \in 1 .. token, records'[k].complete PROVE records[k].complete
            <4>. token \in Nat /\ TokenMax \in Nat /\ k \in 1 .. TokenMax
                /\ records \in [1 .. TokenMax -> RecordType]
                BY ConstantFacts DEF ThreadTypeOK
            <4>1. CASE records'[k] = records[k] BY <3>2, <4>1
            <4>2. CASE records'[k] # records[k]
                <5>1. CASE pthread_create(t)
                    <6>1. \/ records' = records
                          \/ \E x : records' = [records EXCEPT ![token + 1] = x]
                        BY <5>1 DEF pthread_create
                    <6>. QED BY <4>2, <6>1
                <5>2. CASE pthread_join(t)
                    <6>1. PICK j \in 1 .. token : records' = [records EXCEPT ![j].join_claimed = TRUE]
                        BY <5>2 DEF pthread_join
                    <6>2. j = k BY <4>2, <6>1
                    <6>3. records[k] \in RecordType OBVIOUS
                    <6>4. records'[k] = [records[k] EXCEPT !.join_claimed = TRUE] BY <6>1, <6>2
                    <6>. QED BY <3>2, <6>3, <6>4 DEF RecordType
                <5>3. CASE pthread_detach(t)
                    <6>1. PICK j \in 1 .. token :
                              records' = [records EXCEPT ![j] = IF @.complete THEN Absent
                                                            ELSE [@ EXCEPT !.detached = TRUE]]
                        BY <5>3 DEF pthread_detach
                    <6>2. j = k BY <4>2, <6>1
                    <6>3. records[k] \in RecordType OBVIOUS
                    <6>4. records'[k] = IF records[k].complete THEN Absent
                                        ELSE [records[k] EXCEPT !.detached = TRUE]
                        BY <6>1, <6>2
                    <6>. QED BY <3>2, <6>3, <6>4 DEF RecordType, Absent
                <5>. QED BY <2>5, <5>1, <5>2, <5>3
            <4>. QED BY <4>1, <4>2
        <3>3. \A u \in Thread : op[u].name = "join" => op[u].token \in 1 .. token
            <4>. SUFFICES ASSUME NEW u \in Thread, op[u].name = "join"
                          PROVE  op[u].token \in 1 .. token
                OBVIOUS
            <4>1. op[u] \in JoinOp BY OpNames
            <4>. QED BY <4>1, ConstantFacts DEF JoinOp, JoinInv, ThreadTypeOK
        <3>4. op[t].name # "futex_wake" BY <3>1, PlainOps
        <3>. QED BY <1>2, <2>0, <3>1, <3>2, <3>3, <3>4, WakeFrame
    <2>6. CASE CondLoop(t)
        <3>1. UNCHANGED <<word, once, records>> /\ op[t].name = "cond"
            BY <2>6 DEF CondLoop, lockVars, recordVars, Inside
        <3>2. op[t] \in CondOp BY <3>1, OpNames
        <3>3. UNCHANGED wait \/ (Wait(t) /\ Informed(t)')
            <4>1. CASE op[t].left > 0 /\ ~op[t].signalled
                <5>1. Wait(t) /\ op' = [op EXCEPT ![t].left = @ - 1]
                    BY <2>6, <4>1 DEF CondLoop, thread_io_wait
                <5>2. op'[t] = [op[t] EXCEPT !.left = op[t].left - 1] BY <5>1
                <5>3. op'[t].name = "cond" /\ ~op'[t].signalled BY <3>2, <4>1, <5>2 DEF CondOp
                <5>. QED BY <5>1, <5>3 DEF Informed
            <4>2. CASE ~(op[t].left > 0 /\ ~op[t].signalled) BY <2>6, <4>2 DEF CondLoop, Relocks
            <4>. QED BY <4>1, <4>2
        <3>. QED BY <1>2, <2>0, <3>1, <3>3, WakeFrame
    <2>7. CASE TimedLoop(t) \/ SleepLoop(t) \/ FutexLoop(t) \/ OnceWaits(t)
        <3>1. /\ UNCHANGED <<word, once, records>>
              /\ op[t].name \in {"timed", "sleep", "futex", "futex_timed", "once"}
            BY <2>7 DEF TimedLoop, SleepLoop, FutexLoop, OnceWaits, lockVars, recordVars, Inside
        <3>2. UNCHANGED wait \/ (Wait(t) /\ UNCHANGED op /\ Informed(t))
            BY <2>7 DEF TimedLoop, SleepLoop, FutexLoop, OnceWaits, Inside, Informed, CondWaits,
               thread_io_wait, Relocks
        <3>3. UNCHANGED op /\ Informed(t) => Informed(t)'
            BY <3>1 DEF Informed, CondWaits
        <3>. QED BY <1>2, <2>0, <3>1, <3>2, <3>3, WakeFrame
    <2>8. CASE JoinLoop(t)
        <3>1. UNCHANGED <<word, once>> /\ op[t].name = "join"
            BY <2>8 DEF JoinLoop, lockVars, Inside
        <3>2. CASE ~records[op[t].token].complete
            <4>1. Wait(t) /\ UNCHANGED <<op, records>>
                BY <2>8, <3>2 DEF JoinLoop, thread_io_wait
            <4>2. Informed(t)' BY <3>1, <3>2, <4>1 DEF Informed, CondWaits
            <4>. QED BY <1>2, <2>0, <3>1, <4>1, <4>2, WakeFrame
        <3>3. CASE records[op[t].token].complete
            <4>1. UNCHANGED wait /\ records' = [records EXCEPT ![op[t].token] = Absent]
                BY <2>8, <3>3 DEF JoinLoop
            <4>2. ASSUME NEW u \in Thread \ {t}, op[u].name = "join"
                  PROVE  records'[op[u].token] = records[op[u].token]
                <5>1. op[u] \in JoinOp BY <4>2, OpNames
                <5>2. op[u].token # op[t].token BY <3>1, <4>2 DEF JoinInv
                <5>. QED BY <4>1, <5>1, <5>2 DEF JoinOp, ThreadTypeOK
            <4>. QED BY <1>2, <2>0, <3>1, <4>1, <4>2, WakeFrame
        <3>. QED BY <3>2, <3>3
    <2>9. ~(pthread_cond_signal(t) \/ FutexWake(t) \/ OnceDone(t) \/ finish_current(t))
        BY <1>2 DEF pthread_cond_signal, FutexWake, OnceDone, finish_current
    <2>. QED BY <2>1, <2>2, <2>3, <2>4, <2>5, <2>6, <2>7, <2>8, <2>9 DEF Step
<1>. QED BY <1>1, <1>2

-----------------------------------------------------------------------------
(* How deep the mutex is held, and that a condition wait that kept a level  *)
(* of a recursive mutex has given one up: its way back cannot be refused.   *)
DepthInv ==
    /\ mutex.owner = NoThread => mutex.depth = 0
    /\ mutex.owner # NoThread =>
          /\ mutex.depth \in 1 .. IntMax
          /\ program.type # "recursive" => mutex.depth = 1
    /\ \A t \in Thread : op[t].name \in InCondWait /\ mutex.owner = t =>
          program.type = "recursive" /\ mutex.depth < IntMax

(* What a step does to the mutex and to the condition waits.                *)
MutexEffect(t) ==
    /\ UNCHANGED program
    /\ \/ UNCHANGED mutex /\ (op'[t].name \in InCondWait => op[t].name \in InCondWait)
       \/ mutex_try_acquire(t) = "ok" /\ MutexAcquired(t) /\ op'[t].name \notin InCondWait
       \/ Unlocked(t)

LEMMA MutexEffects ==
    ASSUME ThreadTypeOK, NEW t \in Thread, Step(t)
    PROVE  MutexEffect(t)
<1>. op \in [Thread -> OpType] BY DEF ThreadTypeOK
<1>1. CASE pthread_mutex_unlock(t) \/ pthread_cond_wait(t)
    BY <1>1 DEF pthread_mutex_unlock, pthread_cond_wait, MutexEffect
<1>2. CASE pthread_mutex_trylock(t)
    <2>1. /\ UNCHANGED <<program, op>> /\ op[t] = NoOp
          /\ mutex_try_acquire(t) = "ok" /\ MutexAcquired(t)
        BY <1>2 DEF pthread_mutex_trylock, Makes
    <2>. QED BY <2>1, PlainOps DEF MutexEffect, InCondWait
<1>3. CASE pthread_mutex_lock(t)
    <2>1. UNCHANGED program BY <1>3 DEF pthread_mutex_lock
    <2>2. \/ mutex_try_acquire(t) = "ok" /\ MutexAcquired(t) /\ op'[t] = NoOp
          \/ UNCHANGED mutex /\ (op'[t] = op[t] \/ op'[t] = NoOp \/ op'[t] = [name |-> "lock"])
        BY <1>3 DEF pthread_mutex_lock, Enters, Leaves
    <2>. QED BY <2>1, <2>2, PlainOps DEF MutexEffect, InCondWait
<1>4. CASE CondLoop(t) \/ TimedLoop(t)
    <2>1. UNCHANGED <<program, mutex>> BY <1>4 DEF CondLoop, TimedLoop, lockVars
    <2>2. op[t].name \in InCondWait BY <1>4 DEF CondLoop, TimedLoop, Inside, InCondWait
    <2>. QED BY <2>1, <2>2 DEF MutexEffect
<1>5. CASE pthread_cond_signal(t)
    <2>1. UNCHANGED <<program, mutex>> BY <1>5 DEF pthread_cond_signal, lockVars
    <2>2. ~CondWaits(t) BY <1>5, PlainOps DEF CondWaits, pthread_cond_signal, Makes
    <2>3. op'[t] = op[t] BY <1>5, <2>2 DEF pthread_cond_signal
    <2>. QED BY <2>1, <2>3 DEF MutexEffect
<1>6. CASE \/ Yield(t) \/ Resumes(t) \/ OnceWaits(t) \/ init_routine(t)
           \/ pthread_rwlock_unlock(t) \/ pthread_spin_unlock(t)
           \/ pthread_create(t) \/ finish_current(t) \/ pthread_detach(t)
    <2>1. UNCHANGED <<program, mutex, op>>
        BY <1>6 DEF Yield, Resumes, OnceWaits, init_routine, pthread_rwlock_unlock,
           pthread_spin_unlock, pthread_create, finish_current, pthread_detach, lockVars
    <2>. QED BY <2>1 DEF MutexEffect
<1>7. CASE \/ pthread_rwlock_rdlock(t) \/ pthread_rwlock_wrlock(t) \/ pthread_spin_lock(t)
           \/ pthread_once(t) \/ FutexWake(t) \/ OnceDone(t) \/ FutexStore(t)
           \/ SleepLoop(t) \/ FutexLoop(t) \/ JoinLoop(t)
           \/ runtime_sys_clock_nanosleep(t) \/ runtime_sys_futex(t) \/ pthread_join(t)
    <2>1. UNCHANGED <<program, mutex>>
        BY <1>7 DEF pthread_rwlock_rdlock, pthread_rwlock_wrlock, pthread_spin_lock, pthread_once,
           FutexWake, OnceDone, FutexStore, SleepLoop, FutexLoop, JoinLoop,
           runtime_sys_clock_nanosleep, runtime_sys_futex, pthread_join, lockVars
    <2>2. \/ op'[t] = op[t] \/ op'[t] = NoOp
          \/ op'[t].name \in {"rdlock", "wrlock", "spin", "once", "once_init", "futex_wake",
                              "sleep", "futex", "futex_timed", "join"}
        BY <1>7 DEF pthread_rwlock_rdlock, pthread_rwlock_wrlock, pthread_spin_lock, pthread_once,
           FutexWake, OnceDone, FutexStore, SleepLoop, FutexLoop, JoinLoop,
           runtime_sys_clock_nanosleep, runtime_sys_futex, pthread_join, Enters, Leaves
    <2>. QED BY <2>1, <2>2, PlainOps DEF MutexEffect, InCondWait
<1>. QED BY <1>1, <1>2, <1>3, <1>4, <1>5, <1>6, <1>7 DEF Step

LEMMA DepthStep ==
    ASSUME ThreadTypeOK, DepthInv, NEW t \in Thread, OpEffect(t), MutexEffect(t)
    PROVE  DepthInv'
<1>. LockTypeOK /\ NoThread \notin Thread /\ IntMax \in Nat \ {0}
    BY ThreadsAssumption DEF ThreadTypeOK
<1>. mutex.depth \in Nat BY DEF LockTypeOK
<1>0. \A u \in Thread \ {t} : op'[u].name = op[u].name BY DEF OpEffect
<1>1. CASE UNCHANGED mutex /\ (op'[t].name \in InCondWait => op[t].name \in InCondWait)
    BY <1>0, <1>1 DEF DepthInv, MutexEffect
<1>2. CASE mutex_try_acquire(t) = "ok" /\ MutexAcquired(t) /\ op'[t].name \notin InCondWait
    <2>1. mutex'.owner = t /\ mutex'.depth = mutex.depth + 1 BY <1>2 DEF MutexAcquired
    <2>2. \/ mutex.owner = NoThread
          \/ mutex.owner = t /\ program.type = "recursive" /\ mutex.depth # IntMax
        BY <1>2 DEF mutex_try_acquire
    <2>3. /\ mutex'.depth \in 1 .. IntMax
          /\ program.type # "recursive" => mutex'.depth = 1
        BY <2>1, <2>2 DEF DepthInv
    <2>4. program' = program BY DEF MutexEffect
    <2>. QED BY <1>2, <2>1, <2>3, <2>4 DEF DepthInv
<1>3. CASE Unlocked(t)
    <2>1. program' = program BY DEF MutexEffect
    <2>2. CASE mutex.depth > 1
        <3>1. mutex'.owner = t /\ mutex'.depth = mutex.depth - 1
            BY <1>3, <2>2 DEF Unlocked, LockTypeOK
        <3>2. program.type = "recursive" /\ mutex.depth \in 1 .. IntMax
            BY <1>3, <2>2 DEF Unlocked, DepthInv
        <3>3. mutex'.depth \in 1 .. IntMax /\ mutex'.depth < IntMax
            BY <2>2, <3>1, <3>2
        <3>. QED BY <2>1, <3>1, <3>2, <3>3 DEF DepthInv
    <2>3. CASE ~(mutex.depth > 1)
        <3>1. mutex'.owner = NoThread /\ mutex'.depth = 0
            BY <1>3, <2>3 DEF Unlocked, FreeMutex
        <3>. QED BY <3>1 DEF DepthInv
    <2>. QED BY <2>2, <2>3
<1>. QED BY <1>1, <1>2, <1>3 DEF MutexEffect

(* What a step lets a condition wait do.                                    *)
CondWaitKept(u) ==
    /\ op[u].name \in InCondWait /\ op'[u].name \notin InCondWait => mutex'.owner = u
    /\ op'[u].name = "relock" /\ op'[u] # op[u] /\ op'[u].answer = "ETIMEDOUT" =>
          op[u].name = "timed" /\ ~op[u].signalled /\ op[u].deadline <= now

(* Only the loops of the two waits and pthread_mutex_lock move a cothread   *)
(* that is in a condition wait.                                             *)
LEMMA CondWaitSteps ==
    ASSUME ThreadTypeOK, NEW t \in Thread, Step(t)
    PROVE  \/ CondLoop(t) \/ TimedLoop(t) \/ pthread_mutex_lock(t)
           \/ op'[t] = op[t]
           \/ op[t].name \notin InCondWait /\ op'[t].name # "relock"
<1>. op \in [Thread -> OpType] BY DEF ThreadTypeOK
<1>1. CASE \/ Yield(t) \/ Resumes(t) \/ OnceWaits(t) \/ init_routine(t)
           \/ pthread_mutex_trylock(t) \/ pthread_mutex_unlock(t)
           \/ pthread_rwlock_unlock(t) \/ pthread_spin_unlock(t)
           \/ pthread_create(t) \/ finish_current(t) \/ pthread_detach(t)
    BY <1>1 DEF Yield, Resumes, OnceWaits, init_routine, pthread_mutex_trylock,
       pthread_mutex_unlock, pthread_rwlock_unlock, pthread_spin_unlock, pthread_create,
       finish_current, pthread_detach
<1>2. CASE pthread_cond_signal(t)
    <2>1. ~CondWaits(t) BY <1>2, PlainOps DEF CondWaits, pthread_cond_signal, Makes
    <2>. QED BY <1>2, <2>1 DEF pthread_cond_signal
<1>3. CASE \/ pthread_rwlock_rdlock(t) \/ pthread_rwlock_wrlock(t) \/ pthread_spin_lock(t)
           \/ pthread_once(t) \/ FutexWake(t) \/ OnceDone(t) \/ FutexStore(t)
           \/ SleepLoop(t) \/ FutexLoop(t) \/ JoinLoop(t) \/ pthread_cond_wait(t)
           \/ runtime_sys_clock_nanosleep(t) \/ runtime_sys_futex(t) \/ pthread_join(t)
    <2>1. \/ op[t] = NoOp
          \/ op[t].name \in {"rdlock", "wrlock", "spin", "once", "once_init", "futex_wake",
                             "sleep", "futex", "futex_timed", "join"}
        BY <1>3 DEF pthread_rwlock_rdlock, pthread_rwlock_wrlock, pthread_spin_lock, pthread_once,
           FutexWake, OnceDone, FutexStore, SleepLoop, FutexLoop, JoinLoop, pthread_cond_wait,
           runtime_sys_clock_nanosleep, runtime_sys_futex, pthread_join, Makes, Inside
    <2>2. \/ op'[t] = op[t] \/ op'[t] = NoOp
          \/ op'[t].name \in {"rdlock", "wrlock", "spin", "once", "once_init", "futex_wake",
                              "sleep", "futex", "futex_timed", "join", "cond", "timed"}
        BY <1>3 DEF pthread_rwlock_rdlock, pthread_rwlock_wrlock, pthread_spin_lock, pthread_once,
           FutexWake, OnceDone, FutexStore, SleepLoop, FutexLoop, JoinLoop, pthread_cond_wait,
           runtime_sys_clock_nanosleep, runtime_sys_futex, pthread_join, Enters, Leaves
    <2>. QED BY <2>1, <2>2, PlainOps DEF InCondWait
<1>. QED BY <1>1, <1>2, <1>3 DEF Step

LEMMA ContractStep ==
    ASSUME ThreadTypeOK, DepthInv, NEW t \in Thread, OpEffect(t), Step(t)
    PROVE  \A u \in Thread : CondWaitKept(u)
<1>. op \in [Thread -> OpType] /\ now \in Nat /\ NoThread \notin Thread
    BY ConstantFacts DEF ThreadTypeOK
<1>1. ASSUME NEW u \in Thread \ {t} PROVE CondWaitKept(u)
    BY DEF OpEffect, CondWaits, CondWaitKept, InCondWait
<1>. SUFFICES CondWaitKept(t) BY <1>1
<1>2. CASE CondLoop(t)
    <2>1. op[t] \in CondOp BY <1>2, OpNames DEF CondLoop, Inside
    <2>2. \/ op'[t] = [op[t] EXCEPT !.left = op[t].left - 1]
          \/ op'[t] = [name |-> "relock", answer |-> "0"]
        BY <1>2 DEF CondLoop, Relocks, Enters
    <2>3. op'[t].name \in InCondWait /\ (op'[t].name = "relock" => op'[t].answer = "0")
        BY <2>1, <2>2 DEF CondOp, InCondWait
    <2>. QED BY <2>3 DEF CondWaitKept
<1>3. CASE TimedLoop(t)
    <2>1. op[t] \in TimedOp BY <1>3, OpNames DEF TimedLoop, Inside
    <2>2. \/ op'[t] = op[t]
          \/ op'[t] = [name |-> "relock", answer |-> "0"]
          \/ op'[t] = [name |-> "relock", answer |-> "EIO"]
          \/ /\ op'[t] = [name |-> "relock", answer |-> "ETIMEDOUT"]
             /\ ~op[t].signalled /\ now >= op[t].deadline
        BY <1>3 DEF TimedLoop, Relocks, Enters
    <2>. QED BY <2>1, <2>2 DEF TimedOp, CondWaitKept, InCondWait
<1>4. CASE pthread_mutex_lock(t)
    <2>1. \/ op'[t] = op[t]
          \/ op'[t] = [name |-> "lock"] /\ op[t] = NoOp
          \/ op'[t] = NoOp /\ mutex_try_acquire(t) = "ok" /\ MutexAcquired(t)
          \/ op'[t] = NoOp /\ mutex_try_acquire(t) \in {"EAGAIN", "EDEADLK"}
        BY <1>4 DEF pthread_mutex_lock, Enters, Leaves
    <2>2. MutexAcquired(t) => mutex'.owner = t BY DEF MutexAcquired
    <2>3. mutex_try_acquire(t) \in {"EAGAIN", "EDEADLK"} => op[t].name \notin InCondWait
        BY DEF mutex_try_acquire, DepthInv
    <2>. QED BY <2>1, <2>2, <2>3, PlainOps DEF CondWaitKept, InCondWait
<1>5. CASE op'[t] = op[t] \/ (op[t].name \notin InCondWait /\ op'[t].name # "relock")
    BY <1>5 DEF CondWaitKept
<1>. QED BY <1>2, <1>3, <1>4, <1>5, CondWaitSteps

-----------------------------------------------------------------------------
ThreadsInv == ThreadTypeOK /\ LockInv /\ JoinInv /\ SleeperMissesNoSignal

LEMMA ThreadsInvInit == ThreadsInit => ThreadsInv
<1>. SUFFICES ASSUME ThreadsInit PROVE ThreadsInv OBVIOUS
<1>1. ThreadTypeOK BY ThreadTypeInit
<1>2. \A t \in Thread : holds[t] = {} /\ op[t].name = "none" /\ wait[t] = "running"
    BY PlainOps DEF ThreadsInit, LoopInit, BroadcastInit
<1>3. MutexHeld BY <1>2, ConstantFacts DEF ThreadsInit, FreeMutex, MutexHeld
<1>4. SpinHeld BY <1>2 DEF SpinHeld
<1>5. Readers = {} BY <1>2 DEF Readers
<1>6. IsFiniteSet(Readers) /\ Cardinality(Readers) = 0 BY <1>5, FS_EmptySet
<1>7. RwHeld BY <1>2, <1>5, <1>6 DEF ThreadsInit, RwHeld
<1>8. JoinInv BY <1>2 DEF JoinInv
<1>9. SleeperMissesNoSignal BY <1>2 DEF SleeperMissesNoSignal
<1>. QED BY <1>1, <1>3, <1>4, <1>7, <1>8, <1>9 DEF ThreadsInv, LockInv

LEMMA ThreadsInvStep == ThreadsInv /\ [ThreadsNext]_threadVars => ThreadsInv'
<1>. SUFFICES ASSUME ThreadsInv, [ThreadsNext]_threadVars PROVE ThreadsInv' OBVIOUS
<1>. USE DEF ThreadsInv
<1>1. CASE RootStep \/ UNCHANGED threadVars
    <2>1. /\ UNCHANGED <<op, mutex, rw, once, spin, word, holds, records, by_handle, token>>
          /\ UNCHANGED wait \/ Pulse
          /\ now' \in Nat
        BY <1>1, RootFacts
    <2>2. wait' \in [Thread -> {"running", "waiting", "woken"}]
        BY <2>1, WaitTyped DEF ThreadTypeOK
    <2>3. ThreadTypeOK' BY <2>1, <2>2 DEF ThreadTypeOK, LockTypeOK
    <2>4. MutexHeld' /\ SpinHeld' BY <2>1 DEF LockInv, MutexHeld, SpinHeld
    <2>5. Readers' = Readers BY <2>1 DEF Readers
    <2>6. RwHeld' BY <2>1, <2>5 DEF LockInv, RwHeld
    <2>7. JoinInv' BY <2>1 DEF JoinInv
    <2>8. SleeperMissesNoSignal'
        <3>1. CASE UNCHANGED wait BY <2>1, <3>1 DEF SleeperMissesNoSignal, CondWaits
        <3>2. CASE Pulse BY <3>2, PulseInforms
        <3>. QED BY <2>1, <3>1, <3>2
    <2>. QED BY <2>3, <2>4, <2>6, <2>7, <2>8 DEF LockInv
<1>2. ASSUME NEW t \in Thread, Step(t) PROVE ThreadsInv'
    <2>1. OpEffect(t) BY <1>2, StepOps
    <2>2. LockTypeOK' /\ LockInv' BY <1>2, <2>1, LockStep
    <2>3. RecordTypeOK' /\ JoinInv' BY <1>2, <2>1, RecordStep
    <2>4. SleeperMissesNoSignal' BY <1>2, <2>1, WakeStep
    <2>5. /\ wait' \in [Thread -> {"running", "waiting", "woken"}]
          /\ now' \in Nat /\ once' \in {0, 1, 2} /\ word' \in {0, 1}
        BY <1>2, RestStep
    <2>6. ThreadTypeOK' BY <2>1, <2>2, <2>3, <2>5 DEF ThreadTypeOK, RecordTypeOK, OpEffect
    <2>. QED BY <2>2, <2>3, <2>4, <2>6
<1>. QED BY <1>1, <1>2, StepSplit

LEMMA ThreadsInvariance == ThreadsSpec => []ThreadsInv
<1>. QED BY ThreadsInvInit, ThreadsInvStep, PTL DEF ThreadsSpec

(* The locks exclude, for any programs: the mutex belongs to the cothread   *)
(* that believes it does, at most one holds the spinlock, and a writer is   *)
(* alone, because the rwlock counts exactly its readers                     *)
(* (runtime_pthread_locks.c:27, :155, :173).                                *)
THEOREM MutualExclusion == ThreadsSpec => []LocksExclude
<1>1. ThreadsInv => LocksExclude
    <2>. SUFFICES ASSUME LockInv PROVE LocksExclude BY DEF ThreadsInv
    <2>1. \A t \in Thread : "mutex" \in holds[t] <=> mutex.owner = t BY DEF LockInv, MutexHeld
    <2>2. ASSUME NEW t \in Thread, NEW u \in Thread, t # u
          PROVE  ~("spin" \in holds[t] /\ "spin" \in holds[u])
        BY <2>2 DEF LockInv, SpinHeld
    <2>3. ASSUME NEW t \in Thread, NEW u \in Thread, t # u, "write" \in holds[t]
          PROVE  holds[u] \cap {"read", "write"} = {}
        <3>1. Readers = {} /\ rw.writer = t BY <2>3 DEF LockInv, RwHeld
        <3>2. "read" \notin holds[u] BY <3>1 DEF Readers
        <3>3. "write" \notin holds[u] BY <2>3, <3>1 DEF LockInv, RwHeld
        <3>. QED BY <3>2, <3>3
    <2>. QED BY <2>1, <2>2, <2>3 DEF LocksExclude
<1>. QED BY <1>1, ThreadsInvariance, PTL

(* A cothread that joins finds its record used, not detached and joined by  *)
(* nobody else, however create, exit, detach and other joins interleave     *)
(* with its wait (runtime_pthread.c:164, :183).                             *)
THEOREM JoinSafe == ThreadsSpec => []JoinerKeepsRecord
<1>1. ThreadsInv => JoinerKeepsRecord
    BY DEF ThreadsInv, JoinInv, JoinerKeepsRecord
<1>. QED BY <1>1, ThreadsInvariance, PTL

(* No lost wakeup: a cothread asleep in a condition wait, on the futex, in  *)
(* pthread_once or in a join has nothing to wake for, or its waker has yet  *)
(* to pulse (runtime_pthread_cond.c:75, :107, runtime_sys_sync.c:76).       *)
THEOREM NoLostSignal == ThreadsSpec => []SleeperMissesNoSignal
<1>1. ThreadsInv => SleeperMissesNoSignal BY DEF ThreadsInv
<1>. QED BY <1>1, ThreadsInvariance, PTL

(* A condition wait returns only with the mutex, on every way out: the      *)
(* level it gave up keeps a recursive mutex from refusing it, and a mutex   *)
(* of another type is not its own while it waits. It times out only         *)
(* unsignalled and past its deadline (runtime_pthread_cond.c:105-120).      *)
THEOREM WaitContract == ThreadsSpec => CondWaitContract
<1>1. ThreadsInit => DepthInv
    <2>. SUFFICES ASSUME ThreadsInit PROVE DepthInv OBVIOUS
    <2>1. mutex.owner = NoThread /\ mutex.depth = 0 BY DEF ThreadsInit, FreeMutex
    <2>. QED BY <2>1, ConstantFacts DEF DepthInv
<1>2. ThreadsInv /\ DepthInv /\ [ThreadsNext]_threadVars =>
          DepthInv' /\ \A u \in Thread : CondWaitKept(u)
    <2>. SUFFICES ASSUME ThreadsInv, DepthInv, [ThreadsNext]_threadVars
                  PROVE  DepthInv' /\ \A u \in Thread : CondWaitKept(u)
        OBVIOUS
    <2>. ThreadTypeOK BY DEF ThreadsInv
    <2>1. CASE RootStep \/ UNCHANGED threadVars
        <3>1. UNCHANGED <<program, op, mutex>>
            BY <2>1 DEF RootStep, threadVars, lockVars
        <3>. QED BY <3>1 DEF DepthInv, CondWaitKept
    <2>2. ASSUME NEW t \in Thread, Step(t)
          PROVE  DepthInv' /\ \A u \in Thread : CondWaitKept(u)
        <3>1. OpEffect(t) /\ MutexEffect(t) BY <2>2, StepOps, MutexEffects
        <3>. QED BY <2>2, <3>1, DepthStep, ContractStep
    <2>. QED BY <2>1, <2>2, StepSplit
<1>3. (\A u \in Thread : CondWaitKept(u)) =>
          \A t \in Thread :
              /\ op[t].name \in InCondWait /\ op'[t].name \notin InCondWait => mutex'.owner = t
              /\ op'[t].name = "relock" /\ op'[t] # op[t] /\ op'[t].answer = "ETIMEDOUT" =>
                    op[t].name = "timed" /\ ~op[t].signalled /\ op[t].deadline <= now
    BY DEF CondWaitKept
<1>. QED BY <1>1, <1>2, <1>3, ThreadsInvariance, PTL DEF ThreadsSpec, CondWaitContract
=============================================================================
