------------------------------ MODULE PollProofs ------------------------------
(***************************************************************************)
(* For any number of cothreads, descriptors, pipes and epoll instances. The *)
(* idle wait first: no pulse is stranded, and the semaphore with its        *)
(* cascade implements the broadcast. Then the poll calls over it: the ends  *)
(* of the pipes stay with their descriptors, no sleeper misses a byte, and  *)
(* a registration describes the descriptor it was made for.                 *)
(***************************************************************************)
EXTENDS Poll, FiniteSetTheorems, WellFoundedInduction, TLAPS

(* A cothread that runs has no wait the counter could have passed.          *)
OnlyWaitersMoved == \A t \in Thread : moved[t] => at[t] # "running"

IdleInv == IdleTypeOK /\ OnlyWaitersMoved /\ QueueIsOrdered /\ NoPulseStranded

LEMMA InitInv == IdleInit => IdleInv
  <1> SUFFICES ASSUME IdleInit PROVE IdleInv
    OBVIOUS
  <1>1. IdleTypeOK
    BY DEF IdleInit, IdleTypeOK
  <1>2. OnlyWaitersMoved /\ NoPulseStranded
    BY DEF IdleInit, OnlyWaitersMoved, NoPulseStranded
  <1>3. QueueIsOrdered
    BY DEF IdleInit, QueueIsOrdered
  <1> QED  BY <1>1, <1>2, <1>3 DEF IdleInv

(* Parking: the queue grows by a waiter no pulse has reached.               *)
LEMMA ParkInv ==
    ASSUME IdleInv, NEW t \in Thread, at[t] # "parked", SemaphoreWait(t),
           moved' = [moved EXCEPT ![t] = FALSE],
           at[t] = "resumed" => ~moved[t]
    PROVE  IdleInv'
  <1> USE DEF IdleInv
  <1>0. sem' = [set |-> FALSE, queue |-> Append(sem.queue, t)]
        /\ at' = [at EXCEPT ![t] = "parked"]
    BY DEF SemaphoreWait
  <1>1. IdleTypeOK'
    BY <1>0 DEF IdleTypeOK
  <1>2. OnlyWaitersMoved'
    BY <1>0 DEF OnlyWaitersMoved, IdleTypeOK
  <1>q. /\ sem.queue \in Seq(Thread)
        /\ sem'.queue = Append(sem.queue, t)
        /\ Len(sem'.queue) = Len(sem.queue) + 1
        /\ DOMAIN sem.queue = 1 .. Len(sem.queue)
        /\ DOMAIN sem'.queue = 1 .. Len(sem.queue) + 1
        /\ \A i \in DOMAIN sem.queue : sem'.queue[i] = sem.queue[i] /\ sem.queue[i] \in Thread
        /\ sem'.queue[Len(sem.queue) + 1] = t
        /\ \A i \in DOMAIN sem.queue : sem.queue[i] # t
    BY <1>0 DEF IdleTypeOK, QueueIsOrdered
  <1>m. /\ \A u \in Thread : u # t => moved'[u] = moved[u] /\ at'[u] = at[u]
        /\ moved'[t] = FALSE /\ at'[t] = "parked"
    BY <1>0 DEF IdleTypeOK
  <1>3. QueueIsOrdered'
    <2>1. \A i \in DOMAIN sem'.queue : at'[sem'.queue[i]] = "parked"
      BY <1>q, <1>m DEF QueueIsOrdered
    <2>2. \A u \in Thread : at'[u] = "parked" => \E i \in DOMAIN sem'.queue : sem'.queue[i] = u
      BY <1>q, <1>m DEF QueueIsOrdered
    <2>3. \A i, j \in DOMAIN sem'.queue : sem'.queue[i] = sem'.queue[j] => i = j
      BY <1>q DEF QueueIsOrdered
    <2>4. \A i, j \in DOMAIN sem'.queue :
             i < j /\ moved'[sem'.queue[j]] => moved'[sem'.queue[i]]
      BY <1>q, <1>m DEF QueueIsOrdered
    <2>5. sem'.set = FALSE
      BY <1>0
    <2> QED  BY <2>1, <2>2, <2>3, <2>4, <2>5 DEF QueueIsOrdered
  <1>4. NoPulseStranded'
    BY <1>m DEF NoPulseStranded
  <1> QED  BY <1>1, <1>2, <1>3, <1>4

(* What a signal on a non-empty queue does: the head h leaves it.           *)
LEMMA HeadLeaves ==
    ASSUME IdleTypeOK, QueueIsOrdered, sem.queue # <<>>
    PROVE  /\ Head(sem.queue) \in Thread
           /\ Head(sem.queue) = sem.queue[1]
           /\ at[Head(sem.queue)] = "parked"
           /\ Tail(sem.queue) \in Seq(Thread)
           /\ DOMAIN sem.queue = 1 .. Len(sem.queue) /\ Len(sem.queue) \in Nat
           /\ 1 \in DOMAIN sem.queue
           /\ DOMAIN Tail(sem.queue) = 1 .. Len(sem.queue) - 1
           /\ \A i \in DOMAIN Tail(sem.queue) :
                 /\ i + 1 \in DOMAIN sem.queue
                 /\ Tail(sem.queue)[i] = sem.queue[i + 1]
           /\ \A i \in DOMAIN sem.queue : i # 1 =>
                 /\ i - 1 \in DOMAIN Tail(sem.queue)
                 /\ Tail(sem.queue)[i - 1] = sem.queue[i]
  <1> DEFINE q == sem.queue
  <1>1. q \in Seq(Thread) /\ q # <<>> /\ Len(q) \in Nat /\ Len(q) >= 1 /\ DOMAIN q = 1 .. Len(q)
    BY DEF IdleTypeOK
  <1>2. Head(q) = q[1] /\ 1 \in DOMAIN q /\ q[1] \in Thread
    BY <1>1
  <1>3. Tail(q) \in Seq(Thread) /\ Len(Tail(q)) = Len(q) - 1 /\ DOMAIN Tail(q) = 1 .. Len(q) - 1
    BY <1>1
  <1>4. \A i \in 1 .. Len(q) - 1 : Tail(q)[i] = q[i + 1]
    BY <1>1, <1>3
  <1>5. at[q[1]] = "parked"
    BY <1>2 DEF QueueIsOrdered
  <1> HIDE DEF q
  <1>6. \A i \in DOMAIN Tail(q) : i + 1 \in DOMAIN q /\ Tail(q)[i] = q[i + 1]
    BY <1>1, <1>3, <1>4
  <1>7. \A i \in DOMAIN q : i # 1 => i - 1 \in DOMAIN Tail(q) /\ Tail(q)[i - 1] = q[i]
    BY <1>1, <1>3, <1>4
  <1> QED  BY <1>1, <1>2, <1>3, <1>5, <1>6, <1>7 DEF q

(* The cascade: t was reached, returns, and passes the signal on.           *)
LEMMA ReturnInv ==
    ASSUME IdleInv, NEW t \in Thread, at[t] = "resumed", moved[t], Resume(t)
    PROVE  IdleInv'
  <1> USE DEF IdleInv
  <1>m. moved' = [moved EXCEPT ![t] = FALSE]
    BY DEF Resume
  <1>1. CASE sem.queue = <<>>
    <2>0. at' = [at EXCEPT ![t] = "running"] /\ sem' = sem
      BY <1>1 DEF Resume
    <2>1. IdleTypeOK'
      BY <1>m, <2>0 DEF IdleTypeOK
    <2>2. OnlyWaitersMoved' /\ QueueIsOrdered'
      BY <1>1, <1>m, <2>0 DEF OnlyWaitersMoved, QueueIsOrdered, IdleTypeOK
    <2>3. NoPulseStranded'
      BY <1>1, <1>m, <2>0 DEF NoPulseStranded, QueueIsOrdered, IdleTypeOK
    <2> QED  BY <2>1, <2>2, <2>3
  <1>2. CASE sem.queue # <<>>
    <2> DEFINE h == Head(sem.queue)
    <2>0. /\ sem' = [sem EXCEPT !.queue = Tail(@)]
          /\ at' = [[at EXCEPT ![t] = "running"] EXCEPT ![h] = "resumed"]
      BY <1>2 DEF Resume, SemaphoreSignal
    <2>h. /\ h \in Thread /\ h = sem.queue[1] /\ at[h] = "parked" /\ h # t
          /\ sem'.queue = Tail(sem.queue) /\ sem'.queue \in Seq(Thread)
          /\ sem'.set = sem.set /\ sem.set = FALSE
      BY <1>2, <2>0, HeadLeaves DEF IdleTypeOK, QueueIsOrdered
    <2>a. /\ at'[h] = "resumed" /\ at'[t] = "running" /\ moved'[t] = FALSE
          /\ \A u \in Thread : u # t => moved'[u] = moved[u]
          /\ \A u \in Thread : u # t /\ u # h => at'[u] = at[u]
      BY <1>m, <2>0, <2>h DEF IdleTypeOK
    <2>t. \A i \in DOMAIN sem.queue : sem.queue[i] # t
      BY DEF QueueIsOrdered
    <2> HIDE DEF h
    <2>1. IdleTypeOK'
      BY <1>m, <2>0, <2>h DEF IdleTypeOK
    <2>2. OnlyWaitersMoved'
      BY <2>a DEF OnlyWaitersMoved
    <2>3. QueueIsOrdered'
      <3>d. \A i \in DOMAIN sem'.queue :
               /\ i \in Int
               /\ i + 1 \in DOMAIN sem.queue /\ i + 1 # 1
               /\ sem'.queue[i] = sem.queue[i + 1] /\ sem'.queue[i] # h /\ sem'.queue[i] # t
               /\ sem'.queue[i] \in Thread
        BY <1>2, <2>h, <2>t, HeadLeaves DEF QueueIsOrdered
      <3>1. \A i \in DOMAIN sem'.queue : at'[sem'.queue[i]] = "parked"
        BY <3>d, <2>a DEF QueueIsOrdered
      <3>2. \A u \in Thread : at'[u] = "parked" => \E i \in DOMAIN sem'.queue : sem'.queue[i] = u
        <4> SUFFICES ASSUME NEW u \in Thread, at'[u] = "parked"
                     PROVE  \E i \in DOMAIN sem'.queue : sem'.queue[i] = u
          OBVIOUS
        <4>1. u # t /\ u # h /\ at[u] = "parked"
          BY <2>a
        <4>2. PICK j \in DOMAIN sem.queue : sem.queue[j] = u
          BY <4>1 DEF QueueIsOrdered
        <4>3. j # 1
          BY <4>1, <4>2, <2>h
        <4>4. j - 1 \in DOMAIN Tail(sem.queue) /\ Tail(sem.queue)[j - 1] = sem.queue[j]
          BY <1>2, <4>2, <4>3, HeadLeaves
        <4> QED  BY <4>2, <4>4, <2>h
      <3>3. \A i, j \in DOMAIN sem'.queue : sem'.queue[i] = sem'.queue[j] => i = j
        <4> SUFFICES ASSUME NEW i \in DOMAIN sem'.queue, NEW j \in DOMAIN sem'.queue,
                            sem'.queue[i] = sem'.queue[j]
                     PROVE  i = j
          OBVIOUS
        <4>1. i + 1 = j + 1
          BY <3>d DEF QueueIsOrdered
        <4> QED  BY <4>1, <3>d
      <3>4. \A i, j \in DOMAIN sem'.queue :
               i < j /\ moved'[sem'.queue[j]] => moved'[sem'.queue[i]]
        <4> SUFFICES ASSUME NEW i \in DOMAIN sem'.queue, NEW j \in DOMAIN sem'.queue,
                            i < j, moved'[sem'.queue[j]]
                     PROVE  moved'[sem'.queue[i]]
          OBVIOUS
        <4>1. i + 1 < j + 1
          BY <3>d
        <4>2. moved[sem.queue[j + 1]]
          BY <3>d, <2>a
        <4>3. moved[sem.queue[i + 1]]
          BY <4>1, <4>2, <3>d DEF QueueIsOrdered
        <4> QED  BY <4>3, <3>d, <2>a
      <3> QED  BY <3>1, <3>2, <3>3, <3>4, <2>h DEF QueueIsOrdered
    <2>4. NoPulseStranded'
      <3> SUFFICES ASSUME NEW u \in Thread, at'[u] = "parked", moved'[u]
                   PROVE  \E v \in Thread : at'[v] = "resumed" /\ moved'[v]
        BY DEF NoPulseStranded
      <3>1. u # t /\ u # h /\ at[u] = "parked" /\ moved[u]
        BY <2>a
      <3>2. PICK j \in DOMAIN sem.queue : sem.queue[j] = u
        BY <3>1 DEF QueueIsOrdered
      <3>3. 1 < j /\ 1 \in DOMAIN sem.queue
        BY <1>2, <3>1, <3>2, <2>h, HeadLeaves
      <3>4. moved[h]
        BY <3>1, <3>2, <3>3, <2>h DEF QueueIsOrdered
      <3> QED  BY <3>4, <2>a, <2>h
    <2> QED  BY <2>1, <2>2, <2>3, <2>4
  <1> QED  BY <1>1, <1>2

(* A wake reaches all; the head carries the signal for those behind it.     *)
LEMMA WakeInv ==
    ASSUME IdleInv, thread_io_wake
    PROVE  IdleInv'
  <1> USE DEF IdleInv
  <1>m. moved' = [u \in Thread |-> at[u] # "running"]
    BY DEF thread_io_wake
  <1>1. CASE sem.queue = <<>>
    <2>0. at' = at /\ sem' = [sem EXCEPT !.set = TRUE]
      BY <1>1 DEF thread_io_wake, SemaphoreSignal
    <2>1. IdleTypeOK'
      BY <1>m, <2>0 DEF IdleTypeOK
    <2>2. OnlyWaitersMoved'
      BY <1>m, <2>0 DEF OnlyWaitersMoved
    <2>n. \A u \in Thread : at[u] # "parked"
      BY <1>1 DEF QueueIsOrdered
    <2>q. sem'.queue = <<>>
      BY <1>1, <2>0 DEF IdleTypeOK
    <2>3. QueueIsOrdered'
      BY <2>q, <2>n, <2>0 DEF QueueIsOrdered
    <2>4. NoPulseStranded'
      BY <2>0, <2>n DEF NoPulseStranded
    <2> QED  BY <2>1, <2>2, <2>3, <2>4
  <1>2. CASE sem.queue # <<>>
    <2> DEFINE h == Head(sem.queue)
    <2>0. /\ sem' = [sem EXCEPT !.queue = Tail(@)]
          /\ at' = [at EXCEPT ![h] = "resumed"]
      BY <1>2 DEF thread_io_wake, SemaphoreSignal
    <2>h. /\ h \in Thread /\ h = sem.queue[1] /\ at[h] = "parked"
          /\ sem'.queue = Tail(sem.queue) /\ sem'.queue \in Seq(Thread)
          /\ sem'.set = sem.set /\ sem.set = FALSE
      BY <1>2, <2>0, HeadLeaves DEF IdleTypeOK, QueueIsOrdered
    <2>a. /\ at'[h] = "resumed" /\ moved'[h] = TRUE
          /\ \A u \in Thread : moved'[u] = (at[u] # "running")
          /\ \A u \in Thread : u # h => at'[u] = at[u]
      BY <1>m, <2>0, <2>h DEF IdleTypeOK
    <2> HIDE DEF h
    <2>1. IdleTypeOK'
      BY <1>m, <2>0, <2>h DEF IdleTypeOK
    <2>2. OnlyWaitersMoved'
      BY <2>a DEF OnlyWaitersMoved
    <2>3. QueueIsOrdered'
      <3>d. \A i \in DOMAIN sem'.queue :
               /\ i \in Int
               /\ i + 1 \in DOMAIN sem.queue /\ i + 1 # 1
               /\ sem'.queue[i] = sem.queue[i + 1] /\ sem'.queue[i] # h
               /\ sem'.queue[i] \in Thread
        BY <1>2, <2>h, HeadLeaves DEF QueueIsOrdered
      <3>1. \A i \in DOMAIN sem'.queue : at'[sem'.queue[i]] = "parked" /\ at[sem'.queue[i]] = "parked"
        BY <3>d, <2>a DEF QueueIsOrdered
      <3>2. \A u \in Thread : at'[u] = "parked" => \E i \in DOMAIN sem'.queue : sem'.queue[i] = u
        <4> SUFFICES ASSUME NEW u \in Thread, at'[u] = "parked"
                     PROVE  \E i \in DOMAIN sem'.queue : sem'.queue[i] = u
          OBVIOUS
        <4>1. u # h /\ at[u] = "parked"
          BY <2>a
        <4>2. PICK j \in DOMAIN sem.queue : sem.queue[j] = u
          BY <4>1 DEF QueueIsOrdered
        <4>3. j # 1
          BY <4>1, <4>2, <2>h
        <4>4. j - 1 \in DOMAIN Tail(sem.queue) /\ Tail(sem.queue)[j - 1] = sem.queue[j]
          BY <1>2, <4>2, <4>3, HeadLeaves
        <4> QED  BY <4>2, <4>4, <2>h
      <3>3. \A i, j \in DOMAIN sem'.queue : sem'.queue[i] = sem'.queue[j] => i = j
        <4> SUFFICES ASSUME NEW i \in DOMAIN sem'.queue, NEW j \in DOMAIN sem'.queue,
                            sem'.queue[i] = sem'.queue[j]
                     PROVE  i = j
          OBVIOUS
        <4>1. i + 1 = j + 1
          BY <3>d DEF QueueIsOrdered
        <4> QED  BY <4>1, <3>d
      <3>4. \A i \in DOMAIN sem'.queue : moved'[sem'.queue[i]]
        BY <3>1, <3>d, <2>a
      <3> QED  BY <3>1, <3>2, <3>3, <3>4, <2>h DEF QueueIsOrdered
    <2>4. NoPulseStranded'
      BY <2>a, <2>h DEF NoPulseStranded
    <2> QED  BY <2>1, <2>2, <2>3, <2>4
  <1> QED  BY <1>1, <1>2

LEMMA StepInv == IdleInv /\ [IdleNext]_waitVars => IdleInv'
  <1> SUFFICES ASSUME IdleInv, [IdleNext]_waitVars PROVE IdleInv'
    OBVIOUS
  <1>1. CASE thread_io_wake
    BY <1>1, WakeInv
  <1>2. ASSUME NEW t \in Thread, thread_io_wait(t) PROVE IdleInv'
    BY <1>2, ParkInv DEF thread_io_wait
  <1>3. ASSUME NEW t \in Thread, Resume(t) PROVE IdleInv'
    <2>1. CASE moved[t]
      BY <1>3, <2>1, ReturnInv DEF Resume
    <2>2. CASE ~moved[t]
      BY <1>3, <2>2, ParkInv DEF Resume
    <2> QED  BY <2>1, <2>2
  <1>4. CASE UNCHANGED waitVars
    BY <1>4 DEF waitVars, IdleInv, IdleTypeOK, OnlyWaitersMoved, QueueIsOrdered, NoPulseStranded
  <1> QED  BY <1>1, <1>2, <1>3, <1>4 DEF IdleNext

LEMMA Invariance == IdleSpec => []IdleInv
  <1>1. IdleInit => IdleInv
    BY InitInv
  <1>2. IdleInv /\ [IdleNext]_waitVars => IdleInv'
    BY StepInv
  <1> QED  BY <1>1, <1>2, PTL DEF IdleSpec

(* A cothread that a pulse was sent to is never left in the queue without   *)
(* another that is about to pass it on (runtime_wait.c:56).                 *)
THEOREM NoneStranded == IdleSpec => []NoPulseStranded
  <1>1. IdleInv => NoPulseStranded
    BY DEF IdleInv
  <1> QED  BY <1>1, Invariance, PTL

(* Every step of the semaphore is a step of the broadcast, or none.         *)
LEMMA StepRefines ==
    IdleInv /\ [IdleNext]_waitVars => [Broadcast!BroadcastNext]_WaitState
  <1> SUFFICES ASSUME IdleInv, [IdleNext]_waitVars
               PROVE  Broadcast!BroadcastNext \/ WaitState' = WaitState
    OBVIOUS
  <1> USE DEF IdleInv
  <1>t. /\ \A t \in Thread : at[t] \in {"running", "parked", "resumed"}
        /\ \A t \in Thread : at[t] = "running" => ~moved[t]
    BY DEF IdleTypeOK, OnlyWaitersMoved
  <1>s. IdleTypeOK'
    BY StepInv
  <1>1. CASE thread_io_wake
    <2>1. \A t \in Thread : moved'[t] = (at[t] # "running") /\ (at'[t] = "running" <=> at[t] = "running")
      BY <1>1, HeadLeaves DEF thread_io_wake, SemaphoreSignal, IdleTypeOK
    <2>2. WaitState' = [t \in Thread |-> IF WaitState[t] = "waiting" THEN "woken" ELSE WaitState[t]]
      BY <2>1 DEF WaitState
    <2> QED  BY <2>2 DEF Broadcast!BroadcastNext, Broadcast!Pulse, Broadcast!Pulsed
  <1>2. ASSUME NEW t \in Thread, thread_io_wait(t)
        PROVE  Broadcast!BroadcastNext
    <2>1. /\ at[t] = "running" /\ at'[t] = "parked" /\ ~moved'[t]
          /\ \A u \in Thread : u # t => at'[u] = at[u] /\ moved'[u] = moved[u]
      BY <1>2 DEF thread_io_wait, SemaphoreWait, IdleTypeOK
    <2>2. WaitState[t] = "running" /\ WaitState' = [WaitState EXCEPT ![t] = "waiting"]
      BY <2>1 DEF WaitState
    <2> QED  BY <2>2 DEF Broadcast!BroadcastNext, Broadcast!Wait
  <1>3. ASSUME NEW t \in Thread, Resume(t)
        PROVE  Broadcast!BroadcastNext \/ WaitState' = WaitState
    <2>1. CASE ~moved[t]
      <3>1. /\ at[t] = "resumed" /\ at'[t] = "parked" /\ moved'[t] = moved[t]
            /\ \A u \in Thread : u # t => at'[u] = at[u] /\ moved'[u] = moved[u]
        BY <1>3, <2>1 DEF Resume, SemaphoreWait, IdleTypeOK
      <3>2. WaitState' = WaitState
        BY <3>1 DEF WaitState
      <3> QED  BY <3>2
    <2>2. CASE moved[t]
      <3>1. /\ at[t] = "resumed" /\ at'[t] = "running"
            /\ \A u \in Thread : u # t =>
                  moved'[u] = moved[u] /\ (at'[u] = "running" <=> at[u] = "running")
        <4>1. CASE sem.queue = <<>>
          BY <1>3, <2>2, <4>1 DEF Resume, IdleTypeOK
        <4>2. CASE sem.queue # <<>>
          BY <1>3, <2>2, <4>2, HeadLeaves DEF Resume, SemaphoreSignal, IdleTypeOK
        <4> QED  BY <4>1, <4>2
      <3>2. WaitState[t] = "woken" /\ WaitState' = [WaitState EXCEPT ![t] = "running"]
        BY <2>2, <3>1 DEF WaitState
      <3> QED  BY <3>2 DEF Broadcast!BroadcastNext, Broadcast!Return
    <2> QED  BY <2>1, <2>2
  <1>4. CASE UNCHANGED waitVars
    BY <1>4 DEF waitVars, WaitState
  <1> QED  BY <1>1, <1>2, <1>3, <1>4 DEF IdleNext

(* One semaphore signal per notification, cascaded by whoever it resumes,   *)
(* is a broadcast to all that wait (runtime_wait.c:4-7).                    *)
THEOREM IdleWaitIsBroadcast == IdleSpec => Broadcast!BroadcastSafety
  <1>1. IdleInit => Broadcast!BroadcastInit
    BY DEF IdleInit, WaitState, Broadcast!BroadcastInit
  <1>2. IdleInv /\ [IdleNext]_waitVars => [Broadcast!BroadcastNext]_WaitState
    BY StepRefines
  <1> QED  BY <1>1, <1>2, Invariance, PTL DEF IdleSpec, Broadcast!BroadcastSafety

-----------------------------------------------------------------------------
(* A set of numbers has a least one.                                        *)
LEMMA MinFacts ==
    ASSUME NEW S \in SUBSET Nat, S # {}
    PROVE  Min(S) \in S /\ \A y \in S : Min(S) <= y
  <1>1. \E x \in S : \A y \in S : ~(<<y, x>> \in OpToRel(<, Nat))
    BY NatLessThanWellFounded, WFMin, Zenon
  <1>2. PICK x \in S : \A y \in S : ~(<<y, x>> \in OpToRel(<, Nat))
    BY <1>1
  <1>3. \A y \in S : x <= y
    <2> SUFFICES ASSUME NEW y \in S, y < x PROVE FALSE
      OBVIOUS
    <2>1. <<y, x>> \in Nat \X Nat
      OBVIOUS
    <2>2. <<y, x>> \in OpToRel(<, Nat)
      BY <2>1 DEF OpToRel
    <2> QED  BY <1>2, <2>2
  <1> QED  BY <1>3, Zenon DEF Min

(***************************************************************************)
(* The poll calls: the types and the inductive invariant.                   *)
(***************************************************************************)
Kinds == {"free", "pipe_r", "pipe_w", "sock", "epoll"}
FdType == [kind : Kinds, nonblock : BOOLEAN, handle : SockHandle \cup {NoHandle}]
PipeType == [state : {"free", "empty", "readable"}, read_open : BOOLEAN, write_open : BOOLEAN,
             read_fd : Fd \cup {NoFd}, write_fd : Fd \cup {NoFd}, pending : Nat]
EntryType == [fd : Fd, events : {{"in"}}, oneshot : BOOLEAN, armed : BOOLEAN,
              is_sock : BOOLEAN, handle : SockHandle \cup {NoHandle}]
EpollType == [epfd : Fd \cup {NoFd}, table : SUBSET EntryType]
CallType == [name : {"none", "read", "ppoll", "pselect6"}, fd : Fd \cup {NoFd}]
            \cup [name : {"epoll"}, fd : EpollSlot]

PollTypeOK ==
    /\ fds \in [Fd -> FdType]
    /\ pipes \in [PipeSlot -> PipeType]
    /\ epolls \in [EpollSlot -> EpollType]
    /\ late \in [Thread -> SUBSET Fd]
    /\ call \in [Thread -> CallType]

(* A table never holds more entries than were put into it.                  *)
TablesFinite == \A i \in EpollSlot : IsFiniteSet(epolls[i].table)

(* The ends of the pipes and the pipe descriptors are the same things, and  *)
(* an empty pipe has nothing unread.                                        *)
EndsInv ==
    /\ \A i \in PipeSlot : pipes[i].state # "free" =>
          /\ pipes[i].read_open => pipes[i].read_fd \in Fd /\ fds[pipes[i].read_fd].kind = "pipe_r"
          /\ pipes[i].write_open => pipes[i].write_fd \in Fd /\ fds[pipes[i].write_fd].kind = "pipe_w"
    /\ \A f \in Fd : fds[f].kind = "pipe_r" => slot_of_read(f) # {}
    /\ \A f \in Fd : fds[f].kind = "pipe_w" => slot_of_write(f) # {}
    /\ \A f \in Fd : \A i, j \in slot_of_read(f) : i = j
    /\ \A f \in Fd : \A i, j \in slot_of_write(f) : i = j

EmptyInv == \A i \in PipeSlot : pipes[i].state = "empty" => pipes[i].pending = 0

PipeInv == PollTypeOK /\ TablesFinite /\ EndsInv /\ EmptyInv

-----------------------------------------------------------------------------
(* The pipes: what each kind of step does to their ends.                    *)
LEMMA FreshTypes ==
    /\ Closed \in FdType /\ FreePipe \in PipeType
    /\ \A nonblock \in BOOLEAN, k \in {"pipe_r", "pipe_w"} :
          [Closed EXCEPT !.kind = k, !.nonblock = nonblock] \in FdType
  BY DEF Closed, FreePipe, FdType, PipeType, Kinds

LEMMA InitPipes == PollInit => PipeInv
  <1> SUFFICES ASSUME PollInit PROVE PipeInv
    OBVIOUS
  <1>1. /\ fds = [f \in Fd |-> Closed] /\ pipes = [i \in PipeSlot |-> FreePipe]
        /\ epolls = [i \in EpollSlot |-> FreeEpoll] /\ late = [t \in Thread |-> {}]
        /\ call = [t \in Thread |-> NoCall]
    BY DEF PollInit
  <1>2. FreeEpoll \in EpollType /\ FreeEpoll.table = {}
    BY DEF FreeEpoll, EpollType
  <1>3. PollTypeOK
    BY <1>1, <1>2, FreshTypes DEF PollTypeOK, CallType, NoCall
  <1>4. TablesFinite
    BY <1>1, <1>2, FS_EmptySet DEF TablesFinite
  <1>5. EndsInv /\ EmptyInv
    BY <1>1 DEF EndsInv, EmptyInv, FreePipe, Closed, slot_of_read, slot_of_write
  <1> QED  BY <1>3, <1>4, <1>5 DEF PipeInv

(* Nothing becomes unread.                                                  *)
NoNewByte == \A f : Unread(f)' => Unread(f)

PipesKept ==
    /\ fds' \in [Fd -> FdType] /\ pipes' \in [PipeSlot -> PipeType]
    /\ EndsInv' /\ EmptyInv'

(* A new pipe: two free descriptors, a free slot, no byte.                  *)
LEMMA OpenKeeps ==
    ASSUME PipeInv, NEW a \in Fd, NEW b \in Fd, a # b, NEW k \in PipeSlot,
           fds[a].kind = "free", fds[b].kind = "free", pipes[k].state = "free",
           NEW nonblock \in BOOLEAN,
           fds' = [fds EXCEPT ![a] = [Closed EXCEPT !.kind = "pipe_r", !.nonblock = nonblock],
                              ![b] = [Closed EXCEPT !.kind = "pipe_w", !.nonblock = nonblock]],
           pipes' = [pipes EXCEPT ![k] = runtime_pipe_open(a, b)]
    PROVE  PipesKept /\ NoNewByte
  <1> DEFINE new == runtime_pipe_open(a, b)
  <1>t. fds \in [Fd -> FdType] /\ pipes \in [PipeSlot -> PipeType]
    BY DEF PipeInv, PollTypeOK
  <1>n. /\ new \in PipeType /\ new.state = "empty" /\ new.read_open /\ new.write_open
        /\ new.read_fd = a /\ new.write_fd = b /\ new.pending = 0
    BY DEF runtime_pipe_open, PipeType
  <1>1. fds' \in [Fd -> FdType] /\ pipes' \in [PipeSlot -> PipeType]
    BY <1>t, <1>n, FreshTypes
  <1>2. /\ fds'[a].kind = "pipe_r" /\ fds'[b].kind = "pipe_w"
        /\ \A f \in Fd : f # a /\ f # b => fds'[f] = fds[f]
    BY <1>t DEF Closed, FdType
  <1>3. pipes'[k] = new /\ \A i \in PipeSlot : i # k => pipes'[i] = pipes[i]
    BY <1>t
  <1> HIDE DEF new
  <1>4. \A f : slot_of_read(f)' = IF f = a THEN slot_of_read(f) \cup {k} ELSE slot_of_read(f)
    BY <1>3, <1>n DEF slot_of_read
  <1>5. \A f : slot_of_write(f)' = IF f = b THEN slot_of_write(f) \cup {k} ELSE slot_of_write(f)
    BY <1>3, <1>n DEF slot_of_write
  <1>6. /\ slot_of_read(a) = {} /\ slot_of_read(b) = {}
        /\ slot_of_write(a) = {} /\ slot_of_write(b) = {}
    BY DEF PipeInv, EndsInv, slot_of_read, slot_of_write
  <1>7. EndsInv'
    <2>1. ASSUME NEW i \in PipeSlot, pipes'[i].state # "free"
          PROVE  /\ pipes'[i].read_open => pipes'[i].read_fd \in Fd /\ fds'[pipes'[i].read_fd].kind = "pipe_r"
                 /\ pipes'[i].write_open => pipes'[i].write_fd \in Fd /\ fds'[pipes'[i].write_fd].kind = "pipe_w"
      <3>1. CASE i = k
        BY <1>2, <1>3, <1>n, <3>1
      <3>2. CASE i # k
        <4>1. pipes'[i] = pipes[i]
          BY <1>3, <3>2
        <4>2. /\ pipes[i].read_open => pipes[i].read_fd \in Fd /\ fds[pipes[i].read_fd].kind = "pipe_r"
              /\ pipes[i].write_open => pipes[i].write_fd \in Fd /\ fds[pipes[i].write_fd].kind = "pipe_w"
          BY <2>1, <4>1 DEF PipeInv, EndsInv
        <4> QED  BY <1>2, <4>1, <4>2
      <3> QED  BY <3>1, <3>2
    <2>2. /\ \A f \in Fd : fds'[f].kind = "pipe_r" => slot_of_read(f)' # {}
          /\ \A f \in Fd : fds'[f].kind = "pipe_w" => slot_of_write(f)' # {}
      BY <1>2, <1>4, <1>5 DEF PipeInv, EndsInv
    <2>3. /\ \A f \in Fd : \A i, j \in slot_of_read(f)' : i = j
          /\ \A f \in Fd : \A i, j \in slot_of_write(f)' : i = j
      BY <1>4, <1>5, <1>6 DEF PipeInv, EndsInv
    <2> QED  BY <2>1, <2>2, <2>3 DEF EndsInv
  <1>8. EmptyInv'
    BY <1>3, <1>n DEF PipeInv, EmptyInv
  <1>9. NoNewByte
    <2> SUFFICES ASSUME NEW f, NEW i \in slot_of_read(f)', pipes'[i].pending > 0
                 PROVE  \E j \in slot_of_read(f) : pipes[j].pending > 0
      BY DEF NoNewByte, Unread
    <2>1. i # k
      BY <1>3, <1>n
    <2>2. i \in slot_of_read(f) /\ i \in PipeSlot
      BY <1>4, <2>1 DEF slot_of_read
    <2> QED  BY <1>3, <2>1, <2>2
  <1> QED  BY <1>1, <1>7, <1>8, <1>9 DEF PipesKept

(* Another descriptor: the pipes are not concerned.                         *)
LEMMA AllocKeeps ==
    ASSUME PipeInv, NEW m \in Fd, fds[m].kind = "free", NEW e \in FdType,
           e.kind \in {"sock", "epoll"}, fds' = [fds EXCEPT ![m] = e], pipes' = pipes
    PROVE  PipesKept /\ NoNewByte
  <1>t. fds \in [Fd -> FdType] /\ pipes \in [PipeSlot -> PipeType]
    BY DEF PipeInv, PollTypeOK
  <1>1. fds' \in [Fd -> FdType] /\ fds'[m] = e /\ \A f \in Fd : f # m => fds'[f] = fds[f]
    BY <1>t
  <1>2. \A f : slot_of_read(f)' = slot_of_read(f) /\ slot_of_write(f)' = slot_of_write(f)
    BY DEF slot_of_read, slot_of_write
  <1>3. EndsInv'
    BY <1>1, <1>2 DEF PipeInv, EndsInv
  <1> QED  BY <1>t, <1>1, <1>2, <1>3 DEF PipesKept, PipeInv, EmptyInv, NoNewByte, Unread

(* close() of descriptor f shuts the end it was, and only that one.         *)
LEMMA CloseKeeps ==
    ASSUME PipeInv, NEW f \in Fd, fds' = [fds EXCEPT ![f] = Closed], runtime_pipe_close(f)
    PROVE  PipesKept /\ NoNewByte
  <1> DEFINE shut(i) == IF i \in slot_of_read(f) THEN [pipes[i] EXCEPT !.read_open = FALSE]
                        ELSE IF slot_of_read(f) = {} /\ i \in slot_of_write(f)
                        THEN [pipes[i] EXCEPT !.write_open = FALSE] ELSE pipes[i]
  <1>t. /\ fds \in [Fd -> FdType] /\ pipes \in [PipeSlot -> PipeType]
        /\ \A i \in PipeSlot : pipes[i] \in PipeType
    BY DEF PipeInv, PollTypeOK
  <1>p. pipes' = [i \in PipeSlot |-> IF shut(i).read_open \/ shut(i).write_open
                                     THEN shut(i) ELSE FreePipe]
    BY Zenon DEF runtime_pipe_close
  <1>x. slot_of_read(f) # {} => slot_of_write(f) = {}
    BY DEF PipeInv, EndsInv, slot_of_read, slot_of_write
  <1>s. ASSUME NEW i \in PipeSlot
        PROVE  /\ shut(i) \in PipeType /\ shut(i).state = pipes[i].state
               /\ shut(i).pending = pipes[i].pending
               /\ shut(i).read_fd = pipes[i].read_fd /\ shut(i).write_fd = pipes[i].write_fd
               /\ shut(i).read_open = (pipes[i].read_open /\ i \notin slot_of_read(f))
               /\ shut(i).write_open = (pipes[i].write_open /\ i \notin slot_of_write(f))
    <2>1. pipes[i] \in PipeType
      BY <1>t
    <2>2. CASE i \in slot_of_read(f)
      <3>1. shut(i) = [pipes[i] EXCEPT !.read_open = FALSE] /\ i \notin slot_of_write(f)
        BY <1>x, <2>2
      <3> QED  BY <2>1, <2>2, <3>1 DEF PipeType
    <2>3. CASE i \notin slot_of_read(f) /\ i \in slot_of_write(f)
      <3>1. shut(i) = [pipes[i] EXCEPT !.write_open = FALSE]
        BY <1>x, <2>3
      <3> QED  BY <2>1, <2>3, <3>1 DEF PipeType
    <2>4. CASE i \notin slot_of_read(f) /\ i \notin slot_of_write(f)
      BY <2>1, <2>4 DEF PipeType
    <2> QED  BY <2>2, <2>3, <2>4
  <1> HIDE DEF shut
  <1>1. fds' \in [Fd -> FdType] /\ pipes' \in [PipeSlot -> PipeType]
    BY <1>t, <1>p, <1>s, FreshTypes, Zenon
  <1>2. fds'[f].kind = "free" /\ \A g \in Fd : g # f => fds'[g] = fds[g]
    BY <1>t DEF Closed
  <1>3. ASSUME NEW i \in PipeSlot, pipes'[i].state # "free"
        PROVE  /\ pipes[i].state # "free" /\ pipes'[i] = shut(i)
    BY <1>p, <1>s, <1>3 DEF FreePipe
  <1>4. ASSUME NEW i \in PipeSlot, pipes[i].state # "free", shut(i).read_open \/ shut(i).write_open
        PROVE  pipes'[i] = shut(i) /\ pipes'[i].state # "free"
    BY <1>p, <1>s, <1>4
  <1>5. \A g : slot_of_read(g)' = IF g = f THEN {} ELSE slot_of_read(g)
    <2> SUFFICES ASSUME NEW g, NEW i \in PipeSlot
                 PROVE  i \in slot_of_read(g)' <=> g # f /\ i \in slot_of_read(g)
      BY DEF slot_of_read
    <2>1. ASSUME i \in slot_of_read(g)'
          PROVE  g # f /\ i \in slot_of_read(g)
      BY <1>3, <1>s, <2>1 DEF slot_of_read
    <2>2. ASSUME g # f, i \in slot_of_read(g)
          PROVE  i \in slot_of_read(g)'
      BY <1>4, <1>s, <2>2 DEF slot_of_read
    <2> QED  BY <2>1, <2>2
  <1>6. \A g : slot_of_write(g)' = IF g = f THEN {} ELSE slot_of_write(g)
    <2> SUFFICES ASSUME NEW g, NEW i \in PipeSlot
                 PROVE  i \in slot_of_write(g)' <=> g # f /\ i \in slot_of_write(g)
      BY DEF slot_of_write
    <2>1. ASSUME i \in slot_of_write(g)'
          PROVE  g # f /\ i \in slot_of_write(g)
      BY <1>3, <1>s, <2>1 DEF slot_of_write
    <2>2. ASSUME g # f, i \in slot_of_write(g)
          PROVE  i \in slot_of_write(g)'
      BY <1>4, <1>s, <2>2 DEF slot_of_write
    <2> QED  BY <2>1, <2>2
  <1>7. EndsInv'
    <2>1. ASSUME NEW i \in PipeSlot, pipes'[i].state # "free"
          PROVE  /\ pipes'[i].read_open => pipes'[i].read_fd \in Fd /\ fds'[pipes'[i].read_fd].kind = "pipe_r"
                 /\ pipes'[i].write_open => pipes'[i].write_fd \in Fd /\ fds'[pipes'[i].write_fd].kind = "pipe_w"
      <3>1. pipes'[i] = shut(i) /\ pipes[i].state # "free"
        BY <1>3, <2>1
      <3>2. pipes'[i].read_open => pipes[i].read_open /\ pipes[i].read_fd # f
        BY <1>s, <3>1 DEF slot_of_read
      <3>3. pipes'[i].write_open => pipes[i].write_open /\ pipes[i].write_fd # f
        BY <1>s, <3>1 DEF slot_of_write
      <3> QED  BY <1>2, <1>s, <3>1, <3>2, <3>3 DEF PipeInv, EndsInv
    <2>2. /\ \A g \in Fd : fds'[g].kind = "pipe_r" => slot_of_read(g)' # {}
          /\ \A g \in Fd : fds'[g].kind = "pipe_w" => slot_of_write(g)' # {}
      BY <1>2, <1>5, <1>6 DEF PipeInv, EndsInv
    <2>3. /\ \A g \in Fd : \A i, j \in slot_of_read(g)' : i = j
          /\ \A g \in Fd : \A i, j \in slot_of_write(g)' : i = j
      BY <1>5, <1>6 DEF PipeInv, EndsInv
    <2> QED  BY <2>1, <2>2, <2>3 DEF EndsInv
  <1>8. EmptyInv'
    BY <1>p, <1>s DEF PipeInv, EmptyInv, FreePipe
  <1>9. NoNewByte
    <2> SUFFICES ASSUME NEW g, NEW i \in slot_of_read(g)', pipes'[i].pending > 0
                 PROVE  \E j \in slot_of_read(g) : pipes[j].pending > 0
      BY DEF NoNewByte, Unread
    <2>1. i \in slot_of_read(g) /\ i \in PipeSlot /\ pipes'[i].state # "free"
      BY <1>5 DEF slot_of_read
    <2> QED  BY <1>3, <1>s, <2>1
  <1> QED  BY <1>1, <1>7, <1>8, <1>9 DEF PipesKept

(* A step that moves bytes leaves the ends alone.                           *)
LEMMA DataKeeps ==
    ASSUME PipeInv, fds' = fds, pipes' \in [PipeSlot -> PipeType],
           \A i \in PipeSlot :
              /\ pipes'[i].state = "free" <=> pipes[i].state = "free"
              /\ pipes'[i].read_open = pipes[i].read_open
              /\ pipes'[i].write_open = pipes[i].write_open
              /\ pipes'[i].read_fd = pipes[i].read_fd
              /\ pipes'[i].write_fd = pipes[i].write_fd
              /\ pipes'[i].state = "empty" => pipes'[i].pending = 0
    PROVE  /\ PipesKept
           /\ \A f : slot_of_read(f)' = slot_of_read(f)
  <1>1. \A f : slot_of_read(f)' = slot_of_read(f)
    <2> SUFFICES ASSUME NEW f, NEW i \in PipeSlot
                 PROVE  i \in slot_of_read(f)' <=> i \in slot_of_read(f)
      BY DEF slot_of_read
    <2> QED  BY DEF slot_of_read
  <1>2. \A f : slot_of_write(f)' = slot_of_write(f)
    <2> SUFFICES ASSUME NEW f, NEW i \in PipeSlot
                 PROVE  i \in slot_of_write(f)' <=> i \in slot_of_write(f)
      BY DEF slot_of_write
    <2> QED  BY DEF slot_of_write
  <1>3. \A i \in PipeSlot : pipes'[i].state # "free" =>
          /\ pipes'[i].read_open => pipes'[i].read_fd \in Fd /\ fds'[pipes'[i].read_fd].kind = "pipe_r"
          /\ pipes'[i].write_open => pipes'[i].write_fd \in Fd /\ fds'[pipes'[i].write_fd].kind = "pipe_w"
    <2> SUFFICES ASSUME NEW i \in PipeSlot, pipes'[i].state # "free"
                 PROVE  /\ pipes'[i].read_open => pipes'[i].read_fd \in Fd /\ fds'[pipes'[i].read_fd].kind = "pipe_r"
                        /\ pipes'[i].write_open => pipes'[i].write_fd \in Fd /\ fds'[pipes'[i].write_fd].kind = "pipe_w"
      OBVIOUS
    <2>1. pipes[i].state # "free"
      OBVIOUS
    <2> QED  BY <2>1 DEF PipeInv, EndsInv
  <1>4. EndsInv'
    BY <1>1, <1>2, <1>3 DEF PipeInv, EndsInv
  <1>5. EmptyInv' /\ fds' \in [Fd -> FdType]
    BY DEF PipeInv, EmptyInv, PollTypeOK
  <1> QED  BY <1>1, <1>4, <1>5 DEF PipesKept

LEMMA MinPair ==
    ASSUME NEW a \in Nat, NEW b \in Nat
    PROVE  Min({a, b}) \in {a, b} /\ Min({a, b}) <= a /\ Min({a, b}) <= b
  <1>1. {a, b} \in SUBSET Nat /\ {a, b} # {}
    OBVIOUS
  <1> QED  BY <1>1, MinFacts

LEMMA WriteKeeps ==
    ASSUME PipeInv, NEW f, NEW bytes \in Nat, runtime_pipe_write(f, bytes), fds' = fds
    PROVE  PipesKept
  <1> DEFINE n(i) == Min({pipes[i].pending + bytes, PipeCapacity})
  <1> DEFINE s(i) == IF n(i) # 0 THEN "readable" ELSE pipes[i].state
  <1>t. /\ pipes \in [PipeSlot -> PipeType]
        /\ \A i \in PipeSlot : pipes[i] \in PipeType
    BY DEF PipeInv, PollTypeOK
  <1>p. pipes' = [i \in PipeSlot |->
                    IF i \in slot_of_write(f) /\ pipes[i].read_open
                    THEN [pipes[i] EXCEPT !.pending = n(i), !.state = s(i)] ELSE pipes[i]]
    BY Zenon DEF runtime_pipe_write
  <1>1. ASSUME NEW i \in PipeSlot
        PROVE  /\ pipes'[i] \in PipeType
               /\ pipes'[i].state = "free" <=> pipes[i].state = "free"
               /\ pipes'[i].read_open = pipes[i].read_open
               /\ pipes'[i].write_open = pipes[i].write_open
               /\ pipes'[i].read_fd = pipes[i].read_fd
               /\ pipes'[i].write_fd = pipes[i].write_fd
               /\ pipes'[i].state = "empty" => pipes'[i].pending = 0
    <2>1. CASE i \in slot_of_write(f) /\ pipes[i].read_open
      <3>1. pipes[i].pending + bytes \in Nat /\ PipeCapacity \in Nat
        BY <1>t, PollAssumption DEF PipeType
      <3>2. n(i) \in Nat
        BY <3>1, MinPair
      <3> HIDE DEF n
      <3>3. /\ s(i) \in {"free", "empty", "readable"} /\ (s(i) = "empty" => n(i) = 0)
            /\ s(i) # "free" /\ pipes[i].state # "free"
        BY <1>t, <2>1 DEF PipeType, slot_of_write
      <3>4. pipes'[i] = [pipes[i] EXCEPT !.pending = n(i), !.state = s(i)]
        BY <1>p, <2>1, Zenon
      <3> HIDE DEF s
      <3>5. /\ pipes'[i] \in PipeType /\ pipes'[i].state = s(i) /\ pipes'[i].pending = n(i)
            /\ pipes'[i].read_open = pipes[i].read_open
            /\ pipes'[i].write_open = pipes[i].write_open
            /\ pipes'[i].read_fd = pipes[i].read_fd
            /\ pipes'[i].write_fd = pipes[i].write_fd
        BY <1>t, <3>2, <3>3, <3>4, Zenon DEF PipeType
      <3> QED  BY <3>3, <3>5
    <2>2. CASE ~(i \in slot_of_write(f) /\ pipes[i].read_open)
      <3>1. pipes'[i] = pipes[i]
        BY <1>p, <2>2, Zenon
      <3> QED  BY <1>t, <3>1 DEF PipeInv, EmptyInv
    <2> QED  BY <2>1, <2>2
  <1>2. pipes' \in [PipeSlot -> PipeType]
    BY <1>p, <1>1
  <1> QED  BY <1>1, <1>2, DataKeeps

LEMMA ReadKeeps ==
    ASSUME PipeInv, NEW f, NEW bytes \in Nat, runtime_pipe_read(f, bytes), fds' = fds
    PROVE  PipesKept /\ NoNewByte
  <1> DEFINE n(i) == pipes[i].pending - Min({bytes, pipes[i].pending})
  <1> DEFINE s(i) == IF n(i) = 0 THEN "empty" ELSE pipes[i].state
  <1>t. /\ pipes \in [PipeSlot -> PipeType]
        /\ \A i \in PipeSlot : pipes[i] \in PipeType
    BY DEF PipeInv, PollTypeOK
  <1>p. pipes' = [i \in PipeSlot |->
                    IF i \in slot_of_read(f) /\ pipes[i].state # "empty"
                    THEN [pipes[i] EXCEPT !.pending = n(i), !.state = s(i)] ELSE pipes[i]]
    BY Zenon DEF runtime_pipe_read
  <1>1. ASSUME NEW i \in PipeSlot
        PROVE  /\ pipes'[i] \in PipeType
               /\ pipes'[i].state = "free" <=> pipes[i].state = "free"
               /\ pipes'[i].read_open = pipes[i].read_open
               /\ pipes'[i].write_open = pipes[i].write_open
               /\ pipes'[i].read_fd = pipes[i].read_fd
               /\ pipes'[i].write_fd = pipes[i].write_fd
               /\ pipes'[i].state = "empty" => pipes'[i].pending = 0
               /\ pipes'[i].pending > 0 => pipes[i].pending > 0
    <2>1. CASE i \in slot_of_read(f) /\ pipes[i].state # "empty"
      <3>1. pipes[i].pending \in Nat
        BY <1>t DEF PipeType
      <3>2. n(i) \in Nat /\ n(i) <= pipes[i].pending
        BY <3>1, MinPair
      <3> HIDE DEF n
      <3>3. /\ s(i) \in {"free", "empty", "readable"} /\ (s(i) = "empty" => n(i) = 0)
            /\ s(i) # "free" /\ pipes[i].state # "free"
        BY <1>t, <2>1 DEF PipeType, slot_of_read
      <3>4. pipes'[i] = [pipes[i] EXCEPT !.pending = n(i), !.state = s(i)]
        BY <1>p, <2>1, Zenon
      <3> HIDE DEF s
      <3>5. /\ pipes'[i] \in PipeType /\ pipes'[i].state = s(i) /\ pipes'[i].pending = n(i)
            /\ pipes'[i].read_open = pipes[i].read_open
            /\ pipes'[i].write_open = pipes[i].write_open
            /\ pipes'[i].read_fd = pipes[i].read_fd
            /\ pipes'[i].write_fd = pipes[i].write_fd
        BY <1>t, <3>2, <3>3, <3>4, Zenon DEF PipeType
      <3>6. n(i) > 0 => pipes[i].pending > 0
        BY <3>1, <3>2
      <3> QED  BY <3>3, <3>5, <3>6
    <2>2. CASE ~(i \in slot_of_read(f) /\ pipes[i].state # "empty")
      <3>1. pipes'[i] = pipes[i]
        BY <1>p, <2>2, Zenon
      <3> QED  BY <1>t, <3>1 DEF PipeInv, EmptyInv
    <2> QED  BY <2>1, <2>2
  <1>2. pipes' \in [PipeSlot -> PipeType]
    BY <1>p, <1>1
  <1>3. PipesKept /\ \A g : slot_of_read(g)' = slot_of_read(g)
    BY <1>1, <1>2, DataKeeps
  <1>4. NoNewByte
    <2> SUFFICES ASSUME NEW g, NEW i \in slot_of_read(g)', pipes'[i].pending > 0
                 PROVE  \E j \in slot_of_read(g) : pipes[j].pending > 0
      BY DEF NoNewByte, Unread
    <2>1. i \in slot_of_read(g) /\ i \in PipeSlot
      BY <1>3 DEF slot_of_read
    <2> QED  BY <1>1, <2>1
  <1> QED  BY <1>3, <1>4

(* No step on pipes or descriptors.                                         *)
LEMMA SameKeeps ==
    ASSUME PipeInv, UNCHANGED <<fds, pipes>>
    PROVE  PipesKept /\ NoNewByte
  <1>1. \A f : slot_of_read(f)' = slot_of_read(f) /\ slot_of_write(f)' = slot_of_write(f)
    BY DEF slot_of_read, slot_of_write
  <1>2. EndsInv'
    BY <1>1 DEF PipeInv, EndsInv
  <1> QED  BY <1>1, <1>2 DEF PipeInv, PollTypeOK, PipesKept, EmptyInv, NoNewByte, Unread

-----------------------------------------------------------------------------
(* The invariant of the pipes, one step per call.                           *)
LEMMA FreeFdFacts ==
    ASSUME PipeInv
    PROVE  /\ FreeFds \subseteq Fd /\ IsFiniteSet(FreeFds)
           /\ FreeFds # {} => Min(FreeFds) \in Fd /\ fds[Min(FreeFds)].kind = "free"
           /\ Cardinality(FreeFds) >= 2 =>
                /\ Min(FreeFds) \in FreeFds
                /\ Min(FreeFds \ {Min(FreeFds)}) \in FreeFds \ {Min(FreeFds)}
  <1>1. FreeFds \in SUBSET Fd /\ FreeFds \in SUBSET Nat
    BY PollAssumption DEF FreeFds
  <1>2. IsFiniteSet(FreeFds)
    BY <1>1, PollAssumption, FS_Subset
  <1>3. FreeFds # {} => Min(FreeFds) \in FreeFds
    BY <1>1, MinFacts
  <1>4. ASSUME Cardinality(FreeFds) >= 2
        PROVE  /\ Min(FreeFds) \in FreeFds
               /\ Min(FreeFds \ {Min(FreeFds)}) \in FreeFds \ {Min(FreeFds)}
    <2> DEFINE m == Min(FreeFds)
    <2>1. FreeFds # {}
      BY <1>4, FS_EmptySet
    <2>2. m \in FreeFds
      BY <1>3, <2>1
    <2> HIDE DEF m
    <2>3. Cardinality(FreeFds \ {m}) = Cardinality(FreeFds) - 1 /\ IsFiniteSet(FreeFds \ {m})
      BY <1>2, <2>2, FS_RemoveElement
    <2>4. Cardinality(FreeFds) \in Nat
      BY <1>2, FS_CardinalityType
    <2>5. FreeFds \ {m} # {}
      BY <1>4, <2>3, <2>4, FS_EmptySet
    <2>6. FreeFds \ {m} \in SUBSET Nat
      BY <1>1
    <2>7. Min(FreeFds \ {m}) \in FreeFds \ {m}
      BY <2>5, <2>6, MinFacts
    <2> QED  BY <2>2, <2>7 DEF m
  <1> QED  BY <1>1, <1>2, <1>3, <1>4 DEF FreeFds

LEMMA OpenPipeKeeps ==
    ASSUME PipeInv, NEW nonblock \in BOOLEAN, runtime_sys_pipe2(nonblock)
    PROVE  PipesKept /\ NoNewByte
  <1> DEFINE first == Min(FreeFds)
  <1> DEFINE second == Min(FreeFds \ {first})
  <1> DEFINE free == {i \in PipeSlot : pipes[i].state = "free"}
  <1>0. IsFiniteSet(FreeFds) /\ Cardinality(FreeFds) \in Nat
    BY FreeFdFacts, FS_CardinalityType
  <1>1. CASE Cardinality(FreeFds) < 2 \/ free = {}
    <2>1. UNCHANGED <<fds, pipes>>
      BY <1>1, Zenon DEF runtime_sys_pipe2
    <2> QED  BY <2>1, SameKeeps
  <1>2. CASE ~(Cardinality(FreeFds) < 2 \/ free = {})
    <2>0. Cardinality(FreeFds) >= 2 /\ free # {}
      BY <1>0, <1>2
    <2>1. /\ fds' = [fds EXCEPT
               ![first] = [Closed EXCEPT !.kind = "pipe_r", !.nonblock = nonblock],
               ![second] = [Closed EXCEPT !.kind = "pipe_w", !.nonblock = nonblock]]
          /\ pipes' = [pipes EXCEPT ![Min(free)] = runtime_pipe_open(first, second)]
      BY <1>2, Zenon DEF runtime_sys_pipe2
    <2>2. first \in FreeFds /\ second \in FreeFds /\ second # first
      BY <2>0, FreeFdFacts
    <2>3. free \in SUBSET Nat
      BY PollAssumption
    <2>4. Min(free) \in free
      BY <2>0, <2>3, MinFacts
    <2> DEFINE k == Min(free)
    <2>5. k \in PipeSlot /\ pipes[k].state = "free"
      BY <2>4
    <2> HIDE DEF first, second, k
    <2>6. /\ first \in Fd /\ second \in Fd
          /\ fds[first].kind = "free" /\ fds[second].kind = "free"
      BY <2>2 DEF FreeFds
    <2>7. /\ fds' = [fds EXCEPT
               ![first] = [Closed EXCEPT !.kind = "pipe_r", !.nonblock = nonblock],
               ![second] = [Closed EXCEPT !.kind = "pipe_w", !.nonblock = nonblock]]
          /\ pipes' = [pipes EXCEPT ![k] = runtime_pipe_open(first, second)]
      BY <2>1 DEF k
    <2> QED  BY <2>2, <2>5, <2>6, <2>7, OpenKeeps
  <1> QED  BY <1>1, <1>2

(* A table that changed: what removal, registration and a scan leave.       *)
LEMMA RemoveFacts ==
    ASSUME NEW table \in SUBSET EntryType, IsFiniteSet(table), NEW f
    PROVE  LET r == runtime_epoll_table_remove(table, f)
           IN  r \in SUBSET EntryType /\ IsFiniteSet(r) /\ r \subseteq table
  <1>1. runtime_epoll_table_remove(table, f) \in SUBSET table
    BY DEF runtime_epoll_table_remove
  <1>2. IsFiniteSet(runtime_epoll_table_remove(table, f))
    BY <1>1, FS_Subset
  <1> QED  BY <1>1, <1>2

LEMMA SetFacts ==
    ASSUME PollTypeOK, NEW table \in SUBSET EntryType, IsFiniteSet(table),
           NEW f \in Fd, NEW oneshot \in BOOLEAN
    PROVE  LET r == runtime_epoll_table_set(table, f, {"in"}, oneshot)
           IN  /\ r \in SUBSET EntryType /\ IsFiniteSet(r)
               /\ \A e \in r : e \in table \/ e.fd = f
  <1> DEFINE new == [fd |-> f, events |-> {"in"}, oneshot |-> oneshot, armed |-> TRUE,
                     is_sock |-> fd_is_socket(f), handle |-> fds[f].handle]
  <1> DEFINE rest == runtime_epoll_table_remove(table, f)
  <1>1. fd_is_socket(f) \in BOOLEAN /\ fds[f].handle \in SockHandle \cup {NoHandle}
    BY DEF fd_is_socket, PollTypeOK, FdType
  <1>2. new \in EntryType /\ new.fd = f
    <2> DEFINE x == fd_is_socket(f)
    <2> DEFINE y == fds[f].handle
    <2> HIDE DEF x, y
    <2>1. x \in BOOLEAN /\ y \in SockHandle \cup {NoHandle}
      BY <1>1 DEF x, y
    <2>2. new = [fd |-> f, events |-> {"in"}, oneshot |-> oneshot, armed |-> TRUE,
                 is_sock |-> x, handle |-> y]
      BY DEF x, y
    <2> HIDE DEF new
    <2> QED  BY <2>1, <2>2 DEF EntryType
  <1>3. rest \in SUBSET EntryType /\ IsFiniteSet(rest) /\ rest \subseteq table
    BY RemoveFacts
  <1>4. runtime_epoll_table_set(table, f, {"in"}, oneshot) = rest \cup {new}
    BY Zenon DEF runtime_epoll_table_set
  <1> HIDE DEF rest, new
  <1>5. IsFiniteSet(rest \cup {new})
    BY <1>3, FS_AddElement
  <1> QED  BY <1>2, <1>3, <1>4, <1>5

LEMMA DisarmedFacts ==
    ASSUME NEW table \in SUBSET EntryType, IsFiniteSet(table), NEW reported
    PROVE  LET r == Disarmed(table, reported)
           IN  /\ r \in SUBSET EntryType /\ IsFiniteSet(r)
               /\ \A e \in r : \E d \in table : /\ e.fd = d.fd /\ e.is_sock = d.is_sock
                                                /\ e.armed => d.armed
  <1> DEFINE put(e) == IF e \in reported /\ e.oneshot THEN [e EXCEPT !.armed = FALSE] ELSE e
  <1> DEFINE r == Disarmed(table, reported)
  <1> DEFINE g == [e \in table |-> put(e)]
  <1>1. r = {put(e) : e \in table}
    BY DEF Disarmed
  <1>2. ASSUME NEW e \in table
        PROVE  /\ put(e) \in EntryType /\ put(e).fd = e.fd /\ put(e).is_sock = e.is_sock
               /\ put(e).armed => e.armed
    <2>1. e \in EntryType
      OBVIOUS
    <2>2. CASE e \in reported /\ e.oneshot
      BY <2>1, <2>2 DEF EntryType
    <2>3. CASE ~(e \in reported /\ e.oneshot)
      BY <2>1, <2>3
    <2> QED  BY <2>2, <2>3
  <1> HIDE DEF put, r
  <1>3. g \in Surjection(table, r)
    BY <1>1, Zenon DEF Surjection
  <1>4. IsFiniteSet(r)
    BY <1>3, FS_Surjection
  <1>5. r \in SUBSET EntryType
    BY <1>1, <1>2
  <1>6. \A e \in r : \E d \in table : /\ e.fd = d.fd /\ e.is_sock = d.is_sock
                                      /\ e.armed => d.armed
    <2> SUFFICES ASSUME NEW e \in r
                 PROVE  \E d \in table : /\ e.fd = d.fd /\ e.is_sock = d.is_sock
                                         /\ e.armed => d.armed
      OBVIOUS
    <2>1. PICK d \in table : e = put(d)
      BY <1>1
    <2> QED  BY <1>2, <2>1
  <1> QED  BY <1>4, <1>5, <1>6 DEF r

-----------------------------------------------------------------------------
(* The sleepers. What t must not have missed, and when it keeps so.         *)
Safe(t) ==
    /\ call[t].name \in {"read", "ppoll", "pselect6"} => ~Unread(call[t].fd)
    /\ call[t].name = "epoll" =>
          \A e \in epolls[call[t].fd].table :
              e.armed /\ ~e.is_sock /\ Unread(e.fd) => e.fd \in late[t]

(* An entry a sleeper would have to see was there before, or came late.     *)
EntriesKept ==
    \A i \in EpollSlot : \A e \in epolls'[i].table : e.armed /\ ~e.is_sock =>
        \/ \E d \in epolls[i].table : d.armed /\ ~d.is_sock /\ d.fd = e.fd
        \/ \A t \in Thread : call'[t] = [name |-> "epoll", fd |-> i] => e.fd \in late'[t]

LEMMA StaySafe ==
    ASSUME PollTypeOK, NEW t \in Thread, Safe(t), NoNewByte, EntriesKept,
           call'[t] = call[t], late[t] \subseteq late'[t]
    PROVE  Safe(t)'
  <1>1. call[t].name \in {"read", "ppoll", "pselect6"} => ~Unread(call[t].fd)'
    BY DEF Safe, NoNewByte
  <1>2. ASSUME call[t].name = "epoll", NEW e \in epolls'[call[t].fd].table,
               e.armed, ~e.is_sock, Unread(e.fd)'
        PROVE  e.fd \in late'[t]
    <2> DEFINE i == call[t].fd
    <2>1. call[t] \in CallType
      BY DEF PollTypeOK
    <2>2. i \in EpollSlot /\ call[t] = [name |-> "epoll", fd |-> i]
      BY <1>2, <2>1 DEF CallType
    <2>3. Unread(e.fd)
      BY <1>2 DEF NoNewByte
    <2>4. CASE \E d \in epolls[i].table : d.armed /\ ~d.is_sock /\ d.fd = e.fd
      BY <1>2, <2>3, <2>4 DEF Safe
    <2>5. CASE \A u \in Thread : call'[u] = [name |-> "epoll", fd |-> i] => e.fd \in late'[u]
      BY <2>2, <2>5
    <2> QED  BY <1>2, <2>2, <2>4, <2>5 DEF EntriesKept
  <1> QED  BY <1>1, <1>2 DEF Safe

(* What the idle wait does to who is asleep.                                *)
LEMMA SleepFacts ==
    ASSUME IdleInv
    PROVE  /\ UNCHANGED <<sem, at, moved>> => \A u \in Thread : Asleep(u)' = Asleep(u)
           /\ \A t \in Thread : thread_io_wait(t) =>
                 \A u \in Thread : Asleep(u)' => u = t \/ Asleep(u)
           /\ \A t \in Thread : Resume(t) => \A u \in Thread : Asleep(u)' => Asleep(u)
           /\ thread_io_wake => \A u \in Thread : ~Asleep(u)'
  <1> USE DEF IdleInv
  <1>1. UNCHANGED <<sem, at, moved>> => \A u \in Thread : Asleep(u)' = Asleep(u)
    BY DEF Asleep
  <1>2. ASSUME NEW t \in Thread, thread_io_wait(t), NEW u \in Thread, u # t
        PROVE  at'[u] = at[u] /\ moved'[u] = moved[u]
    BY <1>2 DEF thread_io_wait, SemaphoreWait, IdleTypeOK
  <1>3. ASSUME NEW t \in Thread, Resume(t), NEW u \in Thread, Asleep(u)'
        PROVE  Asleep(u)
    <2>1. CASE ~moved[t]
      BY <1>3, <2>1 DEF Resume, SemaphoreWait, IdleTypeOK, Asleep
    <2>2. CASE moved[t]
      <3>1. /\ at'[t] = "running"
            /\ \A v \in Thread : v # t =>
                  moved'[v] = moved[v] /\ (at'[v] = "running" <=> at[v] = "running")
        <4>1. CASE sem.queue = <<>>
          BY <1>3, <2>2, <4>1 DEF Resume, IdleTypeOK
        <4>2. CASE sem.queue # <<>>
          BY <1>3, <2>2, <4>2, HeadLeaves DEF Resume, SemaphoreSignal, IdleTypeOK
        <4> QED  BY <4>1, <4>2
      <3> QED  BY <1>3, <3>1 DEF Asleep
    <2> QED  BY <2>1, <2>2
  <1>4. ASSUME thread_io_wake, NEW u \in Thread
        PROVE  ~Asleep(u)'
    <2>1. moved'[u] = (at[u] # "running") /\ (at'[u] = "running" <=> at[u] = "running")
      BY <1>4, HeadLeaves DEF thread_io_wake, SemaphoreSignal, IdleTypeOK
    <2> QED  BY <2>1 DEF Asleep
  <1>5. \A t \in Thread : thread_io_wait(t) =>
           \A u \in Thread : Asleep(u)' => u = t \/ Asleep(u)
    BY <1>2 DEF Asleep
  <1> QED  BY <1>1, <1>3, <1>4, <1>5

(* The rest of a step: nobody new sleeps, or whoever does has looked.       *)
LEMMA Sleepers ==
    ASSUME PollTypeOK, SleeperMissesNoByte, NoNewByte, EntriesKept,
           \A u \in Thread : Asleep(u)' =>
              \/ Safe(u)'
              \/ Asleep(u) /\ call'[u] = call[u] /\ late[u] \subseteq late'[u]
    PROVE  SleeperMissesNoByte'
  <1>1. \A u \in Thread : Asleep(u) => Safe(u)
    BY DEF SleeperMissesNoByte, Safe
  <1>2. \A u \in Thread : Asleep(u)' => Safe(u)'
    BY <1>1, StaySafe
  <1> QED  BY <1>2 DEF SleeperMissesNoByte, Safe

(* The looks: a descriptor that is not ready has no unread byte.            *)
LEMMA LookFacts ==
    ASSUME PipeInv, NEW f
    PROVE  /\ ~runtime_pipe_ready(f) => ~Unread(f)
           /\ f \in Fd /\ PipeWouldBlock(f) => ~Unread(f)
           /\ f \in Fd /\ fd_is_socket(f) => ~Unread(f)
  <1>t. \A i \in PipeSlot : pipes[i].state \in {"free", "empty", "readable"} /\ pipes[i].pending \in Nat
    BY DEF PipeInv, PollTypeOK, PipeType
  <1>1. ~runtime_pipe_ready(f) => ~Unread(f)
    BY <1>t DEF runtime_pipe_ready, Unread, PipeInv, EmptyInv, slot_of_read
  <1>2. f \in Fd /\ PipeWouldBlock(f) => ~Unread(f)
    <2> SUFFICES ASSUME f \in Fd, NEW i \in slot_of_read(f), pipes[i].state = "empty",
                        NEW j \in slot_of_read(f), pipes[j].pending > 0
                 PROVE  FALSE
      BY DEF PipeWouldBlock, Unread
    <2>1. i = j
      BY DEF PipeInv, EndsInv
    <2>2. i \in PipeSlot
      BY DEF slot_of_read
    <2> QED  BY <2>1, <2>2 DEF PipeInv, EmptyInv
  <1>3. f \in Fd /\ fd_is_socket(f) => ~Unread(f)
    BY DEF fd_is_socket, Unread, PipeInv, EndsInv, slot_of_read
  <1> QED  BY <1>1, <1>2, <1>3

(* A scan that reports nothing found nothing.                               *)
LEMMA ScanFacts ==
    ASSUME PipeInv, NEW table \in SUBSET EntryType, IsFiniteSet(table), NEW rv,
           {} \in ScanReports(rv, table)
    PROVE  \A e \in table : e.armed /\ ~e.is_sock => ~Unread(e.fd)
  <1> DEFINE ready == {e \in table : EntryReady(rv, e)}
  <1> DEFINE n == Cardinality(ready)
  <1>1. IsFiniteSet(ready) /\ n \in Nat
    BY FS_Subset, FS_CardinalityType
  <1>2. Cardinality({}) = Min({MaxReports, n})
    BY DEF ScanReports, kSubset
  <1>3. Min({MaxReports, n}) \in {MaxReports, n} /\ MaxReports # 0
    BY <1>1, PollAssumption, MinPair
  <1>4. n = 0
    BY <1>2, <1>3, FS_EmptySet
  <1>5. ready = {}
    BY <1>1, <1>4, FS_EmptySet
  <1>6. ASSUME NEW e \in table, e.armed, ~e.is_sock
        PROVE  ~Unread(e.fd)
    <2>1. ~EntryReady(rv, e)
      BY <1>5
    <2>2. e.events = {"in"}
      BY DEF EntryType
    <2>3. ~runtime_pipe_ready(e.fd)
      BY <1>6, <2>1, <2>2 DEF EntryReady, epoll_readiness
    <2> QED  BY <2>3, LookFacts
  <1> QED  BY <1>6

-----------------------------------------------------------------------------
(* The inductive invariant of the poll calls over the idle wait.            *)
PollInv == IdleInv /\ PipeInv /\ SleeperMissesNoByte

(* One call of t: what is left to show of each.                             *)
LEMMA CallKeeps ==
    ASSUME PollInv, [IdleNext]_waitVars, PipesKept, NoNewByte, EntriesKept,
           epolls' \in [EpollSlot -> EpollType], TablesFinite',
           call' \in [Thread -> CallType], late' \in [Thread -> SUBSET Fd],
           \A u \in Thread : Asleep(u)' =>
              \/ Safe(u)'
              \/ Asleep(u) /\ call'[u] = call[u] /\ late[u] \subseteq late'[u]
    PROVE  PollInv'
  <1>1. IdleInv'
    BY StepInv DEF PollInv
  <1>2. PipeInv'
    BY DEF PipeInv, PollTypeOK, PipesKept
  <1>3. SleeperMissesNoByte'
    BY Sleepers DEF PollInv, PipeInv
  <1> QED  BY <1>1, <1>2, <1>3 DEF PollInv

(* The same for a call that does not touch the idle wait.                   *)
LEMMA QuietCallKeeps ==
    ASSUME PollInv, UNCHANGED <<sem, at, moved>>, PipesKept, NoNewByte, EntriesKept,
           epolls' \in [EpollSlot -> EpollType], TablesFinite',
           NEW t \in Thread, at[t] = "running",
           call' \in [Thread -> CallType], late' \in [Thread -> SUBSET Fd],
           \A u \in Thread : u # t => call'[u] = call[u] /\ late[u] \subseteq late'[u]
    PROVE  PollInv'
  <1>1. [IdleNext]_waitVars
    BY DEF waitVars
  <1>2. \A u \in Thread : Asleep(u)' => Asleep(u)
    BY SleepFacts DEF PollInv
  <1>3. ~Asleep(t)
    BY DEF Asleep
  <1> QED  BY <1>1, <1>2, <1>3, CallKeeps

LEMMA SameTables ==
    ASSUME PipeInv, epolls' = epolls
    PROVE  EntriesKept /\ epolls' \in [EpollSlot -> EpollType] /\ TablesFinite'
  BY DEF EntriesKept, PipeInv, PollTypeOK, TablesFinite

LEMMA OpenPipeInv ==
    ASSUME PollInv, NEW t \in Thread, OpenPipe(t)
    PROVE  PollInv'
  <1>1. PipesKept /\ NoNewByte
    BY OpenPipeKeeps DEF OpenPipe, PollInv
  <1>2. UNCHANGED <<sem, at, moved, epolls, call, late>> /\ at[t] = "running"
    BY DEF OpenPipe, Calls
  <1>3. EntriesKept /\ epolls' \in [EpollSlot -> EpollType] /\ TablesFinite'
    BY <1>2, SameTables DEF PollInv
  <1>4. call' \in [Thread -> CallType] /\ late' \in [Thread -> SUBSET Fd]
    BY <1>2 DEF PollInv, PipeInv, PollTypeOK
  <1> QED  BY <1>1, <1>2, <1>3, <1>4, QuietCallKeeps

LEMMA OpenSocketInv ==
    ASSUME PollInv, NEW t \in Thread, OpenSocket(t)
    PROVE  PollInv'
  <1>1. PICK h \in SockHandle : fds' = runtime_fd_alloc_ops("sock", FALSE, h)
    BY DEF OpenSocket
  <1>2. UNCHANGED <<sem, at, moved, pipes, epolls, call, late>> /\ at[t] = "running" /\ FreeFds # {}
    BY DEF OpenSocket, Calls
  <1> DEFINE m == Min(FreeFds)
  <1> DEFINE e == [kind |-> "sock", nonblock |-> FALSE, handle |-> h]
  <1>3. m \in Fd /\ fds[m].kind = "free"
    BY <1>2, FreeFdFacts DEF PollInv
  <1>4. e \in FdType /\ e.kind = "sock"
    BY DEF FdType, Kinds
  <1>5. fds' = [fds EXCEPT ![m] = e]
    BY <1>1 DEF runtime_fd_alloc_ops
  <1> HIDE DEF m, e
  <1>6. PipesKept /\ NoNewByte
    BY <1>2, <1>3, <1>4, <1>5, AllocKeeps DEF PollInv
  <1>7. EntriesKept /\ epolls' \in [EpollSlot -> EpollType] /\ TablesFinite'
    BY <1>2, SameTables DEF PollInv
  <1>8. call' \in [Thread -> CallType] /\ late' \in [Thread -> SUBSET Fd]
    BY <1>2 DEF PollInv, PipeInv, PollTypeOK
  <1> QED  BY <1>2, <1>6, <1>7, <1>8, QuietCallKeeps

LEMMA CreateInv ==
    ASSUME PollInv, NEW t \in Thread, runtime_sys_epoll_create1(t)
    PROVE  PollInv'
  <1> DEFINE m == Min(FreeFds)
  <1> DEFINE e == [kind |-> "epoll", nonblock |-> FALSE, handle |-> NoHandle]
  <1> DEFINE new == [FreeEpoll EXCEPT !.epfd = m]
  <1>1. PICK i \in EpollSlot : epolls' = [epolls EXCEPT ![i] = new]
    BY DEF runtime_sys_epoll_create1
  <1>2. /\ UNCHANGED <<sem, at, moved, pipes, call, late>> /\ at[t] = "running" /\ FreeFds # {}
        /\ fds' = [fds EXCEPT ![m] = e]
    BY DEF runtime_sys_epoll_create1, Calls, runtime_fd_alloc_ops
  <1>3. m \in Fd /\ fds[m].kind = "free"
    BY <1>2, FreeFdFacts DEF PollInv
  <1>4. e \in FdType /\ e.kind = "epoll"
    BY DEF FdType, Kinds
  <1>5. new \in EpollType /\ new.table = {}
    BY <1>3 DEF FreeEpoll, EpollType
  <1> HIDE DEF m, e, new
  <1>6. PipesKept /\ NoNewByte
    BY <1>2, <1>3, <1>4, AllocKeeps DEF PollInv
  <1>7. epolls \in [EpollSlot -> EpollType] /\ TablesFinite
    BY DEF PollInv, PipeInv, PollTypeOK
  <1>8. epolls' \in [EpollSlot -> EpollType] /\ epolls'[i].table = {}
        /\ \A j \in EpollSlot : j # i => epolls'[j] = epolls[j]
    BY <1>1, <1>5, <1>7
  <1>9. EntriesKept /\ TablesFinite'
    BY <1>7, <1>8, FS_EmptySet DEF EntriesKept, TablesFinite
  <1>10. call' \in [Thread -> CallType] /\ late' \in [Thread -> SUBSET Fd]
    BY <1>2 DEF PollInv, PipeInv, PollTypeOK
  <1> QED  BY <1>2, <1>6, <1>8, <1>9, <1>10, QuietCallKeeps

LEMMA CloseInv ==
    ASSUME PollInv, NEW t \in Thread, NEW f \in Fd, Close(t, f)
    PROVE  PollInv'
  <1>1. /\ UNCHANGED <<sem, at, moved, call, late>> /\ at[t] = "running"
        /\ fds' = [fds EXCEPT ![f] = Closed] /\ runtime_pipe_close(f)
        /\ epolls' = [i \in EpollSlot |-> IF epolls[i].epfd = f THEN FreeEpoll ELSE epolls[i]]
    BY DEF Close, Calls, epoll_close
  <1>2. PipesKept /\ NoNewByte
    BY <1>1, CloseKeeps DEF PollInv
  <1>3. epolls \in [EpollSlot -> EpollType] /\ TablesFinite
    BY DEF PollInv, PipeInv, PollTypeOK
  <1>4. FreeEpoll \in EpollType /\ FreeEpoll.table = {}
    BY DEF FreeEpoll, EpollType
  <1>5. epolls' \in [EpollSlot -> EpollType]
    BY <1>1, <1>3, <1>4
  <1>6. \A i \in EpollSlot : epolls'[i].table = {} \/ epolls'[i] = epolls[i]
    BY <1>1, <1>4
  <1>7. EntriesKept /\ TablesFinite'
    BY <1>3, <1>6, FS_EmptySet DEF EntriesKept, TablesFinite
  <1>8. call' \in [Thread -> CallType] /\ late' \in [Thread -> SUBSET Fd]
    BY <1>1 DEF PollInv, PipeInv, PollTypeOK
  <1> QED  BY <1>1, <1>2, <1>5, <1>7, <1>8, QuietCallKeeps

LEMMA CtlInv ==
    ASSUME PollInv, NEW t \in Thread, NEW i \in EpollSlot, NEW f \in Fd,
           runtime_sys_epoll_ctl(t, i, f)
    PROVE  PollInv'
  <1>1. UNCHANGED <<sem, at, moved, fds, pipes, call>> /\ at[t] = "running"
    BY DEF runtime_sys_epoll_ctl, Calls
  <1>2. PipesKept /\ NoNewByte
    BY <1>1, SameKeeps DEF PollInv
  <1>3. /\ epolls \in [EpollSlot -> EpollType] /\ TablesFinite /\ PollTypeOK
        /\ call \in [Thread -> CallType] /\ late \in [Thread -> SUBSET Fd]
    BY DEF PollInv, PipeInv, PollTypeOK
  <1>4. epolls[i].table \in SUBSET EntryType /\ IsFiniteSet(epolls[i].table)
    BY <1>3 DEF EpollType, TablesFinite
  <1>5. ASSUME NEW table \in SUBSET EntryType, IsFiniteSet(table),
               epolls' = [epolls EXCEPT ![i].table = table]
        PROVE  /\ epolls' \in [EpollSlot -> EpollType] /\ TablesFinite'
               /\ epolls'[i].table = table
               /\ \A j \in EpollSlot : j # i => epolls'[j] = epolls[j]
    <2> DEFINE e == [epolls[i] EXCEPT !.table = table]
    <2>1. e \in EpollType /\ e.table = table
      BY <1>3 DEF EpollType
    <2>2. epolls' = [epolls EXCEPT ![i] = e]
      BY <1>5
    <2> HIDE DEF e
    <2> QED  BY <1>3, <1>5, <2>1, <2>2 DEF TablesFinite
  <1>6. ASSUME NEW oneshot \in BOOLEAN,
               epolls' = [epolls EXCEPT ![i].table =
                             runtime_epoll_table_set(epolls[i].table, f, {"in"}, oneshot)],
               late' = [u \in Thread |-> IF call[u] = [name |-> "epoll", fd |-> i]
                                         THEN late[u] \cup {f} ELSE late[u]]
        PROVE  PollInv'
    <2> DEFINE table == runtime_epoll_table_set(epolls[i].table, f, {"in"}, oneshot)
    <2>1. /\ table \in SUBSET EntryType /\ IsFiniteSet(table)
          /\ \A e \in table : e \in epolls[i].table \/ e.fd = f
      BY <1>3, <1>4, SetFacts
    <2> HIDE DEF table
    <2>2. /\ epolls' \in [EpollSlot -> EpollType] /\ TablesFinite'
          /\ epolls'[i].table = table
          /\ \A j \in EpollSlot : j # i => epolls'[j] = epolls[j]
      BY <1>5, <1>6, <2>1 DEF table
    <2>3. /\ late' \in [Thread -> SUBSET Fd]
          /\ \A u \in Thread : late[u] \subseteq late'[u]
          /\ \A u \in Thread : call[u] = [name |-> "epoll", fd |-> i] => f \in late'[u]
      BY <1>3, <1>6
    <2>4. EntriesKept
      BY <1>1, <2>1, <2>2, <2>3 DEF EntriesKept
    <2> QED  BY <1>1, <1>2, <1>3, <2>2, <2>3, <2>4, QuietCallKeeps
  <1>7. ASSUME epolls' = [epolls EXCEPT ![i].table =
                             runtime_epoll_table_remove(epolls[i].table, f)],
               late' = late
        PROVE  PollInv'
    <2> DEFINE table == runtime_epoll_table_remove(epolls[i].table, f)
    <2>1. table \in SUBSET EntryType /\ IsFiniteSet(table) /\ table \subseteq epolls[i].table
      BY <1>4, RemoveFacts
    <2> HIDE DEF table
    <2>2. /\ epolls' \in [EpollSlot -> EpollType] /\ TablesFinite'
          /\ epolls'[i].table = table
          /\ \A j \in EpollSlot : j # i => epolls'[j] = epolls[j]
      BY <1>5, <1>7, <2>1 DEF table
    <2>3. EntriesKept
      BY <2>1, <2>2 DEF EntriesKept
    <2> QED  BY <1>1, <1>2, <1>3, <1>7, <2>2, <2>3, QuietCallKeeps
  <1> QED  BY <1>6, <1>7, Zenon DEF runtime_sys_epoll_ctl

(* A write moves every waiter, so that none of them is asleep.              *)
LEMMA WakeCallInv ==
    ASSUME PollInv, thread_io_wake, PipesKept, UNCHANGED <<epolls, call, late>>
    PROVE  PollInv'
  <1>1. IdleInv'
    BY StepInv DEF PollInv, IdleNext
  <1>2. PipeInv'
    BY DEF PollInv, PipeInv, PollTypeOK, TablesFinite, PipesKept
  <1>3. \A u \in Thread : ~Asleep(u)'
    BY SleepFacts DEF PollInv
  <1>4. SleeperMissesNoByte'
    BY <1>3 DEF SleeperMissesNoByte
  <1> QED  BY <1>1, <1>2, <1>4 DEF PollInv

LEMMA WriteInv ==
    ASSUME PollInv, NEW t \in Thread, NEW f \in Fd, pipe_write(t, f)
    PROVE  PollInv'
  <1>1. PICK bytes \in 1 .. PipeCapacity : runtime_pipe_write(f, bytes)
    BY DEF pipe_write
  <1>2. bytes \in Nat
    OBVIOUS
  <1>3. thread_io_wake /\ UNCHANGED <<fds, epolls, call, late>>
    BY DEF pipe_write
  <1>4. PipesKept
    BY <1>1, <1>2, <1>3, WriteKeeps DEF PollInv
  <1> QED  BY <1>3, <1>4, WakeCallInv

(* t parks in a call c that it has just looked for in vain.                 *)
LEMMA ParkCallInv ==
    ASSUME PollInv, NEW t \in Thread, thread_io_wait(t), UNCHANGED <<fds, pipes>>,
           NEW c \in CallType, call' = [call EXCEPT ![t] = c], Safe(t)',
           EntriesKept, epolls' \in [EpollSlot -> EpollType], TablesFinite',
           late' \in [Thread -> SUBSET Fd],
           \A u \in Thread : u # t => late[u] \subseteq late'[u]
    PROVE  PollInv'
  <1>1. [IdleNext]_waitVars
    BY DEF IdleNext
  <1>2. PipesKept /\ NoNewByte
    BY SameKeeps DEF PollInv
  <1>3. call \in [Thread -> CallType]
    BY DEF PollInv, PipeInv, PollTypeOK
  <1>4. call' \in [Thread -> CallType] /\ \A u \in Thread : u # t => call'[u] = call[u]
    BY <1>3
  <1>5. \A u \in Thread : Asleep(u)' => u = t \/ Asleep(u)
    BY SleepFacts DEF PollInv
  <1> QED  BY <1>1, <1>2, <1>4, <1>5, CallKeeps

LEMMA ReadInv ==
    ASSUME PollInv, NEW t \in Thread, NEW f \in Fd, pipe_read(t, f)
    PROVE  PollInv'
  <1>1. at[t] = "running" /\ UNCHANGED <<fds, epolls, late>>
    BY DEF pipe_read
  <1>2. /\ EntriesKept /\ epolls' \in [EpollSlot -> EpollType] /\ TablesFinite'
        /\ late' \in [Thread -> SUBSET Fd] /\ call \in [Thread -> CallType]
    BY <1>1, SameTables DEF PollInv, PipeInv, PollTypeOK
  <1>3. CASE PipeWouldBlock(f) /\ ~fds[f].nonblock
    <2> DEFINE c == [name |-> "read", fd |-> f]
    <2>1. thread_io_wait(t) /\ call' = [call EXCEPT ![t] = c] /\ pipes' = pipes
      BY <1>3 DEF pipe_read
    <2>2. c \in CallType /\ c.name = "read" /\ c.fd = f
      BY DEF CallType
    <2> HIDE DEF c
    <2>3. call'[t] = c
      BY <1>2, <2>1
    <2>4. ~Unread(f)
      BY <1>3, LookFacts DEF PollInv
    <2>5. ~Unread(f)'
      BY <2>1, <2>4 DEF Unread, slot_of_read
    <2>6. Safe(t)'
      BY <2>2, <2>3, <2>5 DEF Safe
    <2> QED  BY <1>1, <1>2, <2>1, <2>2, <2>6, ParkCallInv
  <1>4. CASE ~(PipeWouldBlock(f) /\ ~fds[f].nonblock)
    <2>1. /\ \E bytes \in 1 .. PipeCapacity : runtime_pipe_read(f, bytes)
          /\ call' = [call EXCEPT ![t] = NoCall] /\ UNCHANGED waitVars
      BY <1>4 DEF pipe_read
    <2>2. PICK bytes \in 1 .. PipeCapacity : runtime_pipe_read(f, bytes)
      BY <2>1
    <2>3. bytes \in Nat
      OBVIOUS
    <2>4. PipesKept /\ NoNewByte
      BY <1>1, <2>2, <2>3, ReadKeeps DEF PollInv
    <2>5. NoCall \in CallType
      BY DEF NoCall, CallType
    <2>6. call' \in [Thread -> CallType] /\ \A u \in Thread : u # t => call'[u] = call[u]
      BY <1>2, <2>1, <2>5
    <2>7. UNCHANGED <<sem, at, moved>>
      BY <2>1 DEF waitVars
    <2> QED  BY <1>1, <1>2, <2>4, <2>6, <2>7, QuietCallKeeps
  <1> QED  BY <1>3, <1>4

(* A scan of instance i: the table it leaves.                               *)
LEMMA ScanKeeps ==
    ASSUME PollInv, NEW i \in EpollSlot, NEW reported,
           epolls' = [epolls EXCEPT ![i].table = Disarmed(epolls[i].table, reported)]
    PROVE  /\ EntriesKept /\ epolls' \in [EpollSlot -> EpollType] /\ TablesFinite'
           /\ epolls'[i].table = Disarmed(epolls[i].table, reported)
  <1> DEFINE table == Disarmed(epolls[i].table, reported)
  <1> DEFINE e == [epolls[i] EXCEPT !.table = table]
  <1>1. epolls \in [EpollSlot -> EpollType] /\ TablesFinite
    BY DEF PollInv, PipeInv, PollTypeOK
  <1>2. epolls[i].table \in SUBSET EntryType /\ IsFiniteSet(epolls[i].table)
    BY <1>1 DEF EpollType, TablesFinite
  <1>3. /\ table \in SUBSET EntryType /\ IsFiniteSet(table)
        /\ \A x \in table : \E d \in epolls[i].table : /\ x.fd = d.fd /\ x.is_sock = d.is_sock
                                                       /\ x.armed => d.armed
    BY <1>2, DisarmedFacts
  <1> HIDE DEF table
  <1>4. e \in EpollType /\ e.table = table
    BY <1>1, <1>3 DEF EpollType
  <1>5. epolls' = [epolls EXCEPT ![i] = e]
    BY DEF table
  <1> HIDE DEF e
  <1>6. /\ epolls' \in [EpollSlot -> EpollType] /\ epolls'[i].table = table
        /\ \A j \in EpollSlot : j # i => epolls'[j] = epolls[j]
    BY <1>1, <1>4, <1>5
  <1>7. TablesFinite'
    BY <1>1, <1>3, <1>6 DEF TablesFinite
  <1>8. EntriesKept
    <2> SUFFICES ASSUME NEW j \in EpollSlot, NEW x \in epolls'[j].table, x.armed, ~x.is_sock
                 PROVE  \E d \in epolls[j].table : d.armed /\ ~d.is_sock /\ d.fd = x.fd
      BY DEF EntriesKept
    <2>1. CASE j = i
      BY <1>3, <1>6, <2>1
    <2>2. CASE j # i
      BY <1>6, <2>2
    <2> QED  BY <2>1, <2>2
  <1> QED  BY <1>6, <1>7, <1>8 DEF table

LEMMA PwaitInv ==
    ASSUME PollInv, NEW t \in Thread, NEW i \in EpollSlot, runtime_sys_epoll_pwait(t, i)
    PROVE  PollInv'
  <1>1. at[t] = "running" /\ UNCHANGED <<fds, pipes>>
    BY DEF runtime_sys_epoll_pwait, Calls
  <1>2. PICK rv \in beam_net_pump : \E reported \in ScanReports(rv, epolls[i].table) :
           /\ epolls' = [epolls EXCEPT ![i].table = Disarmed(@, reported)]
           /\ IF reported = {}
              THEN /\ thread_io_wait(t)
                   /\ call' = [call EXCEPT ![t] = [name |-> "epoll", fd |-> i]]
                   /\ late' = [late EXCEPT ![t] = {}]
              ELSE UNCHANGED <<sem, at, moved, call, late>>
    BY Zenon DEF runtime_sys_epoll_pwait
  <1>3. PICK reported \in ScanReports(rv, epolls[i].table) :
           /\ epolls' = [epolls EXCEPT ![i].table = Disarmed(epolls[i].table, reported)]
           /\ IF reported = {}
              THEN /\ thread_io_wait(t)
                   /\ call' = [call EXCEPT ![t] = [name |-> "epoll", fd |-> i]]
                   /\ late' = [late EXCEPT ![t] = {}]
              ELSE UNCHANGED <<sem, at, moved, call, late>>
    BY <1>2, Zenon
  <1>4. /\ EntriesKept /\ epolls' \in [EpollSlot -> EpollType] /\ TablesFinite'
        /\ epolls'[i].table = Disarmed(epolls[i].table, reported)
    BY <1>3, ScanKeeps
  <1>5. /\ epolls[i].table \in SUBSET EntryType /\ IsFiniteSet(epolls[i].table)
        /\ call \in [Thread -> CallType] /\ late \in [Thread -> SUBSET Fd]
    BY DEF PollInv, PipeInv, PollTypeOK, EpollType, TablesFinite
  <1>6. CASE reported = {}
    <2> DEFINE c == [name |-> "epoll", fd |-> i]
    <2>1. thread_io_wait(t) /\ call' = [call EXCEPT ![t] = c] /\ late' = [late EXCEPT ![t] = {}]
      BY <1>3, <1>6
    <2>2. c \in CallType /\ c.name = "epoll" /\ c.fd = i
      BY DEF CallType
    <2> HIDE DEF c
    <2>3. /\ call'[t] = c /\ late' \in [Thread -> SUBSET Fd]
          /\ \A u \in Thread : u # t => late[u] \subseteq late'[u]
      BY <1>5, <2>1
    <2>4. \A d \in epolls[i].table : d.armed /\ ~d.is_sock => ~Unread(d.fd)
      BY <1>3, <1>5, <1>6, ScanFacts DEF PollInv
    <2>5. \A g : Unread(g)' = Unread(g)
      BY <1>1 DEF Unread, slot_of_read
    <2>6. ASSUME NEW e \in epolls'[i].table, e.armed, ~e.is_sock
          PROVE  ~Unread(e.fd)'
      <3>1. PICK d \in epolls[i].table : e.fd = d.fd /\ e.is_sock = d.is_sock /\ (e.armed => d.armed)
        BY <1>4, <1>5, DisarmedFacts
      <3> QED  BY <2>4, <2>5, <2>6, <3>1
    <2>7. Safe(t)'
      BY <2>2, <2>3, <2>6 DEF Safe
    <2> QED  BY <1>1, <1>4, <2>1, <2>2, <2>3, <2>7, ParkCallInv
  <1>7. CASE reported # {}
    <2>1. UNCHANGED <<sem, at, moved, call, late>>
      BY <1>3, <1>7
    <2>2. PipesKept /\ NoNewByte
      BY <1>1, SameKeeps DEF PollInv
    <2> QED  BY <1>1, <1>4, <1>5, <2>1, <2>2, QuietCallKeeps
  <1> QED  BY <1>6, <1>7

LEMMA RescanInv ==
    ASSUME PollInv, NEW t \in Thread, NEW i \in EpollSlot, EpollRescan(t, i)
    PROVE  PollInv'
  <1>1. /\ at[t] = "running" /\ UNCHANGED <<sem, at, moved, fds, pipes>>
        /\ call' = [call EXCEPT ![t] = NoCall] /\ late' = [late EXCEPT ![t] = {}]
    BY DEF EpollRescan
  <1>2. PICK reported : epolls' = [epolls EXCEPT ![i].table = Disarmed(epolls[i].table, reported)]
    BY Zenon DEF EpollRescan
  <1>3. EntriesKept /\ epolls' \in [EpollSlot -> EpollType] /\ TablesFinite'
    BY <1>2, ScanKeeps
  <1>4. PipesKept /\ NoNewByte
    BY <1>1, SameKeeps DEF PollInv
  <1>5. call \in [Thread -> CallType] /\ late \in [Thread -> SUBSET Fd] /\ NoCall \in CallType
    BY DEF PollInv, PipeInv, PollTypeOK, NoCall, CallType
  <1>6. /\ call' \in [Thread -> CallType] /\ late' \in [Thread -> SUBSET Fd]
        /\ \A u \in Thread : u # t => call'[u] = call[u] /\ late[u] \subseteq late'[u]
    BY <1>1, <1>5
  <1> QED  BY <1>1, <1>3, <1>4, <1>6, QuietCallKeeps

LEMMA PollOnceInv ==
    ASSUME PollInv, NEW t \in Thread, NEW f \in Fd, NEW name \in {"ppoll", "pselect6"}, NEW ready,
           \A rv \in beam_net_pump : rv \notin ready => ~Unread(f),
           PollOnce(t, f, name, ready)
    PROVE  PollInv'
  <1> DEFINE c == [name |-> name, fd |-> f]
  <1>1. at[t] = "running" /\ UNCHANGED <<fds, pipes, epolls, late>>
    BY DEF PollOnce
  <1>2. /\ EntriesKept /\ epolls' \in [EpollSlot -> EpollType] /\ TablesFinite'
        /\ late' \in [Thread -> SUBSET Fd] /\ call \in [Thread -> CallType]
    BY <1>1, SameTables DEF PollInv, PipeInv, PollTypeOK
  <1>3. \/ /\ \E rv \in beam_net_pump : rv \notin ready
           /\ thread_io_wait(t) /\ call' = [call EXCEPT ![t] = c]
        \/ call' = [call EXCEPT ![t] = NoCall] /\ UNCHANGED waitVars
    BY Zenon DEF PollOnce
  <1>4. CASE /\ \E rv \in beam_net_pump : rv \notin ready
             /\ thread_io_wait(t) /\ call' = [call EXCEPT ![t] = c]
    <2>1. c \in CallType /\ c.name # "epoll" /\ c.fd = f
      BY DEF CallType
    <2> HIDE DEF c
    <2>2. call'[t] = c
      BY <1>2, <1>4
    <2>3. ~Unread(f)
      BY <1>4
    <2>4. ~Unread(f)'
      BY <1>1, <2>3 DEF Unread, slot_of_read
    <2>5. Safe(t)'
      BY <2>1, <2>2, <2>4 DEF Safe
    <2> QED  BY <1>1, <1>2, <1>4, <2>1, <2>5, ParkCallInv
  <1>5. CASE call' = [call EXCEPT ![t] = NoCall] /\ UNCHANGED waitVars
    <2>1. NoCall \in CallType
      BY DEF NoCall, CallType
    <2>2. call' \in [Thread -> CallType] /\ \A u \in Thread : u # t => call'[u] = call[u]
      BY <1>2, <1>5, <2>1
    <2>3. UNCHANGED <<sem, at, moved>>
      BY <1>5 DEF waitVars
    <2>4. PipesKept /\ NoNewByte
      BY <1>1, SameKeeps DEF PollInv
    <2> QED  BY <1>1, <1>2, <2>2, <2>3, <2>4, QuietCallKeeps
  <1> QED  BY <1>3, <1>4, <1>5

LEMMA PpollInv ==
    ASSUME PollInv, NEW t \in Thread, NEW f \in Fd, runtime_sys_ppoll(t, f)
    PROVE  PollInv'
  <1>1. ASSUME NEW rv \in beam_net_pump, ~poll_scan(rv, f)
        PROVE  ~Unread(f)
    <2>1. CASE fd_is_socket(f)
      BY <2>1, LookFacts DEF PollInv
    <2>2. CASE ~fd_is_socket(f)
      <3>1. ~runtime_pipe_ready(f)
        BY <1>1, <2>2 DEF poll_scan
      <3> QED  BY <3>1, LookFacts DEF PollInv
    <2> QED  BY <2>1, <2>2
  <1>2. \A rv \in beam_net_pump : rv \notin {x \in beam_net_pump : poll_scan(x, f)} => ~Unread(f)
    BY <1>1
  <1> QED  BY <1>2, PollOnceInv DEF runtime_sys_ppoll

LEMMA PselectInv ==
    ASSUME PollInv, NEW t \in Thread, NEW f \in Fd, runtime_sys_pselect6(t, f)
    PROVE  PollInv'
  <1>1. ASSUME NEW rv \in beam_net_pump, ~select_scan(rv, f)
        PROVE  ~Unread(f)
    <2>1. CASE fd_is_socket(f)
      BY <2>1, LookFacts DEF PollInv
    <2>2. CASE ~fd_is_socket(f)
      <3>1. ~runtime_pipe_ready(f)
        BY <1>1, <2>2 DEF select_scan
      <3> QED  BY <3>1, LookFacts DEF PollInv
    <2> QED  BY <2>1, <2>2
  <1>2. \A rv \in beam_net_pump : rv \notin {x \in beam_net_pump : select_scan(x, f)} => ~Unread(f)
    BY <1>1
  <1> QED  BY <1>2, PollOnceInv DEF runtime_sys_pselect6

LEMMA ResumeInv ==
    ASSUME PollInv, NEW t \in Thread, ResumeWaiter(t)
    PROVE  PollInv'
  <1>1. Resume(t) /\ UNCHANGED <<fds, pipes, epolls, call, late>>
    BY DEF ResumeWaiter
  <1>2. [IdleNext]_waitVars
    BY <1>1 DEF IdleNext
  <1>3. PipesKept /\ NoNewByte
    BY <1>1, SameKeeps DEF PollInv
  <1>4. EntriesKept /\ epolls' \in [EpollSlot -> EpollType] /\ TablesFinite'
    BY <1>1, SameTables DEF PollInv
  <1>5. call' \in [Thread -> CallType] /\ late' \in [Thread -> SUBSET Fd]
    BY <1>1 DEF PollInv, PipeInv, PollTypeOK
  <1>6. \A u \in Thread : Asleep(u)' => Asleep(u)
    BY <1>1, SleepFacts DEF PollInv
  <1> QED  BY <1>1, <1>2, <1>3, <1>4, <1>5, <1>6, CallKeeps

LEMMA PollStep ==
    ASSUME PollInv, [PollNext]_pollVars
    PROVE  PollInv'
  <1>1. ASSUME NEW t \in Thread, Step(t)
        PROVE  PollInv'
    BY <1>1, ResumeInv, OpenPipeInv, OpenSocketInv, CreateInv, CloseInv, WriteInv, ReadInv,
       PpollInv, PselectInv, PwaitInv, RescanInv, CtlInv, Zenon DEF Step
  <1>2. CASE Notified
    <2>1. thread_io_wake /\ UNCHANGED <<fds, pipes, epolls, call, late>>
      BY <1>2 DEF Notified
    <2>2. PipesKept
      BY <2>1, SameKeeps DEF PollInv
    <2> QED  BY <2>1, <2>2, WakeCallInv
  <1>3. CASE UNCHANGED pollVars
    <2>1. UNCHANGED <<sem, at, moved, fds, pipes, epolls, call, late>>
      BY <1>3 DEF pollVars
    <2>2. PipesKept /\ NoNewByte
      BY <2>1, SameKeeps DEF PollInv
    <2>3. EntriesKept /\ epolls' \in [EpollSlot -> EpollType] /\ TablesFinite'
      BY <2>1, SameTables DEF PollInv
    <2>4. call' \in [Thread -> CallType] /\ late' \in [Thread -> SUBSET Fd]
      BY <2>1 DEF PollInv, PipeInv, PollTypeOK
    <2>5. \A u \in Thread : Asleep(u)' => Asleep(u)
      BY <2>1, SleepFacts DEF PollInv
    <2>6. [IdleNext]_waitVars
      BY <2>1 DEF waitVars
    <2> QED  BY <2>1, <2>2, <2>3, <2>4, <2>5, <2>6, CallKeeps
  <1> QED  BY <1>1, <1>2, <1>3 DEF PollNext

LEMMA PollInvariance == PollSpec => []PollInv
  <1>1. PollInit => PollInv
    <2> SUFFICES ASSUME PollInit PROVE PollInv
      OBVIOUS
    <2>1. IdleInv /\ PipeInv
      BY InitInv, InitPipes DEF PollInit
    <2>2. \A t \in Thread : ~Asleep(t)
      BY DEF PollInit, IdleInit, Asleep
    <2> QED  BY <2>1, <2>2 DEF PollInv, SleeperMissesNoByte
  <1>2. PollInv /\ [PollNext]_pollVars => PollInv'
    BY PollStep
  <1> QED  BY <1>1, <1>2, PTL DEF PollSpec

(* Pipe ends and descriptors correspond one to one whatever is opened,      *)
(* closed, reused or refused, for any number of descriptors and slots       *)
(* (runtime_sys_pipe2, runtime_pipe_close).                                 *)
THEOREM EndsOwned == PollSpec => []PipeEndsOwned
  <1>1. ASSUME PipeInv
        PROVE  PipeEndsOwned
    <2> SUFFICES ASSUME NEW f \in Fd
                 PROVE  /\ fds[f].kind = "pipe_r" <=> Cardinality(slot_of_read(f)) = 1
                        /\ fds[f].kind = "pipe_w" <=> Cardinality(slot_of_write(f)) = 1
                        /\ Cardinality(slot_of_read(f)) + Cardinality(slot_of_write(f)) <= 1
      BY DEF PipeEndsOwned
    <2>1. /\ fds[f].kind = "pipe_r" <=> slot_of_read(f) # {}
          /\ fds[f].kind = "pipe_w" <=> slot_of_write(f) # {}
      BY <1>1 DEF PipeInv, EndsInv, slot_of_read, slot_of_write
    <2>2. /\ slot_of_read(f) # {} => Cardinality(slot_of_read(f)) = 1
          /\ slot_of_write(f) # {} => Cardinality(slot_of_write(f)) = 1
      <3>1. /\ \A i, j \in slot_of_read(f) : i = j
            /\ \A i, j \in slot_of_write(f) : i = j
        BY <1>1 DEF PipeInv, EndsInv
      <3>2. ASSUME NEW x \in slot_of_read(f)
            PROVE  Cardinality(slot_of_read(f)) = 1
        <4>1. slot_of_read(f) = {x}
          BY <3>1
        <4> QED  BY <4>1, FS_Singleton
      <3>3. ASSUME NEW x \in slot_of_write(f)
            PROVE  Cardinality(slot_of_write(f)) = 1
        <4>1. slot_of_write(f) = {x}
          BY <3>1
        <4> QED  BY <4>1, FS_Singleton
      <3> QED  BY <3>2, <3>3
    <2>3. /\ slot_of_read(f) = {} => Cardinality(slot_of_read(f)) = 0
          /\ slot_of_write(f) = {} => Cardinality(slot_of_write(f)) = 0
      BY FS_EmptySet
    <2> QED  BY <2>1, <2>2, <2>3
  <1>2. PollInv => PipeEndsOwned
    BY <1>1 DEF PollInv
  <1> QED  BY <1>2, PollInvariance, PTL

(* No byte written to a pipe is missed by a cothread asleep in read, poll,  *)
(* select or epoll, on any number of instances and pollers, except for what *)
(* was registered after the poller parked (runtime_sys_poll.c:242).         *)
THEOREM NoByteMissed == PollSpec => []SleeperMissesNoByte
  <1>1. PollInv => SleeperMissesNoByte
    BY DEF PollInv
  <1> QED  BY <1>1, PollInvariance, PTL

(* Under the poll calls, too, no pulse is stranded.                         *)
THEOREM PollStrandsNone == PollSpec => []NoPulseStranded
  <1>1. PollInv => NoPulseStranded
    BY DEF PollInv, IdleInv
  <1> QED  BY <1>1, PollInvariance, PTL

-----------------------------------------------------------------------------
(* The epoll tables. What a registration says of its descriptor, and when   *)
(* it must be so.                                                           *)
Describes(e) ==
    /\ fds[e.fd].kind # "free"
    /\ e.is_sock = fd_is_socket(e.fd)
    /\ e.handle = fds[e.fd].handle

OnePerFd(table) == \A c, d \in table : c.fd = d.fd => c = d

RegInv ==
    /\ left \in [EpollSlot -> SUBSET Fd]
    /\ \A i \in EpollSlot : OnePerFd(epolls[i].table)
    /\ \A i \in EpollSlot : \A e \in epolls[i].table : e.fd \in left[i] \/ Describes(e)

(* Tables that only lose entries: a descriptor may change under an entry    *)
(* that stays, but only by a close that is remembered.                      *)
LEMMA RegShrinks ==
    ASSUME RegInv, left' \in [EpollSlot -> SUBSET Fd],
           \A i \in EpollSlot : \A e \in epolls'[i].table :
              /\ e \in epolls[i].table
              /\ e.fd \in left[i] => e.fd \in left'[i]
              /\ fds'[e.fd] = fds[e.fd] \/ fds[e.fd].kind = "free" \/ e.fd \in left'[i]
    PROVE  RegInv'
  <1>1. \A i \in EpollSlot : OnePerFd(epolls'[i].table)
    BY DEF RegInv, OnePerFd
  <1>2. ASSUME NEW i \in EpollSlot, NEW e \in epolls'[i].table, e.fd \notin left'[i]
        PROVE  Describes(e)'
    <2>1. Describes(e)
      BY <1>2 DEF RegInv
    <2>2. fds'[e.fd] = fds[e.fd]
      BY <1>2, <2>1 DEF Describes
    <2> QED  BY <2>1, <2>2 DEF Describes, fd_is_socket
  <1>3. \A i \in EpollSlot : OnePerFd(epolls[i].table)'
    BY <1>1 DEF OnePerFd
  <1> QED  BY <1>2, <1>3 DEF RegInv

(* Descriptors allocated on free numbers.                                   *)
LEMMA RegAlloc ==
    ASSUME RegInv, left' = left,
           \A f \in Fd : fds[f].kind # "free" => fds'[f] = fds[f],
           \A i \in EpollSlot : epolls'[i].table \subseteq epolls[i].table,
           \A i \in EpollSlot : \A e \in epolls[i].table : e.fd \in Fd
    PROVE  RegInv'
  <1>1. left' \in [EpollSlot -> SUBSET Fd]
    BY DEF RegInv
  <1>2. ASSUME NEW i \in EpollSlot, NEW e \in epolls'[i].table
        PROVE  /\ e \in epolls[i].table
               /\ e.fd \in left[i] => e.fd \in left'[i]
               /\ fds'[e.fd] = fds[e.fd] \/ fds[e.fd].kind = "free" \/ e.fd \in left'[i]
    <2>1. e \in epolls[i].table /\ e.fd \in Fd
      OBVIOUS
    <2> QED  BY <2>1
  <1> QED  BY <1>1, <1>2, RegShrinks

(* A step that touches neither descriptors nor tables.                      *)
LEMMA RegSame ==
    ASSUME RegInv, UNCHANGED <<fds, epolls, left>>
    PROVE  RegInv'
  <1>1. left' \in [EpollSlot -> SUBSET Fd]
    BY DEF RegInv
  <1> QED  BY <1>1, RegShrinks

LEMMA SetCurrent ==
    ASSUME PollTypeOK, NEW table \in SUBSET EntryType, OnePerFd(table),
           NEW f \in Fd, NEW oneshot \in BOOLEAN
    PROVE  LET r == runtime_epoll_table_set(table, f, {"in"}, oneshot)
           IN  /\ OnePerFd(r)
               /\ \A e \in r : \/ e \in table /\ e.fd # f
                               \/ /\ e.fd = f /\ e.is_sock = fd_is_socket(f)
                                  /\ e.handle = fds[f].handle
  <1> DEFINE new == [fd |-> f, events |-> {"in"}, oneshot |-> oneshot, armed |-> TRUE,
                     is_sock |-> fd_is_socket(f), handle |-> fds[f].handle]
  <1> DEFINE rest == runtime_epoll_table_remove(table, f)
  <1>1. runtime_epoll_table_set(table, f, {"in"}, oneshot) = rest \cup {new}
    BY Zenon DEF runtime_epoll_table_set
  <1>2. new.fd = f /\ new.is_sock = fd_is_socket(f) /\ new.handle = fds[f].handle
    BY Zenon
  <1>3. \A e \in rest : e \in table /\ e.fd # f
    BY DEF runtime_epoll_table_remove
  <1> HIDE DEF new, rest
  <1>4. OnePerFd(rest \cup {new})
    BY <1>2, <1>3 DEF OnePerFd
  <1> QED  BY <1>1, <1>2, <1>3, <1>4

LEMMA DisarmedCurrent ==
    ASSUME NEW table \in SUBSET EntryType, OnePerFd(table), NEW reported
    PROVE  LET r == Disarmed(table, reported)
           IN  /\ OnePerFd(r)
               /\ \A e \in r : \E d \in table :
                     e.fd = d.fd /\ e.is_sock = d.is_sock /\ e.handle = d.handle
  <1> DEFINE put(e) == IF e \in reported /\ e.oneshot THEN [e EXCEPT !.armed = FALSE] ELSE e
  <1> DEFINE r == Disarmed(table, reported)
  <1>1. r = {put(e) : e \in table}
    BY DEF Disarmed
  <1>2. ASSUME NEW e \in table
        PROVE  put(e).fd = e.fd /\ put(e).is_sock = e.is_sock /\ put(e).handle = e.handle
    <2>1. e \in EntryType
      OBVIOUS
    <2>2. CASE e \in reported /\ e.oneshot
      BY <2>1, <2>2 DEF EntryType
    <2>3. CASE ~(e \in reported /\ e.oneshot)
      BY <2>1, <2>3
    <2> QED  BY <2>2, <2>3
  <1> HIDE DEF put, r
  <1>3. OnePerFd(r)
    <2> SUFFICES ASSUME NEW c \in r, NEW d \in r, c.fd = d.fd PROVE c = d
      BY DEF OnePerFd
    <2>1. PICK x \in table : c = put(x)
      BY <1>1
    <2>2. PICK y \in table : d = put(y)
      BY <1>1
    <2>3. x.fd = y.fd
      BY <1>2, <2>1, <2>2
    <2>4. x = y
      BY <2>3 DEF OnePerFd
    <2> QED  BY <2>1, <2>2, <2>4
  <1>4. ASSUME NEW e \in r
        PROVE  \E d \in table : e.fd = d.fd /\ e.is_sock = d.is_sock /\ e.handle = d.handle
    <2>1. PICK d \in table : e = put(d)
      BY <1>1
    <2> QED  BY <1>2, <2>1
  <1> QED  BY <1>3, <1>4 DEF r

(* A scan of instance i.                                                    *)
LEMMA RegScan ==
    ASSUME PollInv, RegInv, NEW i \in EpollSlot, NEW reported, UNCHANGED <<fds, left>>,
           epolls' = [epolls EXCEPT ![i].table = Disarmed(epolls[i].table, reported)]
    PROVE  RegInv'
  <1> DEFINE table == Disarmed(epolls[i].table, reported)
  <1>1. epolls \in [EpollSlot -> EpollType] /\ epolls[i].table \in SUBSET EntryType
    BY DEF PollInv, PipeInv, PollTypeOK, EpollType
  <1>2. /\ OnePerFd(table)
        /\ \A e \in table : \E d \in epolls[i].table :
              e.fd = d.fd /\ e.is_sock = d.is_sock /\ e.handle = d.handle
    BY <1>1, DisarmedCurrent DEF RegInv
  <1>3. epolls'[i].table = table /\ \A j \in EpollSlot : j # i => epolls'[j] = epolls[j]
    BY <1>1 DEF EpollType
  <1> HIDE DEF table
  <1>4. ASSUME NEW j \in EpollSlot PROVE OnePerFd(epolls[j].table)'
    <2>1. CASE j = i
      BY <1>2, <1>3, <2>1 DEF OnePerFd
    <2>2. CASE j # i
      BY <1>3, <2>2 DEF RegInv, OnePerFd
    <2> QED  BY <2>1, <2>2
  <1>5. ASSUME NEW j \in EpollSlot, NEW e \in epolls'[j].table
        PROVE  e.fd \in left[j] \/ Describes(e)'
    <2>1. PICK d \in epolls[j].table : e.fd = d.fd /\ e.is_sock = d.is_sock /\ e.handle = d.handle
      BY <1>2, <1>3, <1>5
    <2>2. d.fd \in left[j] \/ Describes(d)
      BY DEF RegInv
    <2> QED  BY <2>1, <2>2 DEF Describes, fd_is_socket
  <1> QED  BY <1>4, <1>5 DEF RegInv

LEMMA RegCtl ==
    ASSUME PollInv, RegInv, NEW t \in Thread, NEW i \in EpollSlot, NEW f \in Fd,
           runtime_sys_epoll_ctl(t, i, f)
    PROVE  RegInv'
  <1>1. fds' = fds /\ left' = [left EXCEPT ![i] = @ \ {f}]
    BY DEF runtime_sys_epoll_ctl
  <1>2. /\ epolls \in [EpollSlot -> EpollType] /\ epolls[i].table \in SUBSET EntryType
        /\ PollTypeOK /\ OnePerFd(epolls[i].table)
    BY DEF PollInv, PipeInv, PollTypeOK, EpollType, RegInv
  <1>3. /\ left' \in [EpollSlot -> SUBSET Fd] /\ left'[i] = left[i] \ {f}
        /\ \A j \in EpollSlot : j # i => left'[j] = left[j]
    BY <1>1 DEF RegInv
  <1>4. ASSUME NEW oneshot \in BOOLEAN, fds[f].kind # "free",
               epolls' = [epolls EXCEPT ![i].table =
                             runtime_epoll_table_set(epolls[i].table, f, {"in"}, oneshot)]
        PROVE  RegInv'
    <2> DEFINE table == runtime_epoll_table_set(epolls[i].table, f, {"in"}, oneshot)
    <2>1. /\ OnePerFd(table)
          /\ \A e \in table : \/ e \in epolls[i].table /\ e.fd # f
                              \/ /\ e.fd = f /\ e.is_sock = fd_is_socket(f)
                                 /\ e.handle = fds[f].handle
      BY <1>2, SetCurrent
    <2>2. epolls'[i].table = table /\ \A j \in EpollSlot : j # i => epolls'[j] = epolls[j]
      BY <1>2, <1>4 DEF EpollType
    <2> HIDE DEF table
    <2>3. ASSUME NEW j \in EpollSlot PROVE OnePerFd(epolls[j].table)'
      <3>1. CASE j = i
        BY <2>1, <2>2, <3>1 DEF OnePerFd
      <3>2. CASE j # i
        BY <2>2, <3>2 DEF RegInv, OnePerFd
      <3> QED  BY <3>1, <3>2
    <2>4. ASSUME NEW j \in EpollSlot, NEW e \in epolls'[j].table
          PROVE  e.fd \in left'[j] \/ Describes(e)'
      <3>1. CASE e \in epolls[j].table /\ (j = i => e.fd # f)
        <4>1. e.fd \in left[j] \/ Describes(e)
          BY <3>1 DEF RegInv
        <4>2. Describes(e) => Describes(e)'
          BY <1>1 DEF Describes, fd_is_socket
        <4> QED  BY <1>3, <3>1, <4>1, <4>2
      <3>2. CASE e.fd = f /\ e.is_sock = fd_is_socket(f) /\ e.handle = fds[f].handle
        BY <1>1, <1>4, <3>2 DEF Describes, fd_is_socket
      <3> QED  BY <2>1, <2>2, <3>1, <3>2
    <2> QED  BY <1>3, <2>3, <2>4 DEF RegInv
  <1>5. ASSUME epolls' = [epolls EXCEPT ![i].table =
                             runtime_epoll_table_remove(epolls[i].table, f)]
        PROVE  RegInv'
    <2>1. /\ epolls'[i].table = runtime_epoll_table_remove(epolls[i].table, f)
          /\ \A j \in EpollSlot : j # i => epolls'[j] = epolls[j]
      BY <1>2, <1>5 DEF EpollType
    <2>2. \A e \in epolls'[i].table : e \in epolls[i].table /\ e.fd # f
      BY <2>1 DEF runtime_epoll_table_remove
    <2>3. ASSUME NEW j \in EpollSlot, NEW e \in epolls'[j].table
          PROVE  /\ e \in epolls[j].table
                 /\ e.fd \in left[j] => e.fd \in left'[j]
                 /\ fds'[e.fd] = fds[e.fd]
      BY <1>1, <1>3, <2>1, <2>2
    <2> QED  BY <1>3, <2>3, RegShrinks
  <1> QED  BY <1>4, <1>5, Zenon DEF runtime_sys_epoll_ctl

LEMMA RegClose ==
    ASSUME PollInv, RegInv, NEW t \in Thread, NEW f \in Fd, Close(t, f)
    PROVE  RegInv'
  <1>1. /\ fds' = [fds EXCEPT ![f] = Closed]
        /\ epolls' = [i \in EpollSlot |-> IF epolls[i].epfd = f THEN FreeEpoll ELSE epolls[i]]
        /\ left' = [i \in EpollSlot |->
                       IF epolls[i].epfd = f THEN {}
                       ELSE left[i] \cup {e.fd : e \in {d \in epolls[i].table : d.fd = f}}]
    BY DEF Close, epoll_close
  <1>2. fds \in [Fd -> FdType] /\ epolls \in [EpollSlot -> EpollType]
    BY DEF PollInv, PipeInv, PollTypeOK
  <1>3. \A i \in EpollSlot : {e.fd : e \in {d \in epolls[i].table : d.fd = f}} \subseteq {f}
    OBVIOUS
  <1>4. left' \in [EpollSlot -> SUBSET Fd]
    BY <1>1, <1>3 DEF RegInv
  <1>5. ASSUME NEW i \in EpollSlot, NEW e \in epolls'[i].table
        PROVE  /\ e \in epolls[i].table
               /\ e.fd \in left[i] => e.fd \in left'[i]
               /\ fds'[e.fd] = fds[e.fd] \/ e.fd \in left'[i]
    <2>1. epolls[i].epfd # f /\ e \in epolls[i].table
      BY <1>1, <1>5 DEF FreeEpoll
    <2>2. left'[i] = left[i] \cup {x.fd : x \in {d \in epolls[i].table : d.fd = f}}
      BY <1>1, <2>1
    <2>3. e.fd \in Fd
      BY <1>2, <2>1 DEF EpollType, EntryType
    <2>4. CASE e.fd = f
      <3>1. e.fd \in {x.fd : x \in {d \in epolls[i].table : d.fd = f}}
        BY <2>1, <2>4
      <3> QED  BY <2>1, <2>2, <3>1
    <2>5. CASE e.fd # f
      BY <1>1, <1>2, <2>1, <2>2, <2>3, <2>5
    <2> QED  BY <2>4, <2>5
  <1> QED  BY <1>4, <1>5, RegShrinks

LEMMA RegOpens ==
    ASSUME PollInv, RegInv, NEW t \in Thread,
           OpenPipe(t) \/ OpenSocket(t) \/ runtime_sys_epoll_create1(t)
    PROVE  RegInv'
  <1>1. fds \in [Fd -> FdType] /\ epolls \in [EpollSlot -> EpollType]
    BY DEF PollInv, PipeInv, PollTypeOK
  <1>2. \A i \in EpollSlot : \A e \in epolls[i].table : e.fd \in Fd
    BY <1>1 DEF EpollType, EntryType
  <1>3. CASE OpenPipe(t)
    <2>1. epolls' = epolls /\ left' = left
      BY <1>3 DEF OpenPipe
    <2>2. PICK nonblock \in BOOLEAN : runtime_sys_pipe2(nonblock)
      BY <1>3 DEF OpenPipe
    <2> DEFINE first == Min(FreeFds)
    <2> DEFINE second == Min(FreeFds \ {first})
    <2>0. IsFiniteSet(FreeFds) /\ Cardinality(FreeFds) \in Nat
      BY FreeFdFacts, FS_CardinalityType DEF PollInv
    <2>3. \/ fds' = fds
          \/ /\ ~(Cardinality(FreeFds) < 2)
             /\ fds' = [fds EXCEPT
                  ![first] = [Closed EXCEPT !.kind = "pipe_r", !.nonblock = nonblock],
                  ![second] = [Closed EXCEPT !.kind = "pipe_w", !.nonblock = nonblock]]
      BY <2>2, Zenon DEF runtime_sys_pipe2
    <2>4. Cardinality(FreeFds) >= 2 => first \in FreeFds /\ second \in FreeFds
      BY FreeFdFacts DEF PollInv
    <2> HIDE DEF first, second
    <2>5. \A g \in Fd : fds[g].kind # "free" => fds'[g] = fds[g]
      BY <1>1, <2>0, <2>3, <2>4 DEF FreeFds
    <2> QED  BY <1>2, <2>1, <2>5, RegAlloc
  <1>4. CASE OpenSocket(t)
    <2>1. epolls' = epolls /\ left' = left
      BY <1>4 DEF OpenSocket
    <2>2. FreeFds # {} /\ \E h : fds' = runtime_fd_alloc_ops("sock", FALSE, h)
      BY <1>4 DEF OpenSocket
    <2>3. fds[Min(FreeFds)].kind = "free"
      BY <2>2, FreeFdFacts DEF PollInv
    <2>4. \A g \in Fd : fds[g].kind # "free" => fds'[g] = fds[g]
      BY <1>1, <2>2, <2>3 DEF runtime_fd_alloc_ops
    <2> QED  BY <1>2, <2>1, <2>4, RegAlloc
  <1>5. CASE runtime_sys_epoll_create1(t)
    <2> DEFINE new == [FreeEpoll EXCEPT !.epfd = Min(FreeFds)]
    <2>1. PICK i \in EpollSlot : epolls' = [epolls EXCEPT ![i] = new]
      BY <1>5 DEF runtime_sys_epoll_create1
    <2>2. /\ FreeFds # {} /\ left' = left
          /\ fds' = runtime_fd_alloc_ops("epoll", FALSE, NoHandle)
      BY <1>5 DEF runtime_sys_epoll_create1
    <2>3. new.table = {}
      BY DEF FreeEpoll
    <2> HIDE DEF new
    <2>4. \A j \in EpollSlot : epolls'[j].table \subseteq epolls[j].table
      BY <1>1, <2>1, <2>3
    <2>5. fds[Min(FreeFds)].kind = "free"
      BY <2>2, FreeFdFacts DEF PollInv
    <2>6. \A g \in Fd : fds[g].kind # "free" => fds'[g] = fds[g]
      BY <1>1, <2>2, <2>5 DEF runtime_fd_alloc_ops
    <2> QED  BY <1>2, <2>2, <2>4, <2>6, RegAlloc
  <1> QED  BY <1>3, <1>4, <1>5

LEMMA RegStep ==
    ASSUME PollInv, RegInv, [PollNext]_pollVars
    PROVE  RegInv'
  <1>1. ASSUME NEW t \in Thread, NEW i \in EpollSlot,
               runtime_sys_epoll_pwait(t, i) \/ EpollRescan(t, i)
        PROVE  RegInv'
    <2>1. UNCHANGED <<fds, left>>
      BY <1>1 DEF runtime_sys_epoll_pwait, EpollRescan
    <2>2. PICK reported : epolls' = [epolls EXCEPT ![i].table = Disarmed(epolls[i].table, reported)]
      BY <1>1, Zenon DEF runtime_sys_epoll_pwait, EpollRescan
    <2> QED  BY <2>1, <2>2, RegScan
  <1>2. ASSUME NEW t \in Thread, NEW f \in Fd,
               \/ pipe_write(t, f) \/ pipe_read(t, f)
               \/ runtime_sys_ppoll(t, f) \/ runtime_sys_pselect6(t, f)
        PROVE  RegInv'
    <2>1. UNCHANGED <<fds, epolls, left>>
      BY <1>2, Zenon DEF pipe_write, pipe_read, runtime_sys_ppoll, runtime_sys_pselect6, PollOnce
    <2> QED  BY <2>1, RegSame
  <1>3. ASSUME NEW t \in Thread, ResumeWaiter(t) PROVE RegInv'
    BY <1>3, RegSame DEF ResumeWaiter
  <1>4. ASSUME NEW t \in Thread, Step(t) PROVE RegInv'
    BY <1>1, <1>2, <1>3, <1>4, RegCtl, RegClose, RegOpens, Zenon DEF Step
  <1>5. CASE Notified
    BY <1>5, RegSame DEF Notified
  <1>6. CASE UNCHANGED pollVars
    BY <1>6, RegSame DEF pollVars
  <1> QED  BY <1>4, <1>5, <1>6 DEF PollNext

(* On any number of instances, descriptors and handles a registration       *)
(* describes its descriptor as it is now, unless that was closed and not    *)
(* registered again since (runtime_sys_poll.c:20-22).                       *)
THEOREM RegistrationCurrent == PollSpec => []RegistrationIsCurrent
  <1>1. PollInit => RegInv
    <2> SUFFICES ASSUME PollInit PROVE RegInv
      OBVIOUS
    <2>1. left = [i \in EpollSlot |-> {}] /\ epolls = [i \in EpollSlot |-> FreeEpoll]
      BY DEF PollInit
    <2>2. FreeEpoll.table = {}
      BY DEF FreeEpoll
    <2> QED  BY <2>1, <2>2 DEF RegInv, OnePerFd
  <1>2. PollInv /\ RegInv /\ [PollNext]_pollVars => RegInv'
    BY RegStep
  <1>3. RegInv => RegistrationIsCurrent
    BY DEF RegInv, OnePerFd, Describes, RegistrationIsCurrent
  <1> QED  BY <1>1, <1>2, <1>3, PollInvariance, PTL DEF PollSpec
===============================================================================
