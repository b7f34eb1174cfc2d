----------------------------- MODULE RootProofs -----------------------------
(***************************************************************************)
(* Proofs about module Root. Root implements module Supervisor: whatever   *)
(* Root publishes and whatever the BEAM requests, every callback is one of *)
(* the supervision steps, so what SupervisorProofs establishes also holds  *)
(* of Root. The page and the command channel follow from one inductive     *)
(* invariant, RootInv.                                                     *)
(***************************************************************************)
EXTENDS Root, SupervisorProofs

(* A request that decide_restart accepts names a live driver.              *)
LEMMA ActIsLiveDriver ==
    ASSUME NEW q \in RestartRequests, root_command_decide(q).result = "act"
    PROVE  q.child \in Driver
<1>1. q.op = "restart"
  BY DEF RestartRequests
<1>2. class_result(q) = "act"
  BY <1>1 DEF root_command_decide
<1>3. decide_restart(q) = "act"
  BY <1>1, <1>2 DEF class_result
<1>4. QED
  BY <1>3 DEF decide_restart

(* Root refines Supervisor: the commands, the publication and the retry    *)
(* fence add no supervision step of their own.                             *)
THEOREM RootImplementsSupervisor == RootSpec => SupSpec
<1>1. RootInit => SupInit
  BY DEF RootInit
<1>2. ASSUME [RootNext]_rootVars
      PROVE  [SupNext]_supVars
  <2>1. ASSUME NEW c \in Child, Fault(c)
        PROVE  SupNext
    BY <2>1, Zenon DEF Fault, SupNext
  <2>2. ASSUME NEW c \in Driver, DebugRestart(c) \/ FaultInject(c)
        PROVE  SupNext
    BY <2>2, Zenon DEF DebugRestart, FaultInject, SupNext
  <2>3. ASSUME NEW q \in Requests, ProtectedAnswer(q)
        PROVE  UNCHANGED supVars
    BY <2>3, Zenon DEF ProtectedAnswer
  <2>4. ASSUME NEW q \in RestartRequests, ProtectedRestart(q)
        PROVE  SupNext
    <3>1. q.child \in Driver /\ SupCommandRestart(q.child)
      BY <2>4, ActIsLiveDriver, Zenon DEF ProtectedRestart
    <3>2. QED
      BY <3>1, Zenon DEF SupNext
  <2>5. CASE root_command_frame
    BY <2>5, Zenon DEF root_command_frame
  <2>6. CASE Environment
    BY <2>6, Zenon DEF Environment, SupNext
  <2>7. CASE UNCHANGED rootVars
    BY <2>7 DEF rootVars, supVars
  <2>8. QED
    BY <1>2, <2>1, <2>2, <2>3, <2>4, <2>5, <2>6, <2>7, Zenon DEF RootNext
<1>3. QED
  BY <1>1, <1>2, PTL DEF RootSpec, SupSpec

-----------------------------------------------------------------------------
(* The publisher and the page it writes.                                   *)
StatusType ==
    [enabled : BOOLEAN, seq : Nat, incarnation : Nat, budget : [Child -> Nat],
     generation : Nat, dirty : BOOLEAN, down : [Child -> BOOLEAN]]

RowType ==
    [state : {"live", "gone"}, lifetime : Nat, window : Nat, budget : Nat, down : BOOLEAN]

PageType == [seq : Nat, incarnation : Nat, generation : Nat, row : [Child -> RowType]]

(* A publisher that is enabled holds the policy Root retained and the      *)
(* BEAM's incarnation, and has no policy left to publish.                  *)
PublisherCurrent(st, s, rec) ==
    /\ st.budget = Budgets(s) /\ st.generation = s.generation
    /\ st.incarnation = 1 + rec[Beam].lifetime

(* Requests performed so far were decided on sequences already left behind.*)
DoneIsPast ==
    /\ \A d \in done : d.request \in RestartRequests
    /\ status.enabled => \A d \in done : d.request.view.seq < status.seq

RootInv ==
    /\ status \in StatusType /\ page \in PageType
    /\ status.enabled => ~status.dirty /\ PublisherCurrent(status, spec, record)
    /\ PageIsTruth /\ DownIffGone
    /\ DoneIsPast /\ RequestRunsOnce

(* The budgets a policy gives are numbers, whatever the clock shows.       *)
LEMMA BudgetsTyped ==
    ASSUME NEW s \in [generation : Nat, budget : [Child -> Nat]]
    PROVE  /\ Budgets(s) \in [Child -> Nat]
           /\ \A c \in Child : Budgets(s)[c] = root_status_budget(s, c)
<1>1. ASSUME NEW c \in Child
      PROVE  root_status_budget(s, c) \in Nat
  BY CeilingBound, BudgetAssumption DEF root_status_budget
<1>2. QED
  BY <1>1 DEF Budgets

(* The clock moves or is lost, the budgets stay what they were.            *)
LEMMA BudgetsFixed ==
    ASSUME NEW s \in [generation : Nat, budget : [Child -> Nat]], s = spec'
    PROVE  /\ Budgets(spec)' = Budgets(s)
           /\ \A c \in Child : root_status_budget(spec, c)' = root_status_budget(s, c)
<1>1. ASSUME NEW c \in Child
      PROVE  root_status_budget(spec, c)' = root_status_budget(s, c)
  <2>1. root_restart_ceiling(s, root_restart_inputs_for(c, clock)) =
        root_restart_ceiling(s, root_restart_inputs_for(c, clock'))
    BY CeilingBound
  <2>2. QED
    BY <2>1 DEF root_status_budget
<1>2. QED
  BY <1>1 DEF Budgets

(* Once the clock is lost it stays lost.                                   *)
LEMMA ClockOnlyLost ==
    ASSUME SupTypeOK, NEW c \in Child, root_restart_child(c), clock'.available
    PROVE  clock.available
<1> DEFINE clk == root_clock_observe(clock, now)
<1>1. clk \in [available : BOOLEAN, last : Nat]
  BY ObserveFacts DEF SupTypeOK
<1>2. PICK b : clock' = [clk EXCEPT !.available = clk.available /\ b]
  BY Zenon DEF root_restart_child
<1>3. clk.available
  BY <1>1, <1>2
<1>4. QED
  BY <1>3 DEF root_clock_observe, SupTypeOK

(* Which of its three outcomes a restart request had is what Resumed and   *)
(* GaveUp tell.                                                            *)
LEMMA OutcomeIsSeen ==
    ASSUME SupTypeOK, NEW c \in Child
    PROVE  /\ Ignored(c) => ~Resumed(c) /\ ~GaveUp(c) /\ record' = record
                             /\ record[c].state = "gone"
           /\ GivenUp(c) => /\ ~Resumed(c) /\ GaveUp(c)
                             /\ record'[c].state = "gone" /\ record[c].state = "live"
           /\ Restarted(c) => /\ Resumed(c) /\ record'[c].state = "live"
                               /\ record'[c].lifetime = record[c].lifetime + 1
           /\ GivenUp(c) \/ Restarted(c) =>
                 \A k \in Child : k # c => record'[k] = record[k]
           /\ GivenUp(c) => record'[c].lifetime = record[c].lifetime
<1>1. record[c] \in RecordType /\ record \in [Child -> RecordType]
  BY DEF SupTypeOK
<1>2. record[c].lifetime \in Nat
  BY <1>1, BudgetAssumption DEF RecordType
<1>3. Ignored(c) => ~Resumed(c) /\ ~GaveUp(c) /\ record' = record /\ record[c].state = "gone"
  BY <1>2 DEF Ignored, Resumed, GaveUp
<1>4. ASSUME GivenUp(c)
      PROVE  /\ ~Resumed(c) /\ GaveUp(c) /\ record'[c].lifetime = record[c].lifetime
             /\ record'[c].state = "gone" /\ record[c].state = "live"
             /\ \A k \in Child : k # c => record'[k] = record[k]
  <2>1. PICK r \in RecordType : /\ record' = [record EXCEPT ![c] = r]
                                /\ r.state = "gone" /\ r.lifetime = record[c].lifetime
    BY <1>4, Zenon DEF GivenUp
  <2>2. record'[c] = r /\ record[c].state = "live"
    BY <1>1, <1>4, <2>1, Zenon DEF GivenUp
  <2>3. \A k \in Child : k # c => record'[k] = record[k]
    BY <1>1, <2>1, Zenon
  <2>4. QED
    BY <1>2, <2>1, <2>2, <2>3 DEF Resumed, GaveUp
<1>5. ASSUME Restarted(c)
      PROVE  /\ Resumed(c) /\ record'[c].state = "live"
             /\ record'[c].lifetime = record[c].lifetime + 1
             /\ \A k \in Child : k # c => record'[k] = record[k]
  <2>1. PICK r \in RecordType : /\ record' = [record EXCEPT ![c] = r]
                                /\ r.state = "live" /\ r.lifetime = record[c].lifetime + 1
    BY <1>5, Zenon DEF Restarted
  <2>2. record'[c] = r
    BY <1>1, <2>1, Zenon
  <2>3. \A k \in Child : k # c => record'[k] = record[k]
    BY <1>1, <2>1, Zenon
  <2>4. QED
    BY <1>2, <2>1, <2>2, <2>3 DEF Resumed
<1>6. QED
  BY <1>3, <1>4, <1>5, Zenon

(* What a restart request leaves in the publisher's notes before it is     *)
(* published: st is what the callback noted before.                        *)
NotesOk(st, c, n) ==
    /\ n \in StatusType /\ n.seq = st.seq /\ (n.enabled => st.enabled)
    /\ IF spec' = spec
       THEN n.budget = st.budget /\ n.generation = st.generation /\ n.dirty = st.dirty
       ELSE n.budget = Budgets(spec') /\ n.generation = spec'.generation /\ n.dirty
    /\ \A k \in Child : k # c => n.down[k] = st.down[k]
    /\ Ignored(c) => n.down[c] = st.down[c]
    /\ GivenUp(c) => n.down[c] = (st.down[c] \/ clock'.available)
    /\ Restarted(c) => ~n.down[c]
    /\ n.enabled /\ st.incarnation = 1 + record[Beam].lifetime =>
          n.incarnation = 1 + record'[Beam].lifetime

LEMMA NoteFacts ==
    ASSUME SupTypeOK, NEW c \in Child, NEW st \in StatusType, root_restart_child(c)
    PROVE  NotesOk(st, c, NoteRestartChild(st, c))
<1> DEFINE noted == IF spec' = spec THEN st ELSE root_status_note_policy(st, spec')
<1> DEFINE n == NoteRestartChild(st, c)
<1>1. /\ spec' \in [generation : Nat, budget : [Child -> Nat]]
      /\ clock' \in [available : BOOLEAN, last : Nat]
      /\ Ignored(c) \/ GivenUp(c) \/ Restarted(c)
  BY RestartChildFacts
<1>2. /\ noted \in StatusType /\ noted.seq = st.seq /\ noted.enabled = st.enabled
      /\ noted.down = st.down /\ noted.incarnation = st.incarnation
      /\ IF spec' = spec
         THEN noted.budget = st.budget /\ noted.generation = st.generation
              /\ noted.dirty = st.dirty
         ELSE noted.budget = Budgets(spec') /\ noted.generation = spec'.generation
              /\ noted.dirty
  <2>1. CASE spec' = spec
    BY <2>1
  <2>2. CASE spec' # spec
    <3>1. Budgets(spec') \in [Child -> Nat] /\ spec'.generation \in Nat
      BY <1>1, BudgetsTyped
    <3>2. noted = [st EXCEPT !.budget = Budgets(spec'), !.generation = spec'.generation,
                             !.dirty = TRUE]
      BY <2>2, Zenon DEF root_status_note_policy
    <3>3. QED
      BY <2>2, <3>1, <3>2 DEF StatusType
  <2>3. QED
    BY <2>1, <2>2
<1>3. n = IF Resumed(c) THEN root_status_note_restart(noted, c)
          ELSE IF GaveUp(c) THEN root_status_note_down(noted, c, clock'.available)
          ELSE noted
  BY Zenon DEF NoteRestartChild
<1>4. record[Beam].lifetime \in Nat /\ Beam \in Child
  BY ChildAssumption, BudgetAssumption DEF SupTypeOK, RecordType
<1> HIDE DEF noted, n
<1>5. CASE Ignored(c)
  <2>1. n = noted /\ record' = record /\ ~GivenUp(c) /\ ~Restarted(c)
    BY <1>3, <1>5, OutcomeIsSeen
  <2>2. QED
    BY <1>2, <1>5, <2>1 DEF NotesOk, n
<1>6. CASE GivenUp(c)
  <2>1. /\ ~Resumed(c) /\ GaveUp(c) /\ ~Ignored(c) /\ ~Restarted(c)
        /\ record'[Beam].lifetime = record[Beam].lifetime
    BY <1>4, <1>6, OutcomeIsSeen
  <2>2. n = [noted EXCEPT !.down = [noted.down EXCEPT ![c] = noted.down[c] \/ clock'.available]]
    BY <1>3, <2>1, Zenon DEF root_status_note_down
  <2> DEFINE b == noted.down[c] \/ clock'.available
  <2>3. b \in BOOLEAN
    BY Zenon
  <2>4. b = (st.down[c] \/ clock'.available)
    BY <1>2, Zenon
  <2> DEFINE dn == [noted.down EXCEPT ![c] = b]
  <2> HIDE DEF b
  <2>5. dn \in [Child -> BOOLEAN] /\ dn[c] = b /\ \A k \in Child : k # c => dn[k] = st.down[k]
    BY <1>2, <2>3 DEF StatusType
  <2>6. n = [noted EXCEPT !.down = dn]
    BY <2>2, Zenon DEF b
  <2> HIDE DEF dn
  <2>7. /\ n \in StatusType /\ n.down = dn /\ n.seq = noted.seq /\ n.enabled = noted.enabled
        /\ n.budget = noted.budget /\ n.generation = noted.generation
        /\ n.dirty = noted.dirty /\ n.incarnation = noted.incarnation
    BY <1>2, <2>5, <2>6, Zenon DEF StatusType
  <2>8. QED
    BY <1>2, <1>6, <2>1, <2>4, <2>5, <2>7, Zenon DEF NotesOk, n
<1>7. CASE Restarted(c)
  <2>1. /\ Resumed(c) /\ ~Ignored(c) /\ ~GivenUp(c)
        /\ c = Beam => record'[Beam].lifetime = record[Beam].lifetime + 1
        /\ c # Beam => record'[Beam].lifetime = record[Beam].lifetime
    BY <1>4, <1>7, OutcomeIsSeen DEF Ignored, GivenUp, GaveUp
  <2> DEFINE dn == [noted.down EXCEPT ![c] = FALSE]
  <2> DEFINE closed == [noted EXCEPT !.down = dn]
  <2>2. dn \in [Child -> BOOLEAN] /\ ~dn[c] /\ \A k \in Child : k # c => dn[k] = st.down[k]
    BY <1>2 DEF StatusType
  <2>3. n = IF c # Beam THEN closed
            ELSE IF noted.incarnation = WordMax THEN [closed EXCEPT !.enabled = FALSE]
            ELSE [closed EXCEPT !.incarnation = closed.incarnation + 1]
    BY <1>3, <2>1, Zenon DEF root_status_note_restart
  <2> HIDE DEF dn
  <2>4. /\ closed \in StatusType /\ closed.down = dn /\ closed.seq = noted.seq
        /\ closed.enabled = noted.enabled /\ closed.budget = noted.budget
        /\ closed.generation = noted.generation
        /\ closed.dirty = noted.dirty /\ closed.incarnation = noted.incarnation
    BY <1>2, <2>2, Zenon DEF StatusType
  <2> HIDE DEF closed
  <2>5. /\ n \in StatusType /\ n.down = dn /\ n.seq = noted.seq
        /\ n.budget = noted.budget /\ n.generation = noted.generation /\ n.dirty = noted.dirty
        /\ n.enabled => noted.enabled
        /\ n.enabled => n.incarnation = IF c = Beam THEN noted.incarnation + 1
                                        ELSE noted.incarnation
    <3>1. CASE c # Beam
      BY <2>3, <2>4, <3>1
    <3>2. CASE c = Beam /\ noted.incarnation = WordMax
      <4>1. n = [closed EXCEPT !.enabled = FALSE]
        BY <2>3, <3>2
      <4>2. QED
        BY <2>4, <4>1 DEF StatusType
    <3>3. CASE c = Beam /\ noted.incarnation # WordMax
      <4>1. n = [closed EXCEPT !.incarnation = closed.incarnation + 1]
        BY <2>3, <3>3
      <4>2. QED
        BY <2>4, <3>3, <4>1 DEF StatusType
    <3>4. QED
      BY <3>1, <3>2, <3>3
  <2>6. n.enabled /\ st.incarnation = 1 + record[Beam].lifetime =>
           n.incarnation = 1 + record'[Beam].lifetime
    BY <1>2, <1>4, <2>1, <2>5
  <2>7. QED
    BY <1>2, <1>7, <2>1, <2>2, <2>5, <2>6, Zenon DEF NotesOk, n
<1>8. QED
  BY <1>1, <1>5, <1>6, <1>7, Zenon DEF n

(* A publication keeps the notes; a publisher that is still enabled has    *)
(* moved the sequence and written the page.                                *)
LEMMA PublishFacts ==
    ASSUME page \in PageType, NEW st \in StatusType, NEW c \in Child, NEW r \in RecordType,
           root_status_publish(st, c, r)
    PROVE  /\ status' \in StatusType /\ page' \in PageType
           /\ status'.down = st.down
           /\ status'.enabled =>
                 /\ st.enabled /\ ~status'.dirty /\ status'.seq = st.seq + 2
                 /\ status'.budget = st.budget /\ status'.generation = st.generation
                 /\ status'.incarnation = st.incarnation
                 /\ page' = PublishedPage(st, page, c, r)
<1> DEFINE pg == PublishedPage(st, page, c, r)
<1>1. CASE ~st.enabled /\ status' = st /\ UNCHANGED page
  BY <1>1
<1>2. CASE st.enabled /\ status' = [st EXCEPT !.enabled = FALSE] /\ UNCHANGED page
  BY <1>2 DEF StatusType
<1>3. CASE /\ st.enabled /\ page' = pg
           /\ status' = [st EXCEPT !.seq = st.seq + 2, !.dirty = FALSE]
  <2>1. /\ status' \in StatusType /\ status'.down = st.down /\ ~status'.dirty
        /\ status'.seq = st.seq + 2 /\ status'.budget = st.budget
        /\ status'.generation = st.generation /\ status'.incarnation = st.incarnation
    <3> DEFINE seq == st.seq + 2
    <3>1. seq \in Nat
      BY DEF StatusType
    <3>2. status' = [st EXCEPT !.seq = seq, !.dirty = FALSE]
      BY <1>3
    <3> HIDE DEF seq
    <3>3. QED
      BY <3>1, <3>2, Zenon DEF StatusType, seq
  <2>2. pg \in PageType
    <3> DEFINE own == [state |-> r.state, lifetime |-> r.lifetime, window |-> r.window,
                       budget |-> st.budget[c], down |-> st.down[c]]
    <3> DEFINE fresh(k) == IF k = c THEN own
                           ELSE IF st.dirty THEN [page.row[k] EXCEPT !.budget = st.budget[k]]
                           ELSE page.row[k]
    <3>1. own \in RowType
      BY BudgetAssumption DEF RowType, RecordType, StatusType
    <3>2. ASSUME NEW k \in Child
          PROVE  fresh(k) \in RowType
      <4>1. page.row[k] \in RowType /\ st.budget[k] \in Nat
        BY DEF PageType, StatusType
      <4>2. [page.row[k] EXCEPT !.budget = st.budget[k]] \in RowType
        BY <4>1 DEF RowType
      <4>3. QED
        BY <3>1, <4>1, <4>2, Zenon
    <3> DEFINE rows == [k \in Child |-> fresh(k)]
    <3> HIDE DEF fresh, own
    <3>3. rows \in [Child -> RowType]
      BY <3>2, Zenon
    <3>4. pg = [seq |-> st.seq + 2, incarnation |-> st.incarnation,
                generation |-> IF st.dirty THEN st.generation ELSE page.generation,
                row |-> rows]
      BY Zenon DEF PublishedPage, fresh, own
    <3> HIDE DEF rows, pg
    <3>5. /\ st.seq + 2 \in Nat /\ st.incarnation \in Nat
          /\ (IF st.dirty THEN st.generation ELSE page.generation) \in Nat
      BY DEF StatusType, PageType
    <3>6. QED
      BY <3>3, <3>4, <3>5, Zenon DEF PageType
  <2> HIDE DEF pg
  <2>3. QED
    BY <1>3, <2>1, <2>2, Zenon DEF pg
<1>4. QED
  BY <1>1, <1>2, <1>3, Zenon DEF root_status_publish

(* Publishing the row of c after noting n makes the page the truth again,  *)
(* given that the notes are and that only c's record changed.              *)
PageFollows ==
    /\ status' \in StatusType /\ page' \in PageType
    /\ status'.enabled => /\ ~status'.dirty /\ PublisherCurrent(status, spec, record)'
                          /\ status.enabled /\ status'.seq = status.seq + 2
    /\ PageIsTruth'

LEMMA PublishKeeps ==
    ASSUME RootInv, SupTypeOK, SupTypeOK', NEW c \in Child, NEW n \in StatusType,
           n.seq = status.seq, n.enabled => status.enabled,
           n.enabled => PublisherCurrent(n, spec', record'),
           n.enabled /\ ~n.dirty => spec' = spec,
           \A k \in Child : k # c => record'[k] = record[k] /\ n.down[k] = status.down[k],
           root_status_publish(n, c, record'[c])
    PROVE  PageFollows /\ status'.down = n.down
<1>1. /\ status \in StatusType /\ page \in PageType /\ record'[c] \in RecordType
      /\ spec' \in [generation : Nat, budget : [Child -> Nat]]
  BY Zenon DEF RootInv, SupTypeOK
<1>2. /\ status' \in StatusType /\ page' \in PageType /\ status'.down = n.down
      /\ status'.enabled =>
                 /\ n.enabled /\ ~status'.dirty /\ status'.seq = n.seq + 2
                 /\ status'.budget = n.budget /\ status'.generation = n.generation
                 /\ status'.incarnation = n.incarnation
                 /\ page' = PublishedPage(n, page, c, record'[c])
  BY <1>1, PublishFacts
<1>3. ASSUME status'.enabled
      PROVE  /\ PublisherCurrent(status, spec, record)'
             /\ status.enabled /\ status'.seq = status.seq + 2
  BY <1>1, <1>2, <1>3, BudgetsFixed DEF PublisherCurrent
<1>4. ASSUME status'.enabled
      PROVE  PageIsTruth'
  <2>1. /\ status.enabled /\ PageIsTruth /\ n.enabled
        /\ n.budget = Budgets(spec') /\ n.generation = spec'.generation
        /\ n.incarnation = 1 + record'[Beam].lifetime
    BY <1>2, <1>4 DEF RootInv, PublisherCurrent
  <2>2. /\ page.generation = spec.generation /\ page.seq % 2 = 0 /\ page.seq = status.seq
        /\ \A k \in Child :
              page.row[k] = [state |-> record[k].state, lifetime |-> record[k].lifetime,
                             window |-> record[k].window,
                             budget |-> root_status_budget(spec, k),
                             down |-> status.down[k]]
    BY <2>1 DEF PageIsTruth
  <2>3. \A k \in Child : n.budget[k] = root_status_budget(spec, k)'
    BY <1>1, <2>1, BudgetsTyped, BudgetsFixed
  <2> DEFINE own == [state |-> record'[c].state, lifetime |-> record'[c].lifetime,
                     window |-> record'[c].window, budget |-> n.budget[c], down |-> n.down[c]]
  <2> DEFINE other(k) == IF n.dirty THEN [page.row[k] EXCEPT !.budget = n.budget[k]]
                         ELSE page.row[k]
  <2> DEFINE rows == [k \in Child |-> IF k = c THEN own ELSE other(k)]
  <2>4. /\ page'.seq = n.seq + 2 /\ page'.incarnation = n.incarnation
        /\ page'.generation = IF n.dirty THEN n.generation ELSE page.generation
        /\ page'.row = rows
    <3>1. page' = [seq |-> n.seq + 2, incarnation |-> n.incarnation,
                   generation |-> IF n.dirty THEN n.generation ELSE page.generation,
                   row |-> rows]
      BY <1>2, <1>4, Zenon DEF PublishedPage
    <3> HIDE DEF rows
    <3>2. QED
      BY <3>1
  <2>5. page'.seq = status'.seq /\ page'.seq % 2 = 0 /\ page'.seq # 0
    <3>1. status.seq \in Nat /\ status.seq % 2 = 0 /\ page'.seq = status.seq + 2
      BY <1>1, <2>2, <2>4 DEF StatusType
    <3>2. status'.seq = status.seq + 2
      BY <1>2, <1>4
    <3>3. QED
      BY <3>1, <3>2
  <2>6. page'.generation = spec'.generation
    BY <2>1, <2>2, <2>4
  <2>7. ASSUME NEW k \in Child
        PROVE  page'.row[k] = [state |-> record'[k].state, lifetime |-> record'[k].lifetime,
                               window |-> record'[k].window,
                               budget |-> root_status_budget(spec, k)',
                               down |-> status'.down[k]]
    <3>1. CASE k = c
      <4>1. page'.row[k] = own
        BY <2>4, <3>1, Zenon
      <4>2. QED
        BY <1>2, <2>3, <3>1, <4>1, Zenon
    <3>2. CASE k # c /\ n.dirty
      <4>1. page'.row[k] = [page.row[k] EXCEPT !.budget = n.budget[k]]
        <5>1. page'.row[k] = other(k)
          BY <2>4, <3>2, Zenon
        <5>2. QED
          BY <3>2, <5>1
      <4>2. page.row[k] = [state |-> record[k].state, lifetime |-> record[k].lifetime,
                           window |-> record[k].window,
                           budget |-> root_status_budget(spec, k), down |-> status.down[k]]
        BY <2>2
      <4>3. [page.row[k] EXCEPT !.budget = n.budget[k]] =
               [state |-> record[k].state, lifetime |-> record[k].lifetime,
                window |-> record[k].window, budget |-> n.budget[k], down |-> status.down[k]]
        BY <4>2
      <4>4. record'[k] = record[k] /\ status'.down[k] = status.down[k]
        BY <1>2, <3>2
      <4>5. QED
        BY <2>3, <4>1, <4>3, <4>4, Zenon
    <3>3. CASE k # c /\ ~n.dirty
      <4>1. page'.row[k] = page.row[k]
        <5>1. page'.row[k] = other(k)
          BY <2>4, <3>3, Zenon
        <5>2. QED
          BY <3>3, <5>1
      <4>2. spec' = spec /\ root_status_budget(spec, k) = root_status_budget(spec, k)'
        BY <1>1, <2>1, <3>3, BudgetsFixed
      <4>3. record'[k] = record[k] /\ status'.down[k] = status.down[k]
        BY <1>2, <3>3
      <4>4. QED
        BY <2>2, <4>1, <4>2, <4>3, Zenon
    <3>4. QED
      BY <3>1, <3>2, <3>3
  <2>8. QED
    BY <2>1, <2>4, <2>5, <2>6, <2>7, Zenon DEF PageIsTruth
<1>5. ~status'.enabled => PageIsTruth'
  BY DEF PageIsTruth
<1>6. QED
  BY <1>2, <1>3, <1>4, <1>5, Zenon DEF PageFollows

(* A callback that goes through root_restart_child. st is what it noted    *)
(* before: nothing, or the fault of c.                                     *)
LEMMA RestartKeeps ==
    ASSUME RootInv, SupTypeOK, SupTypeOK', NEW c \in Child, NEW st \in StatusType,
           st.seq = status.seq, st.enabled = status.enabled, st.dirty = status.dirty,
           st.budget = status.budget, st.generation = status.generation,
           st.incarnation = status.incarnation,
           \A k \in Child : k # c => st.down[k] = status.down[k],
           status.down[c] => st.down[c],
           root_restart_child(c),
           root_status_publish(NoteRestartChild(st, c), c, record'[c])
    PROVE  PageFollows /\ DownIffGone'
<1> DEFINE n == NoteRestartChild(st, c)
<1>1. NotesOk(st, c, n)
  BY NoteFacts
<1>2. Ignored(c) \/ GivenUp(c) \/ Restarted(c)
  BY RestartChildFacts
<1>3. \A k \in Child : k # c => record'[k] = record[k]
  BY <1>2, OutcomeIsSeen
<1> HIDE DEF n
<1>4. n \in StatusType /\ n.seq = status.seq /\ (n.enabled => status.enabled)
  BY <1>1 DEF NotesOk
<1>5. n.enabled => /\ PublisherCurrent(n, spec', record')
                   /\ ~n.dirty => spec' = spec
  BY <1>1, <1>4 DEF NotesOk, PublisherCurrent, RootInv
<1>6. \A k \in Child : k # c => n.down[k] = status.down[k]
  BY <1>1 DEF NotesOk
<1>7. PageFollows /\ status'.down = n.down
  BY <1>3, <1>4, <1>5, <1>6, PublishKeeps DEF n
<1>8. clock'.available => clock.available
  BY ClockOnlyLost
<1>9. ASSUME NEW k \in Child
      PROVE  /\ status'.down[k] => record'[k].state = "gone"
             /\ record'[k].state = "gone" /\ clock'.available => status'.down[k]
  <2>1. /\ status.down[k] => record[k].state = "gone"
        /\ record[k].state = "gone" /\ clock.available => status.down[k]
    BY DEF RootInv, DownIffGone
  <2>2. CASE k # c
    BY <1>3, <1>6, <1>7, <1>8, <2>1, <2>2
  <2>3. CASE k = c /\ Ignored(c)
    BY <1>1, <1>7, <1>8, <2>1, <2>3, OutcomeIsSeen DEF NotesOk
  <2>4. CASE k = c /\ GivenUp(c)
    BY <1>1, <1>7, <2>4, OutcomeIsSeen DEF NotesOk
  <2>5. CASE k = c /\ Restarted(c)
    <3>1. record'[c].state = "live" /\ ~n.down[c]
      BY <1>1, <2>5, OutcomeIsSeen DEF NotesOk
    <3>2. QED
      BY <1>7, <2>5, <3>1
  <2>6. QED
    BY <1>2, <2>2, <2>3, <2>4, <2>5
<1>10. QED
  BY <1>7, <1>9 DEF DownIffGone

LEMMA RootInvInit == RootInit => RootInv
<1> SUFFICES ASSUME RootInit
             PROVE  RootInv
  OBVIOUS
<1>1. SupTypeOK /\ NoSpec \in [generation : Nat, budget : [Child -> Nat]]
  BY TypeInit DEF RootInit, NoSpec
<1>2. PICK mapped \in BOOLEAN : root_status_init(mapped)
  BY DEF RootInit
<1> DEFINE seq == IF mapped THEN 2 ELSE 0
<1> DEFINE down == [c \in Child |-> FALSE]
<1> DEFINE first(c) == [state |-> "live", lifetime |-> 0, window |-> 0,
                        budget |-> status.budget[c], down |-> FALSE]
<1> DEFINE rows == [c \in Child |-> first(c)]
<1>3. /\ status = [enabled |-> mapped, seq |-> seq, incarnation |-> 1,
                   budget |-> Budgets(NoSpec), generation |-> 0, dirty |-> FALSE, down |-> down]
      /\ page = [seq |-> status.seq, incarnation |-> 1, generation |-> 0, row |-> rows]
  BY <1>2, Zenon DEF root_status_init
<1>4. seq \in Nat /\ (mapped => seq = 2) /\ down \in [Child -> BOOLEAN]
      /\ \A c \in Child : ~down[c]
  OBVIOUS
<1>5. /\ Budgets(NoSpec) \in [Child -> Nat]
      /\ \A c \in Child : Budgets(NoSpec)[c] = root_status_budget(NoSpec, c)
  BY <1>1, BudgetsTyped
<1> HIDE DEF seq, down
<1>6. /\ status \in StatusType /\ status.enabled = mapped /\ status.seq = seq
      /\ status.incarnation = 1 /\ status.budget = Budgets(NoSpec) /\ status.generation = 0
      /\ status.dirty = FALSE /\ status.down = down
  BY <1>3, <1>4, <1>5 DEF StatusType
<1>7. \A c \in Child : first(c) \in RowType
  BY <1>5, <1>6 DEF RowType
<1>8. rows \in [Child -> RowType] /\ \A c \in Child : rows[c] = first(c)
  BY <1>7, Zenon
<1> HIDE DEF rows
<1>9. /\ page \in PageType /\ page.seq = seq /\ page.incarnation = 1
      /\ page.generation = 0 /\ page.row = rows
  BY <1>3, <1>4, <1>6, <1>8 DEF PageType
<1>10. /\ spec = NoSpec /\ spec.generation = 0
       /\ \A c \in Child : /\ record[c].state = "live" /\ record[c].lifetime = 0
                           /\ record[c].window = 0
  BY DEF RootInit, SupInit, NoSpec, FreshRecord
<1>11. Beam \in Child
  BY ChildAssumption
<1>12. status.enabled => ~status.dirty /\ PublisherCurrent(status, spec, record)
  BY <1>6, <1>10, <1>11 DEF PublisherCurrent
<1>13. PageIsTruth
  <2>1. \A c \in Child :
           page.row[c] = [state |-> record[c].state, lifetime |-> record[c].lifetime,
                          window |-> record[c].window, budget |-> root_status_budget(spec, c),
                          down |-> status.down[c]]
    BY <1>4, <1>5, <1>6, <1>8, <1>9, <1>10, Zenon
  <2>2. status.enabled => page.seq = status.seq /\ page.seq % 2 = 0 /\ page.seq # 0
    BY <1>4, <1>6, <1>9
  <2>3. page.generation = spec.generation /\ page.incarnation = 1 + record[Beam].lifetime
    BY <1>9, <1>10, <1>11
  <2>4. QED
    BY <2>1, <2>2, <2>3, Zenon DEF PageIsTruth
<1>14. DownIffGone
  BY <1>4, <1>6, <1>10 DEF DownIffGone
<1>15. DoneIsPast /\ RequestRunsOnce
  BY DEF RootInit, root_command_init, DoneIsPast, RequestRunsOnce
<1>16. QED
  BY <1>6, <1>9, <1>12, <1>13, <1>14, <1>15, Zenon DEF RootInv

(* Nothing performed: the sequences of the performed requests stay behind. *)
LEMMA DoneKeeps ==
    ASSUME RootInv, PageFollows \/ status' = status, done' = done
    PROVE  DoneIsPast' /\ RequestRunsOnce'
<1>1. status.seq \in Nat
  BY DEF RootInv, StatusType
<1>2. \A d \in done : d.request.view.seq \in Nat
  BY WordAssumption DEF RootInv, DoneIsPast, RestartRequests
<1>3. QED
  BY <1>1, <1>2 DEF RootInv, PageFollows, DoneIsPast, RequestRunsOnce

(* What decide_restart asks of a request it accepts.                       *)
LEMMA ActFacts ==
    ASSUME NEW q \in RestartRequests, root_command_decide(q).result = "act"
    PROVE  /\ command.memo.request # q
           /\ q.child \in Driver /\ record[q.child].state # "gone" /\ status.enabled
           /\ q.view.seq = status.seq /\ q.view.lifetime = record[q.child].lifetime
<1>1. q.op = "restart"
  BY DEF RestartRequests
<1>2. class_result(q) = "act"
  BY <1>1 DEF root_command_decide
<1>3. decide_restart(q) = "act"
  BY <1>1, <1>2 DEF class_result
<1>4. QED
  BY <1>3, Zenon DEF decide_restart

(* One callback or step of the environment.                                *)
LEMMA RootInvStep ==
    ASSUME RootInv, SupTypeOK, SupTypeOK', [RootNext]_rootVars
    PROVE  RootInv'
<1>1. status \in StatusType /\ Driver \subseteq Child
  BY ChildAssumption DEF RootInv
<1>2. ASSUME PageFollows, DownIffGone', DoneIsPast', RequestRunsOnce'
      PROVE  RootInv'
  BY <1>2 DEF PageFollows, RootInv
<1>3. ASSUME NEW c \in Child, Fault(c)
      PROVE  RootInv'
  <2> DEFINE st == root_status_note_down(status, c, clock.available)
  <2> DEFINE b == status.down[c] \/ clock.available
  <2> DEFINE dn == [status.down EXCEPT ![c] = b]
  <2>1. /\ root_restart_child(c) /\ done' = done
        /\ root_status_publish(NoteRestartChild(st, c), c, record'[c])
    BY <1>3, Zenon DEF Fault, SupFault, NoCommand
  <2>2. st = [status EXCEPT !.down = dn]
    BY Zenon DEF root_status_note_down
  <2>3. b \in BOOLEAN /\ (status.down[c] => b)
    BY Zenon
  <2> HIDE DEF b
  <2>4. /\ dn \in [Child -> BOOLEAN] /\ dn[c] = b
        /\ \A k \in Child : k # c => dn[k] = status.down[k]
    BY <1>1, <2>3 DEF StatusType
  <2> HIDE DEF dn, st
  <2>5. /\ st \in StatusType /\ st.seq = status.seq /\ st.enabled = status.enabled
        /\ st.dirty = status.dirty /\ st.budget = status.budget
        /\ st.generation = status.generation /\ st.incarnation = status.incarnation
        /\ st.down = dn
    BY <1>1, <2>2, <2>4, Zenon DEF StatusType
  <2>6. PageFollows /\ DownIffGone'
    <3>1. /\ status.down[c] => st.down[c]
          /\ \A k \in Child : k # c => st.down[k] = status.down[k]
      BY <2>3, <2>4, <2>5, Zenon
    <3>2. QED
      BY <2>1, <2>5, <3>1, RestartKeeps
  <2>7. QED
    BY <1>2, <2>1, <2>6, DoneKeeps
<1>4. ASSUME NEW c \in Child, root_restart_child(c),
             root_status_publish(NoteRestartChild(status, c), c, record'[c])
      PROVE  PageFollows /\ DownIffGone'
  BY <1>1, <1>4, RestartKeeps
<1>5. ASSUME NEW c \in Driver, DebugRestart(c)
      PROVE  RootInv'
  <2>1. /\ root_restart_child(c) /\ done' = done
        /\ root_status_publish(NoteRestartChild(status, c), c, record'[c])
    BY <1>5, Zenon DEF DebugRestart, SupDebugRestart, NoCommand
  <2>2. QED
    BY <1>1, <1>2, <1>4, <2>1, DoneKeeps
<1>6. ASSUME NEW c \in Driver, FaultInject(c)
      PROVE  RootInv'
  <2>1. /\ record' = record /\ clock' = clock /\ spec' = spec /\ done' = done
        /\ root_status_publish(status, c, record'[c])
    BY <1>6, Zenon DEF FaultInject, SupFaultInject, NoCommand
  <2>2. status.enabled => PublisherCurrent(status, spec', record')
    BY <2>1 DEF RootInv
  <2>3. PageFollows /\ status'.down = status.down
    BY <1>1, <2>1, <2>2, PublishKeeps
  <2>4. DownIffGone'
    BY <2>1, <2>3 DEF RootInv, DownIffGone
  <2>5. QED
    BY <1>2, <2>1, <2>3, <2>4, DoneKeeps
<1>7. ASSUME record' = record, clock' = clock, spec' = spec, status' = status, page' = page,
             done' = done
      PROVE  RootInv'
  <2>1. DoneIsPast' /\ RequestRunsOnce'
    BY <1>7, DoneKeeps
  <2>2. DownIffGone'
    BY <1>7 DEF RootInv, DownIffGone
  <2>3. /\ Budgets(spec)' = Budgets(spec)
        /\ \A c \in Child : root_status_budget(spec, c)' = root_status_budget(spec, c)
    BY <1>7, BudgetsFixed DEF SupTypeOK
  <2>4. status'.enabled => ~status'.dirty /\ PublisherCurrent(status, spec, record)'
    BY <1>7, <2>3 DEF RootInv, PublisherCurrent
  <2>5. PageIsTruth'
    BY <1>7, <2>3, Zenon DEF RootInv, PageIsTruth
  <2>6. QED
    BY <1>7, <2>1, <2>2, <2>4, <2>5, Zenon DEF RootInv
<1>8. ASSUME NEW q \in Requests, ProtectedAnswer(q)
      PROVE  RootInv'
  BY <1>7, <1>8, Zenon DEF ProtectedAnswer, supVars
<1>9. ASSUME NEW q \in RestartRequests, ProtectedRestart(q)
      PROVE  RootInv'
  <2> DEFINE values == [kind |-> IF Resumed(q.child) THEN "restart" ELSE "giveup",
                        lifetime |-> record'[q.child].lifetime, seq |-> status'.seq]
  <2>1. /\ root_command_decide(q).result = "act" /\ root_restart_child(q.child)
        /\ root_status_publish(NoteRestartChild(status, q.child), q.child, record'[q.child])
        /\ done' = done \cup {[request |-> q, values |-> values]}
    BY <1>9, Zenon DEF ProtectedRestart, SupCommandRestart
  <2>2. q.child \in Driver /\ status.enabled /\ q.view.seq = status.seq
    BY <2>1, ActFacts
  <2>3. PageFollows /\ DownIffGone'
    BY <1>1, <1>4, <2>1, <2>2
  <2> HIDE DEF values
  <2>4. status.seq \in Nat /\ \A d \in done : d.request.view.seq \in Nat
    BY <1>1, WordAssumption DEF RootInv, DoneIsPast, RestartRequests, StatusType
  <2>5. \A d \in done : d.request.view.seq < status.seq /\ d.request \in RestartRequests
    BY <2>2 DEF RootInv, DoneIsPast
  <2> DEFINE e == [request |-> q, values |-> values]
  <2>6. e.request = q
    OBVIOUS
  <2> HIDE DEF e
  <2>7. done' = done \cup {e}
    BY <2>1 DEF e
  <2>8. \A d \in done : d.request # q
    BY <2>2, <2>4, <2>5
  <2>9. RequestRunsOnce'
    BY <2>6, <2>7, <2>8, Zenon DEF RootInv, RequestRunsOnce
  <2>10. DoneIsPast'
    BY <2>2, <2>3, <2>4, <2>5, <2>6, <2>7 DEF DoneIsPast, PageFollows
  <2>11. QED
    BY <1>2, <2>3, <2>9, <2>10
<1>10. CASE root_command_frame
  BY <1>7, <1>10, Zenon DEF root_command_frame, supVars
<1>11. CASE Environment
  BY <1>7, <1>11, Zenon DEF Environment, ChildFault, CounterMoves, NoCommand
<1>12. CASE UNCHANGED rootVars
  BY <1>7, <1>12, Zenon DEF rootVars
<1>13. QED
  BY <1>3, <1>5, <1>6, <1>8, <1>9, <1>10, <1>11, <1>12, Zenon DEF RootNext

LEMMA RootInvariance == RootSpec => [](RootInv /\ SupTypeOK)
<1>1. RootInit => RootInv /\ SupTypeOK
  BY RootInvInit, TypeInit DEF RootInit
<1>2. RootSpec => []SupTypeOK
  BY RootImplementsSupervisor, TypeCorrect, PTL
<1>3. RootInv /\ SupTypeOK /\ SupTypeOK' /\ [RootNext]_rootVars => RootInv'
  BY RootInvStep
<1>4. QED
  BY <1>1, <1>2, <1>3, PTL DEF RootSpec

-----------------------------------------------------------------------------
(* While Root publishes, the page between two callbacks is the truth about *)
(* every child, the policy and the BEAM's incarnation, whatever children,  *)
(* budgets and specs there are and whichever callback ran                  *)
(* (root_status_publish).                                                  *)
THEOREM PageTruth == RootSpec => []PageIsTruth
<1>1. RootInv => PageIsTruth
  BY DEF RootInv
<1>2. QED
  BY <1>1, RootInvariance, PTL

(* A down interval is open exactly for the children given up on, while the *)
(* clock is usable (root_status_note_fault, note_restart, note_gone).      *)
THEOREM DownTruth == RootSpec => []DownIffGone
<1>1. RootInv => DownIffGone
  BY DEF RootInv
<1>2. QED
  BY <1>1, RootInvariance, PTL

(* A RESTART_CHILD request is performed at most once, however often it is  *)
(* repeated: the sequence it names is left behind by its own publication,  *)
(* and a publisher that stops refuses for good (decide_restart).           *)
THEOREM AtMostOnce == RootSpec => []RequestRunsOnce
<1>1. RootInv => RequestRunsOnce
  BY DEF RootInv
<1>2. QED
  BY <1>1, RootInvariance, PTL

(* Only ProtectedRestart performs a request.                               *)
LEMMA OnlyRestartPerforms ==
    ASSUME [RootNext]_rootVars, done' # done
    PROVE  \E q \in RestartRequests : ProtectedRestart(q)
BY Zenon DEF RootNext, Fault, DebugRestart, FaultInject, NoCommand, ProtectedAnswer,
   root_command_frame, Environment, rootVars

(* Root performs a request only on the view its page shows at that moment  *)
(* (decide_restart compares with its own state, the page is that state).   *)
LEMMA CurrentView ==
    ASSUME RootInv, SupTypeOK, [RootNext]_rootVars
    PROVE  ActsOnCurrentView
<1> SUFFICES ASSUME NEW d \in done' \ done
             PROVE  /\ status.enabled
                    /\ d.request.view.seq = page.seq
                    /\ d.request.view.lifetime = page.row[d.request.child].lifetime
                    /\ page.row[d.request.child].state = "live"
  BY DEF ActsOnCurrentView
<1>1. PICK q \in RestartRequests : ProtectedRestart(q)
  BY OnlyRestartPerforms
<1>2. root_command_decide(q).result = "act" /\ d.request = q
  BY <1>1 DEF ProtectedRestart
<1>3. /\ q.child \in Child /\ record[q.child].state = "live" /\ status.enabled
      /\ q.view.seq = status.seq /\ q.view.lifetime = record[q.child].lifetime
  BY <1>2, ActFacts, ChildAssumption DEF SupTypeOK, RecordType
<1>4. /\ page.seq = status.seq
      /\ page.row[q.child] = [state |-> record[q.child].state,
                              lifetime |-> record[q.child].lifetime,
                              window |-> record[q.child].window,
                              budget |-> root_status_budget(spec, q.child),
                              down |-> status.down[q.child]]
  BY <1>3, Zenon DEF RootInv, PageIsTruth
<1>5. QED
  BY <1>2, <1>3, <1>4

(* A repeated request is answered from the fence with the original words,  *)
(* or postponed by the rate limit, and changes nothing                     *)
(* (root_command_decide before anything else looks at the child).          *)
LEMMA RetryAnswered == RetryIsAnswered
<1>1. ASSUME NEW q \in RestartRequests, command.memo.request = q,
             ProtectedAnswer(q) \/ ProtectedRestart(q)
      PROVE  /\ \/ reply'.result = "rate_limited"
                \/ reply' = [result |-> "already_done", values |-> command.memo.values]
             /\ UNCHANGED <<record, pd, done>>
  <2> DEFINE d == root_command_decide(q)
  <2>1. q.op = "restart"
    BY DEF RestartRequests
  <2>2. decide_restart(q) = "already_done"
    BY <1>1, Zenon DEF decide_restart
  <2>3. class_result(q) = "already_done"
    BY <2>1, <2>2 DEF class_result
  <2>4. d.result \in {"rate_limited", "already_done"}
    BY <2>1, <2>3 DEF root_command_decide
  <2>5. ProtectedAnswer(q)
    BY <1>1, <2>4 DEF ProtectedRestart
  <2>6. /\ reply' = [result |-> d.result,
                     values |-> IF d.result = "already_done" THEN command.memo.values
                                ELSE NoValues]
        /\ UNCHANGED <<record, pd, done>>
    BY <2>5, Zenon DEF ProtectedAnswer, supVars
  <2> HIDE DEF d
  <2>7. QED
    BY <2>4, <2>6
<1>2. QED
  BY <1>1, Zenon DEF RetryIsAnswered

(* A caller may decide on a page that is already old, and may repeat a     *)
(* request whose reply it did not see (root_command_decide).               *)
THEOREM CommandKept == RootSpec => CommandContract
<1>1. ASSUME RootInv, SupTypeOK, [RootNext]_rootVars
      PROVE  ActsOnCurrentView /\ RetryIsAnswered
  BY <1>1, CurrentView, RetryAnswered
<1>2. QED
  BY <1>1, RootInvariance, PTL DEF RootSpec, CommandContract
=============================================================================
