-------------------------- MODULE SupervisorProofs --------------------------
(***************************************************************************)
(* Proofs about module Supervisor, for every set of children, budget and   *)
(* policy. The lemmas say what one plan can return; each theorem is then   *)
(* an induction over the callbacks. The rate bound of the timed selector   *)
(* is a potential argument: a charge costs an interval of the record's own *)
(* stamp.                                                                  *)
(***************************************************************************)
EXTENDS Supervisor, Integers, TLAPS

(* Whole intervals that fit in a span do not exceed it.                    *)
LEMMA DivBound ==
    ASSUME NEW a \in Nat, NEW b \in Nat \ {0}
    PROVE  /\ a \div b \in Nat
           /\ (a \div b) * b <= a
BY SMT

(* Under any typed policy the ceiling of a child is a positive number no   *)
(* larger than the hard maximum, and does not depend on the clock.         *)
LEMMA CeilingBound ==
    ASSUME NEW s \in [generation : Nat, budget : [Child -> Nat]],
           NEW c \in Child, NEW clk, NEW other
    PROVE  /\ root_restart_ceiling(s, root_restart_inputs_for(c, clk)) \in 1 .. HardMax
           /\ root_restart_ceiling(s, root_restart_inputs_for(c, clk)) =
                root_restart_ceiling(s, root_restart_inputs_for(c, other))
BY ChildAssumption, BudgetAssumption, TimedAssumption, SMT
   DEF root_restart_ceiling, root_restart_inputs_for, root_spec_budget, min_u

(* A leak within a consistent record keeps it consistent.                  *)
LEMMA LeakKeeps ==
    ASSUME NEW r \in RecordType, NEW t \in Nat, NEW policy,
           policy.interval = LeakInterval,
           TimedOk(r, policy, t)
    PROVE  LET d == LeakWindow(r, policy.interval, t)
           IN  /\ d \in RecordType
               /\ d.lifetime = r.lifetime /\ d.state = r.state
               /\ d.window <= r.window
               /\ d.valid <=> d.window # 0
               /\ d.valid => d.last <= t
<1> DEFINE leaked == (t - r.last) \div LeakInterval
<1>1. CASE ~r.valid
  BY <1>1 DEF LeakWindow, TimedOk, RecordType
<1>2. CASE r.valid
  <2>1. t - r.last \in Nat
    BY <1>2 DEF TimedOk, RecordType
  <2>2. leaked \in Nat /\ leaked * LeakInterval <= t - r.last
    BY <2>1, DivBound, TimedAssumption
  <2>3. CASE leaked >= r.window
    <3> DEFINE e == [r EXCEPT !.window = 0, !.valid = FALSE]
    <3>1. LeakWindow(r, policy.interval, t) = e
      BY <1>2, <2>3 DEF LeakWindow
    <3>2. e \in RecordType /\ e.lifetime = r.lifetime /\ e.state = r.state /\ e.window = 0
      BY DEF RecordType
    <3>3. e.valid = FALSE
      BY DEF RecordType
    <3>4. e.window <= r.window
      BY <3>2 DEF RecordType
    <3> HIDE DEF e
    <3>5. QED
      BY <3>1, <3>2, <3>3, <3>4
  <2>4. CASE ~(leaked >= r.window)
    <3> DEFINE w == r.window - leaked
    <3> DEFINE l == r.last + leaked * LeakInterval
    <3> DEFINE e == [r EXCEPT !.window = w, !.last = l]
    <3>1. LeakWindow(r, policy.interval, t) = e
      BY <1>2, <2>4 DEF LeakWindow
    <3>2. leaked * LeakInterval \in Nat
      BY <2>2, TimedAssumption
    <3> HIDE DEF leaked
    <3>3. w \in Nat /\ w # 0 /\ w <= r.window /\ l \in Nat /\ l <= t
      BY <2>1, <2>2, <2>4, <3>2 DEF RecordType
    <3> HIDE DEF w, l
    <3>4. /\ e \in RecordType /\ e.lifetime = r.lifetime /\ e.state = r.state
          /\ e.window = w /\ e.last = l /\ e.valid
      BY <1>2, <3>3, Zenon DEF RecordType
    <3> HIDE DEF e
    <3>5. QED
      BY <3>1, <3>3, <3>4
  <2>5. QED
    BY <2>3, <2>4
<1>3. QED
  BY <1>1, <1>2

(* Charging a leaked record with room in its window keeps it consistent.   *)
LEMMA ChargeKeeps ==
    ASSUME NEW d \in RecordType, NEW t \in Nat,
           d.lifetime < HardMax,
           d.valid => d.last <= t,
           d.valid <=> d.window # 0
    PROVE  LET e == ChargeAt(d, t)
           IN  /\ e \in RecordType
               /\ e.lifetime = d.lifetime + 1 /\ e.state = d.state
               /\ e.window = d.window + 1
               /\ e.valid
               /\ e.last <= t
<1> DEFINE l == IF d.window = 0 THEN t ELSE d.last
<1> DEFINE w == d.window + 1
<1> DEFINE n == d.lifetime + 1
<1> DEFINE e == [d EXCEPT !.last = l, !.valid = TRUE, !.window = w, !.lifetime = n]
<1>1. ChargeAt(d, t) = e
  BY Zenon DEF ChargeAt
<1>2. l \in Nat /\ l <= t
  BY DEF RecordType
<1>3. w \in Nat /\ n \in 0 .. HardMax
  BY BudgetAssumption DEF RecordType
<1> HIDE DEF l, w, n
<1>4. /\ e \in RecordType
      /\ e.lifetime = n /\ e.state = d.state /\ e.window = w /\ e.valid /\ e.last = l
  BY <1>2, <1>3, Zenon DEF RecordType
<1>5. QED
  BY <1>1, <1>2, <1>4 DEF w, n

(* The lifetime selector.                                                  *)
LEMMA DecideFacts ==
    ASSUME NEW r \in RecordType, NEW budget \in Nat, NEW entry \in BOOLEAN
    PROVE  LET a == root_restart_decide(r, budget, entry)
           IN  /\ a \in Actions
               /\ a = "ignore_gone" <=> r.state = "gone"
               /\ a = "resume" => r.lifetime < budget /\ entry
BY DEF root_restart_decide, Actions, Giveups, RecordType

(* The timed selector: a consistent record of a live child is never        *)
(* rejected, and what a restart commits is consistent again.               *)
TimedDecisionOk(r, limit, entry, t, d) ==
    /\ d.action \in Actions
    /\ d.error \in BOOLEAN
    /\ r.state = "gone" => ~d.error /\ d.action = "ignore_gone"
    /\ r.state = "live" /\ ~d.error => d.action # "ignore_gone"
    /\ TimedOk(r, TimedPolicy, t) => ~d.error
    /\ d.action = "resume" =>
          /\ r.lifetime < limit
          /\ entry
          /\ d.next \in RecordType
          /\ d.next.lifetime = r.lifetime + 1
          /\ d.next.state = "live"
          /\ TimedOk(d.next, TimedPolicy, t)

LEMMA DecideAtFacts ==
    ASSUME NEW r \in RecordType, NEW limit \in 1 .. HardMax, NEW entry \in BOOLEAN,
           NEW t \in Nat, NEW policy,
           policy.capacity = Capacity, policy.limit = limit, policy.interval = LeakInterval
    PROVE  TimedDecisionOk(r, limit, entry, t, root_restart_decide_at(r, policy, entry, t))
<1> DEFINE d == root_restart_decide_at(r, policy, entry, t)
<1> DEFINE drained == LeakWindow(r, policy.interval, t)
<1>2. /\ TimedPolicy.capacity = Capacity /\ TimedPolicy.limit = LifetimeLimit
      /\ TimedPolicy.interval = LeakInterval
  BY DEF TimedPolicy
<1>3. \A q \in RecordType : TimedOk(q, policy, t) <=> TimedOk(q, TimedPolicy, t)
  BY <1>2, TimedAssumption, limit # 0 DEF TimedOk
<1>4. CASE r.state = "gone"
  <2>1. d = [error |-> FALSE, action |-> "ignore_gone", next |-> r]
    BY <1>4 DEF root_restart_decide_at
  <2>2. QED
    BY <1>4, <2>1 DEF TimedDecisionOk, Actions
<1>5. CASE r.state # "gone" /\ ~TimedOk(r, policy, t)
  <2>1. d = [error |-> TRUE, action |-> "ignore_gone", next |-> r]
    BY <1>5 DEF root_restart_decide_at
  <2>2. QED
    BY <1>3, <1>5, <2>1 DEF TimedDecisionOk, Actions
<1>6. CASE r.state # "gone" /\ TimedOk(r, policy, t)
  <2>1. r.state = "live" /\ r.lifetime \in Nat
    BY <1>6 DEF RecordType
  <2>2. /\ drained \in RecordType
        /\ drained.lifetime = r.lifetime /\ drained.state = r.state
        /\ drained.valid <=> drained.window # 0
        /\ drained.valid => drained.last <= t
    BY <1>6, LeakKeeps
  <2> HIDE DEF drained
  <2>3. CASE r.lifetime >= limit
    <3>1. d = [error |-> FALSE, action |-> "giveup_lifetime", next |-> r]
      BY <1>6, <2>3 DEF root_restart_decide_at
    <3>2. QED
      BY <2>1, <3>1 DEF TimedDecisionOk, Actions, Giveups
  <2>4. CASE r.lifetime < limit /\ drained.window >= Capacity
    <3>1. d = [error |-> FALSE, action |-> "giveup_window", next |-> drained]
      BY <1>6, <2>1, <2>4 DEF root_restart_decide_at, drained
    <3>2. QED
      BY <2>1, <3>1 DEF TimedDecisionOk, Actions, Giveups
  <2>5. CASE r.lifetime < limit /\ drained.window < Capacity /\ ~entry
    <3>0. ~(drained.window >= Capacity)
      BY <2>2, <2>5, TimedAssumption DEF RecordType
    <3>1. d = [error |-> FALSE, action |-> "giveup_no_entry", next |-> drained]
      BY <1>6, <2>1, <2>5, <3>0 DEF root_restart_decide_at, drained
    <3>2. QED
      BY <2>1, <3>1 DEF TimedDecisionOk, Actions, Giveups
  <2>6. CASE r.lifetime < limit /\ drained.window < Capacity /\ entry
    <3>0. ~(drained.window >= Capacity)
      BY <2>2, <2>6, TimedAssumption DEF RecordType
    <3>1. d = [error |-> FALSE, action |-> "resume", next |-> ChargeAt(drained, t)]
      BY <1>6, <2>1, <2>6, <3>0 DEF root_restart_decide_at, drained
    <3>2. drained.lifetime < HardMax
      BY <2>1, <2>2, <2>6, BudgetAssumption
    <3>3. LET e == ChargeAt(drained, t)
          IN  /\ e \in RecordType
              /\ e.lifetime = drained.lifetime + 1 /\ e.state = drained.state
              /\ e.window = drained.window + 1
              /\ e.valid
              /\ e.last <= t
      BY <2>2, <3>2, ChargeKeeps
    <3> DEFINE e == ChargeAt(drained, t)
    <3> HIDE DEF e
    <3>4. e.window <= Capacity /\ e.window # 0
      BY <2>2, <2>6, <3>3, TimedAssumption DEF RecordType, e
    <3>5. TimedOk(e, TimedPolicy, t)
      BY <1>2, <3>3, <3>4, TimedAssumption DEF TimedOk, e
    <3>6. d.error = FALSE /\ d.action = "resume" /\ d.next = e
      BY <3>1 DEF e
    <3>7. /\ e \in RecordType /\ e.lifetime = r.lifetime + 1 /\ e.state = "live"
      BY <2>1, <2>2, <3>3 DEF e
    <3>8. QED
      BY <2>1, <2>6, <3>5, <3>6, <3>7, Zenon DEF TimedDecisionOk, Actions
  <2>7. QED
    BY <2>1, <2>2, <2>3, <2>4, <2>5, <2>6, TimedAssumption DEF RecordType
<1>7. QED
  BY <1>4, <1>5, <1>6

(* One plan p: a gone child is ignored, a live one never is, and a restart *)
(* is within the ceiling and charged once by either selector.              *)
PlanOk(r, ceiling, entry, t, p) ==
    /\ p.action \in Actions
    /\ p.invalid \in BOOLEAN
    /\ p.action = "ignore_gone" <=> r.state = "gone"
    /\ TimedOk(r, TimedPolicy, t) => ~p.invalid
    /\ p.action = "resume" =>
          /\ r.lifetime < ceiling
          /\ entry
          /\ p.next \in RecordType
          /\ p.next.lifetime = r.lifetime + 1
          /\ p.next.state = "live"
          /\ TimedOk(r, TimedPolicy, t) => TimedOk(p.next, TimedPolicy, t)

LEMMA PlanFacts ==
    ASSUME NEW s \in [generation : Nat, budget : [Child -> Nat]],
           NEW c \in Child, NEW r \in RecordType,
           NEW clk \in [available : BOOLEAN, last : Nat]
    PROVE  LET in == root_restart_inputs_for(c, clk)
           IN  PlanOk(r, root_restart_ceiling(s, in), HasEntry[c], clk.last,
                      root_restart_plan(s, r, in))
<1> DEFINE in == root_restart_inputs_for(c, clk)
<1> DEFINE ceiling == root_restart_ceiling(s, in)
<1> DEFINE policy == [in.policy EXCEPT !.limit = ceiling]
<1> DEFINE timed == root_restart_decide_at(r, policy, in.entry, in.now)
<1> DEFINE plain == root_restart_decide(r, ceiling, in.entry)
<1> DEFINE useTime == in.timed /\ in.clockAvailable
<1> DEFINE p == root_restart_plan(s, r, in)
<1>1. ceiling \in 1 .. HardMax
  BY CeilingBound
<1>2. /\ in.entry = HasEntry[c] /\ in.entry \in BOOLEAN
      /\ in.now = clk.last /\ in.now \in Nat
      /\ in.policy = TimedPolicy
  BY ChildAssumption DEF root_restart_inputs_for, TimedPolicy
<1>3. policy.capacity = Capacity /\ policy.limit = ceiling /\ policy.interval = LeakInterval
  BY <1>2 DEF TimedPolicy
<1>4. useTime \in BOOLEAN
  BY ChildAssumption DEF root_restart_inputs_for
<1>5. r.state \in {"live", "gone"} /\ r.lifetime \in 0 .. HardMax
  BY DEF RecordType
<1>6. /\ p.action = IF ~useTime THEN plain
                    ELSE IF timed.error THEN "giveup_budget" ELSE timed.action
      /\ p.invalid = (useTime /\ timed.error)
      /\ p.action = "resume" =>
            p.next = IF useTime THEN timed.next ELSE [r EXCEPT !.lifetime = @ + 1]
  <2> DEFINE action == IF ~useTime THEN plain
                       ELSE IF timed.error THEN "giveup_budget" ELSE timed.action
  <2> DEFINE charged == IF useTime THEN timed.next ELSE [r EXCEPT !.lifetime = @ + 1]
  <2> DEFINE next == CASE action = "resume"  -> charged
                       [] action \in Giveups -> [r EXCEPT !.state = "gone"]
                       [] OTHER              -> r
  <2>1. p = [action |-> action, invalid |-> (useTime /\ timed.error), next |-> next]
    BY Zenon DEF root_restart_plan
  <2>2. action = "resume" => next = charged
    <3> HIDE DEF action, charged
    <3>1. QED
      BY DEF Giveups
  <2> HIDE DEF action, next, useTime, timed, p
  <2>3. p.action = action /\ p.next = next
    BY <2>1
  <2>4. p.invalid = (useTime /\ timed.error)
    BY <2>1, Zenon
  <2>5. QED
    BY <2>2, <2>3, <2>4, Zenon DEF action
<1> HIDE DEF policy, useTime, p, ceiling
<1>7. CASE ~useTime
  <2>1. /\ plain \in Actions
        /\ plain = "ignore_gone" <=> r.state = "gone"
        /\ plain = "resume" => r.lifetime < ceiling /\ in.entry
    BY <1>1, <1>2, DecideFacts, ceiling \in Nat
  <2> HIDE DEF plain
  <2>2. p.action = plain /\ p.invalid = FALSE
    BY <1>6, <1>7, Zenon
  <2>3. ASSUME p.action = "resume"
        PROVE  /\ p.next \in RecordType
               /\ p.next.lifetime = r.lifetime + 1
               /\ p.next.state = "live"
               /\ TimedOk(r, TimedPolicy, clk.last) => TimedOk(p.next, TimedPolicy, clk.last)
    <3> DEFINE n == r.lifetime + 1
    <3>1. n \in 0 .. HardMax
      BY <1>1, <1>5, <2>1, <2>2, <2>3, BudgetAssumption
    <3>2. p.next = [r EXCEPT !.lifetime = n]
      BY <1>6, <1>7, <2>3, Zenon
    <3> HIDE DEF n
    <3>3. /\ p.next \in RecordType /\ p.next.lifetime = n /\ p.next.state = r.state
          /\ p.next.window = r.window /\ p.next.valid = r.valid /\ p.next.last = r.last
      BY <3>1, <3>2, Zenon DEF RecordType
    <3>4. TimedOk(r, TimedPolicy, clk.last) => TimedOk(p.next, TimedPolicy, clk.last)
      BY <3>3, Zenon DEF TimedOk
    <3>5. r.state = "live"
      BY <1>5, <2>1, <2>2, <2>3
    <3>6. QED
      BY <3>3, <3>4, <3>5 DEF n
  <2>4. QED
    BY <1>2, <2>1, <2>2, <2>3 DEF p, ceiling, PlanOk
<1>8. CASE useTime
  <2>1. TimedDecisionOk(r, ceiling, in.entry, in.now, timed)
    BY <1>1, <1>2, <1>3, DecideAtFacts
  <2> HIDE DEF timed
  <2>2. /\ p.action = IF timed.error THEN "giveup_budget" ELSE timed.action
        /\ p.invalid = (useTime /\ timed.error)
        /\ p.action = "resume" => p.next = timed.next
    <3>1. p.action = IF timed.error THEN "giveup_budget" ELSE timed.action
      BY <1>6, <1>8, Zenon
    <3>2. p.action = "resume" => p.next = timed.next
      BY <1>6, <1>8, Zenon
    <3>3. QED
      BY <1>6, <3>1, <3>2, Zenon
  <2>3. CASE timed.error
    <3>1. p.action = "giveup_budget" /\ p.invalid = TRUE
      BY <1>8, <2>2, <2>3, Zenon
    <3>2. r.state = "live" /\ ~TimedOk(r, TimedPolicy, clk.last)
      BY <1>2, <1>5, <2>1, <2>3, Zenon DEF TimedDecisionOk
    <3>3. QED
      BY <3>1, <3>2 DEF p, PlanOk, Actions, Giveups
  <2>4. CASE ~timed.error
    <3>1. p.action = timed.action /\ ~p.invalid /\ (p.action = "resume" => p.next = timed.next)
      BY <2>2, <2>4, Zenon
    <3>2. p.action = "ignore_gone" <=> r.state = "gone"
      BY <1>5, <2>1, <2>4, <3>1, Zenon DEF TimedDecisionOk
    <3>3. p.invalid = FALSE
      BY <2>2, <2>4, Zenon
    <3>4. QED
      BY <1>2, <2>1, <3>1, <3>2, <3>3, Zenon DEF p, ceiling, PlanOk, TimedDecisionOk
  <2>5. QED
    BY <2>3, <2>4
<1>9. QED
  BY <1>7, <1>8

-----------------------------------------------------------------------------
(* The three outcomes of root_restart_child, as the induction steps use    *)
(* them: a gone child is left alone, a live one is given up on, or it is   *)
(* restarted with a charged record.                                        *)
Ignored(c) ==
    /\ record[c].state = "gone"
    /\ UNCHANGED <<record, pd, told, charges>>

GivenUp(c) ==
    /\ record[c].state = "live"
    /\ \E r \in RecordType :
          /\ r.state = "gone"
          /\ r.lifetime = record[c].lifetime
          /\ \A t : TimedOk(record[c], TimedPolicy, t) => TimedOk(r, TimedPolicy, t)
          /\ record' = [record EXCEPT ![c] = r]
    /\ pd' = [pd EXCEPT ![c] = "stopped"]
    /\ told' = IF c \in GoneWired THEN [told EXCEPT ![c] = told[c] + 1] ELSE told
    /\ charges' = charges

Restarted(c) ==
    /\ record[c].state = "live"
    /\ \E r \in RecordType :
          /\ r.state = "live"
          /\ r.lifetime = record[c].lifetime + 1
          /\ r.lifetime <= root_status_budget(spec', c)
          /\ TimedOk(record[c], TimedPolicy, clock.last) => TimedOk(r, TimedPolicy, clock'.last)
          /\ record' = [record EXCEPT ![c] = r]
    /\ pd' = [pd EXCEPT ![c] = "running"]
    /\ told' = told
    /\ \E t \in Nat : charges' = [charges EXCEPT ![c] = Append(charges[c], t)]

(* A later observation does not make a consistent record inconsistent.     *)
LEMMA TimedOkLater ==
    ASSUME NEW r \in RecordType, NEW policy, NEW t \in Nat, NEW u \in Nat, t <= u,
           TimedOk(r, policy, t)
    PROVE  TimedOk(r, policy, u)
<1>1. r.valid => r.last <= u
  BY DEF TimedOk, RecordType
<1>2. QED
  BY <1>1, Zenon DEF TimedOk

(* The observed clock never moves back, whatever the counter does.         *)
LEMMA ObserveFacts ==
    ASSUME NEW clk \in [available : BOOLEAN, last : Nat], NEW t \in Nat
    PROVE  LET o == root_clock_observe(clk, t)
           IN  o \in [available : BOOLEAN, last : Nat] /\ clk.last <= o.last
<1>1. CASE ~clk.available
  <2>1. root_clock_observe(clk, t) = clk
    BY <1>1, Zenon DEF root_clock_observe
  <2>2. clk.last <= clk.last
    OBVIOUS
  <2>3. QED
    BY <2>1, <2>2, Zenon
<1>2. CASE clk.available /\ t < clk.last
  <2> DEFINE o == [clk EXCEPT !.available = FALSE]
  <2>1. root_clock_observe(clk, t) = o
    BY <1>2, Zenon DEF root_clock_observe
  <2>2. o \in [available : BOOLEAN, last : Nat] /\ o.last = clk.last
    OBVIOUS
  <2>3. o.last <= o.last
    BY <2>2
  <2>4. QED
    BY <2>1, <2>2, <2>3, Zenon
<1>3. CASE clk.available /\ ~(t < clk.last)
  BY <1>3 DEF root_clock_observe
<1>4. QED
  BY <1>1, <1>2, <1>3

(* Every call of root_restart_child has one of the three outcomes.         *)
LEMMA RestartChildFacts ==
    ASSUME SupTypeOK, NEW c \in Child, root_restart_child(c)
    PROVE  /\ spec' \in [generation : Nat, budget : [Child -> Nat]]
           /\ clock' \in [available : BOOLEAN, last : Nat]
           /\ clock.last <= clock'.last
           /\ now' = now
           /\ Ignored(c) \/ GivenUp(c) \/ Restarted(c)
<1> DEFINE clk == root_clock_observe(clock, now)
<1> DEFINE in == root_restart_inputs_for(c, clk)
<1> DEFINE plan == root_restart_plan(spec', record[c], in)
<1> DEFINE ceiling == root_restart_ceiling(spec', in)
<1>1. record[c] \in RecordType /\ charges[c] \in Seq(Nat) /\ told[c] \in Nat
  BY DEF SupTypeOK
<1>2. spec' \in [generation : Nat, budget : [Child -> Nat]]
  BY BudgetAssumption, SMTT(30) DEF SupTypeOK, root_restart_child, root_spec_refresh
<1>3. clk \in [available : BOOLEAN, last : Nat] /\ clock.last <= clk.last
  BY ObserveFacts DEF SupTypeOK
<1>4. PlanOk(record[c], ceiling, HasEntry[c], clk.last, plan)
  BY <1>1, <1>2, <1>3, PlanFacts
<1>5. ceiling = root_status_budget(spec', c) /\ ceiling \in 1 .. HardMax
  BY <1>2, CeilingBound DEF root_status_budget
<1>6. clock' = [clk EXCEPT !.available = clk.available /\ ~plan.invalid] /\ now' = now
  BY Zenon DEF root_restart_child
<1>7. \/ plan.action = "ignore_gone" /\ UNCHANGED <<record, pd, told, charges>>
      \/ plan.action \in Giveups /\ root_giveup(c)
      \/ /\ plan.action = "resume"
         /\ record' = [record EXCEPT ![c] = plan.next]
         /\ microkit_pd_restart(c, HasEntry[c])
         /\ charges' = [charges EXCEPT ![c] = Append(charges[c], clk.last)]
         /\ told' = told
  BY Zenon DEF root_restart_child
<1> HIDE DEF clk, in, plan, ceiling
<1>8. clock' \in [available : BOOLEAN, last : Nat] /\ clock'.last = clk.last
  <2> DEFINE a == clk.available /\ ~plan.invalid
  <2>1. a \in BOOLEAN
    OBVIOUS
  <2>2. clock' = [clk EXCEPT !.available = a]
    BY <1>6, Zenon
  <2> HIDE DEF a
  <2>3. QED
    BY <1>3, <2>1, <2>2
<1>9. CASE plan.action = "ignore_gone" /\ UNCHANGED <<record, pd, told, charges>>
  <2>1. record[c].state = "gone"
    BY <1>4, <1>9 DEF PlanOk
  <2>2. QED
    BY <1>2, <1>3, <1>6, <1>8, <1>9, <2>1, Zenon DEF Ignored
<1>10. CASE plan.action \in Giveups /\ root_giveup(c)
  <2> DEFINE r == [record[c] EXCEPT !.state = "gone"]
  <2>1. record[c].state = "live"
    BY <1>1, <1>4, <1>10 DEF PlanOk, Giveups, RecordType
  <2>2. record' = [record EXCEPT ![c] = r]
    BY <1>10, Zenon DEF root_giveup
  <2>3. /\ r \in RecordType /\ r.state = "gone" /\ r.lifetime = record[c].lifetime
        /\ r.window = record[c].window /\ r.valid = record[c].valid /\ r.last = record[c].last
    BY <1>1, Zenon DEF RecordType
  <2> HIDE DEF r
  <2>4. \A t : TimedOk(record[c], TimedPolicy, t) => TimedOk(r, TimedPolicy, t)
    BY <2>3, Zenon DEF TimedOk
  <2>5. /\ pd' = [pd EXCEPT ![c] = "stopped"] /\ charges' = charges
        /\ told' = IF c \in GoneWired THEN [told EXCEPT ![c] = told[c] + 1] ELSE told
    BY <1>10, Zenon DEF root_giveup, microkit_pd_stop
  <2>6. GivenUp(c)
    BY <2>1, <2>2, <2>3, <2>4, <2>5, Zenon DEF GivenUp
  <2>7. QED
    BY <1>2, <1>3, <1>6, <1>8, <2>6, Zenon
<1>11. CASE /\ plan.action = "resume"
            /\ record' = [record EXCEPT ![c] = plan.next]
            /\ microkit_pd_restart(c, HasEntry[c])
            /\ charges' = [charges EXCEPT ![c] = Append(charges[c], clk.last)]
            /\ told' = told
  <2>1. record[c].state = "live"
    BY <1>1, <1>4, <1>11 DEF PlanOk, RecordType
  <2>2. /\ plan.next \in RecordType /\ plan.next.state = "live"
        /\ plan.next.lifetime = record[c].lifetime + 1
        /\ record[c].lifetime < ceiling
        /\ HasEntry[c]
        /\ TimedOk(record[c], TimedPolicy, clk.last) => TimedOk(plan.next, TimedPolicy, clk.last)
    BY <1>4, <1>11, Zenon DEF PlanOk
  <2>3. plan.next.lifetime <= root_status_budget(spec', c)
    BY <1>1, <1>5, <2>2, BudgetAssumption DEF RecordType
  <2>4. TimedOk(record[c], TimedPolicy, clock.last) => TimedOk(plan.next, TimedPolicy, clock'.last)
    BY <1>1, <1>3, <1>8, <2>2, TimedOkLater DEF SupTypeOK
  <2>5. clk.last \in Nat
    BY <1>3
  <2>6. Restarted(c)
    <3>1. pd' = [pd EXCEPT ![c] = "running"]
      BY <1>11, <2>2, Zenon DEF microkit_pd_restart
    <3>2. QED
      BY <1>11, <2>1, <2>2, <2>3, <2>4, <2>5, <3>1, Zenon DEF Restarted
  <2>7. QED
    BY <1>2, <1>3, <1>6, <1>8, <2>6, Zenon
<1>12. QED
  BY <1>7, <1>9, <1>10, <1>11, Zenon

(* One step of the system: a restart request with its outcome, or a step   *)
(* that leaves Root's accounting alone and lets a live child run or fault. *)
PassiveStep ==
    /\ UNCHANGED <<record, told, charges>>
    /\ \/ pd' = pd
       \/ \E c \in Child :
             /\ record[c].state # "gone"
             /\ pd' = [pd EXCEPT ![c] = "doomed"]
       \/ \E c \in Child :
             /\ pd[c] # "stopped"
             /\ pd' = [pd EXCEPT ![c] = "faulted"]

StepOutcome ==
    /\ spec' \in [generation : Nat, budget : [Child -> Nat]]
    /\ clock' \in [available : BOOLEAN, last : Nat]
    /\ clock.last <= clock'.last
    /\ now' \in Nat
    /\ queued' \in SUBSET Child
    /\ \/ \E c \in Child : Ignored(c) \/ GivenUp(c) \/ Restarted(c)
       \/ PassiveStep

LEMMA StepCases ==
    ASSUME SupTypeOK, [SupNext]_supVars
    PROVE  StepOutcome
<1>1. clock.last <= clock.last /\ now \in Nat
  BY DEF SupTypeOK
<1>2. ASSUME NEW c \in Child, root_restart_child(c), queued' \in SUBSET Child
      PROVE  StepOutcome
  BY <1>1, <1>2, RestartChildFacts, Zenon DEF StepOutcome
<1>3. ASSUME NEW c \in Child, SupFault(c)
      PROVE  StepOutcome
  BY <1>2, <1>3 DEF SupFault, SupTypeOK
<1>4. ASSUME NEW c \in Child, ChildFault(c)
      PROVE  StepOutcome
  <2>1. queued' \in SUBSET Child /\ pd[c] # "stopped"
    BY <1>4 DEF ChildFault, SupTypeOK
  <2>2. UNCHANGED <<record, clock, spec, now, told, charges>> /\ pd' = [pd EXCEPT ![c] = "faulted"]
    BY <1>4 DEF ChildFault
  <2>3. PassiveStep
    BY <2>1, <2>2, Zenon DEF PassiveStep
  <2>4. QED
    BY <1>1, <2>1, <2>2, <2>3, Zenon DEF StepOutcome, SupTypeOK
<1>5. ASSUME NEW c \in Driver, SupDebugRestart(c)
      PROVE  StepOutcome
  BY <1>2, <1>5, ChildAssumption DEF SupDebugRestart, Unqueue, SupTypeOK
<1>6. ASSUME NEW c \in Driver, SupFaultInject(c)
      PROVE  StepOutcome
  <2>1. queued' \in SUBSET Child /\ c \in Child /\ record[c].state # "gone"
    BY <1>6, ChildAssumption DEF SupFaultInject, Unqueue, SupTypeOK
  <2>2. UNCHANGED <<record, clock, spec, now, told, charges>> /\ pd' = [pd EXCEPT ![c] = "doomed"]
    BY <1>6, Zenon DEF SupFaultInject, microkit_pd_restart
  <2>3. PassiveStep
    BY <2>1, <2>2, Zenon DEF PassiveStep
  <2>4. QED
    BY <1>1, <2>1, <2>2, <2>3, Zenon DEF StepOutcome, SupTypeOK
<1>7. ASSUME NEW c \in Driver, SupCommandRestart(c)
      PROVE  StepOutcome
  BY <1>2, <1>7, ChildAssumption DEF SupCommandRestart, Unqueue, SupTypeOK
<1>8. CASE CounterMoves
  <2>1. now' \in Nat /\ UNCHANGED <<record, clock, spec, pd, queued, told, charges>>
    BY <1>8, TimedAssumption DEF CounterMoves
  <2>2. QED
    BY <1>1, <2>1, Zenon DEF StepOutcome, PassiveStep, SupTypeOK
<1>9. CASE UNCHANGED supVars
  BY <1>1, <1>9, Zenon DEF supVars, StepOutcome, PassiveStep, SupTypeOK
<1>10. QED
  BY <1>3, <1>4, <1>5, <1>6, <1>7, <1>8, <1>9, Zenon DEF SupNext

-----------------------------------------------------------------------------
(* Root's supervision state stays typed on every image, budget and policy; *)
(* in particular a lifetime count never passes HardMax, so the counters of *)
(* root_child_record cannot wrap (SupTypeOK).                              *)
LEMMA TypeStep ==
    ASSUME SupTypeOK, [SupNext]_supVars
    PROVE  SupTypeOK'
<1>1. StepOutcome
  BY StepCases
<1>2. /\ record \in [Child -> RecordType] /\ pd \in [Child -> PDStates]
      /\ told \in [Child -> Nat] /\ charges \in [Child -> Seq(Nat)]
  BY DEF SupTypeOK
<1>3. ASSUME NEW c \in Child, Ignored(c)
      PROVE  SupTypeOK'
  BY <1>1, <1>2, <1>3, Zenon DEF SupTypeOK, StepOutcome, Ignored
<1>4. ASSUME NEW c \in Child, GivenUp(c)
      PROVE  SupTypeOK'
  <2>1. record' \in [Child -> RecordType]
    BY <1>2, <1>4, Zenon DEF GivenUp
  <2>2. pd' \in [Child -> PDStates] /\ charges' \in [Child -> Seq(Nat)]
    BY <1>2, <1>4, Zenon DEF GivenUp, PDStates
  <2>3. told' \in [Child -> Nat]
    BY <1>2, <1>4 DEF GivenUp
  <2>4. QED
    BY <1>1, <2>1, <2>2, <2>3, Zenon DEF SupTypeOK, StepOutcome
<1>5. ASSUME NEW c \in Child, Restarted(c)
      PROVE  SupTypeOK'
  <2>1. record' \in [Child -> RecordType]
    BY <1>2, <1>5, Zenon DEF Restarted
  <2>2. pd' \in [Child -> PDStates] /\ told' \in [Child -> Nat]
    BY <1>2, <1>5, Zenon DEF Restarted, PDStates
  <2>3. charges' \in [Child -> Seq(Nat)]
    BY <1>2, <1>5 DEF Restarted
  <2>4. QED
    BY <1>1, <2>1, <2>2, <2>3, Zenon DEF SupTypeOK, StepOutcome
<1>6. CASE PassiveStep
  <2>1. pd' \in [Child -> PDStates]
    BY <1>2, <1>6, Zenon DEF PassiveStep, PDStates
  <2>2. QED
    BY <1>1, <1>2, <1>6, <2>1, Zenon DEF SupTypeOK, StepOutcome, PassiveStep
<1>7. QED
  BY <1>1, <1>3, <1>4, <1>5, <1>6, Zenon DEF StepOutcome

LEMMA TypeInit ==
    ASSUME SupInit
    PROVE  SupTypeOK
<1>1. FreshRecord \in RecordType
  BY BudgetAssumption DEF FreshRecord, RecordType
<1>2. record \in [Child -> RecordType]
  BY <1>1, Zenon DEF SupInit
<1>3. /\ spec \in [generation : Nat, budget : [Child -> Nat]] /\ now \in Nat
      /\ queued \in SUBSET Child /\ told \in [Child -> Nat]
  BY DEF SupInit, NoSpec
<1>4. pd \in [Child -> PDStates]
  BY Zenon DEF SupInit, PDStates
<1>5. charges \in [Child -> Seq(Nat)]
  BY DEF SupInit
<1>6. clock \in [available : BOOLEAN, last : Nat]
  <2>1. PICK a \in BOOLEAN : clock = [available |-> a, last |-> 0]
    BY Zenon DEF SupInit
  <2>2. QED
    BY <2>1
<1>7. QED
  BY <1>2, <1>3, <1>4, <1>5, <1>6, Zenon DEF SupTypeOK

(* Type correctness, from the two lemmas: SupTypeOK is inductive.          *)
THEOREM TypeCorrect == SupSpec => []SupTypeOK
<1>1. SupInit => SupTypeOK
  BY TypeInit
<1>2. SupTypeOK /\ [SupNext]_supVars => SupTypeOK'
  BY TypeStep
<1>3. QED
  BY <1>1, <1>2, PTL DEF SupSpec

(* A child is gone exactly when its PD is stopped, and its dependents are  *)
(* told exactly once, over all interleavings of faults, late messages,     *)
(* debug requests, injections and commands (root_giveup).                  *)
THEOREM GoneStoppedAndTold == SupSpec => []GoneIsStoppedAndTold
<1>1. SupInit => GoneIsStoppedAndTold
  BY DEF SupInit, GoneIsStoppedAndTold, FreshRecord
<1>2. ASSUME SupTypeOK, GoneIsStoppedAndTold, [SupNext]_supVars
      PROVE  GoneIsStoppedAndTold'
  <2>1. StepOutcome
    BY <1>2, StepCases
  <2>2. /\ record \in [Child -> RecordType] /\ pd \in [Child -> PDStates]
        /\ told \in [Child -> Nat]
    BY <1>2 DEF SupTypeOK
  <2>3. ASSUME NEW c \in Child, Ignored(c)
        PROVE  GoneIsStoppedAndTold'
    BY <1>2, <2>3, Zenon DEF GoneIsStoppedAndTold, Ignored
  <2>4. ASSUME NEW c \in Child, GivenUp(c)
        PROVE  GoneIsStoppedAndTold'
    <3>1. PICK r \in RecordType : r.state = "gone" /\ record' = [record EXCEPT ![c] = r]
      BY <2>4, Zenon DEF GivenUp
    <3>2. ASSUME NEW d \in Child, d # c
          PROVE  record'[d] = record[d] /\ pd'[d] = pd[d] /\ told'[d] = told[d]
      BY <2>2, <2>4, <3>1, <3>2 DEF GivenUp
    <3>3. record'[c].state = "gone" /\ pd'[c] = "stopped"
      BY <2>2, <2>4, <3>1 DEF GivenUp
    <3>4. told[c] = 0
      BY <1>2, <2>4 DEF GivenUp, GoneIsStoppedAndTold
    <3>5. told'[c] = IF c \in GoneWired THEN 1 ELSE 0
      BY <2>2, <2>4, <3>4 DEF GivenUp
    <3>6. QED
      BY <1>2, <3>2, <3>3, <3>5, Zenon DEF GoneIsStoppedAndTold
  <2>5. ASSUME NEW c \in Child, Restarted(c)
        PROVE  GoneIsStoppedAndTold'
    <3>1. PICK r \in RecordType : r.state = "live" /\ record' = [record EXCEPT ![c] = r]
      BY <2>5, Zenon DEF Restarted
    <3>2. ASSUME NEW d \in Child, d # c
          PROVE  record'[d] = record[d] /\ pd'[d] = pd[d] /\ told'[d] = told[d]
      BY <2>2, <2>5, <3>1, <3>2 DEF Restarted
    <3>3. record'[c].state = "live" /\ pd'[c] = "running" /\ told'[c] = told[c]
      BY <2>2, <2>5, <3>1 DEF Restarted
    <3>4. told[c] = 0 /\ record'[c].state # "gone" /\ pd'[c] # "stopped"
      BY <1>2, <2>5, <3>3 DEF Restarted, GoneIsStoppedAndTold
    <3>5. QED
      BY <1>2, <3>2, <3>3, <3>4, Zenon DEF GoneIsStoppedAndTold
  <2>6. CASE PassiveStep
    <3>1. record' = record /\ told' = told
      BY <2>6 DEF PassiveStep
    <3>2. \A d \in Child : pd'[d] = "stopped" <=> pd[d] = "stopped"
      BY <1>2, <2>2, <2>6 DEF PassiveStep, GoneIsStoppedAndTold
    <3>3. QED
      BY <1>2, <3>1, <3>2, Zenon DEF GoneIsStoppedAndTold
  <2>7. QED
    BY <2>1, <2>3, <2>4, <2>5, <2>6, Zenon DEF StepOutcome
<1>3. QED
  BY <1>1, <1>2, TypeCorrect, PTL DEF SupSpec

(* Every restart at an entry point is charged exactly once, by either      *)
(* selector, and a boot sees at most HardMax of them per child             *)
(* (root_record_charge, the timed decision's commit).                      *)
THEOREM Charged == SupSpec => []RestartsAreCharged
<1>1. SupInit => RestartsAreCharged
  BY BudgetAssumption DEF SupInit, RestartsAreCharged, FreshRecord
<1>2. ASSUME SupTypeOK, RestartsAreCharged, [SupNext]_supVars
      PROVE  RestartsAreCharged'
  <2>1. StepOutcome /\ SupTypeOK'
    BY <1>2, StepCases, TypeStep
  <2>2. record \in [Child -> RecordType] /\ charges \in [Child -> Seq(Nat)]
    BY <1>2 DEF SupTypeOK
  <2>3. \A d \in Child : record'[d].lifetime <= HardMax
    BY <2>1, BudgetAssumption DEF SupTypeOK, RecordType
  <2>4. SUFFICES \A d \in Child : Len(charges'[d]) = record'[d].lifetime
    BY <2>3, Zenon DEF RestartsAreCharged
  <2>5. \A d \in Child : Len(charges[d]) = record[d].lifetime
    BY <1>2, Zenon DEF RestartsAreCharged
  <2>6. ASSUME NEW c \in Child, Ignored(c)
        PROVE  \A d \in Child : Len(charges'[d]) = record'[d].lifetime
    BY <2>5, <2>6 DEF Ignored
  <2>7. ASSUME NEW c \in Child, GivenUp(c)
        PROVE  \A d \in Child : Len(charges'[d]) = record'[d].lifetime
    <3>1. PICK r \in RecordType :
             r.lifetime = record[c].lifetime /\ record' = [record EXCEPT ![c] = r]
      BY <2>7, Zenon DEF GivenUp
    <3>2. charges' = charges
      BY <2>7, Zenon DEF GivenUp
    <3>3. QED
      BY <2>2, <2>5, <3>1, <3>2
  <2>8. ASSUME NEW c \in Child, Restarted(c)
        PROVE  \A d \in Child : Len(charges'[d]) = record'[d].lifetime
    <3>1. PICK r \in RecordType :
             r.lifetime = record[c].lifetime + 1 /\ record' = [record EXCEPT ![c] = r]
      BY <2>8, Zenon DEF Restarted
    <3>2. PICK t \in Nat : charges' = [charges EXCEPT ![c] = Append(charges[c], t)]
      BY <2>8, Zenon DEF Restarted
    <3>3. Len(Append(charges[c], t)) = Len(charges[c]) + 1
      BY <2>2
    <3>4. QED
      BY <2>2, <2>5, <3>1, <3>2, <3>3
  <2>9. CASE PassiveStep
    BY <2>5, <2>9 DEF PassiveStep
  <2>10. QED
    BY <2>1, <2>6, <2>7, <2>8, <2>9, Zenon DEF StepOutcome
<1>3. QED
  BY <1>1, <1>2, TypeCorrect, PTL DEF SupSpec

(* The timed selector never meets a record it must reject, although the    *)
(* physical counter may run backwards: root_timed_invalid_record and       *)
(* root_timed_clock_regressed stay unreachable (TimedNeverInvalid).        *)
THEOREM TimedConsistent == SupSpec => []TimedNeverInvalid
<1>1. SupInit => TimedNeverInvalid
  <2>1. /\ FreshRecord.window = 0 /\ FreshRecord.valid = FALSE
        /\ TimedPolicy.capacity = Capacity /\ TimedPolicy.limit = LifetimeLimit
        /\ TimedPolicy.interval = LeakInterval
    BY DEF FreshRecord, TimedPolicy
  <2>2. \A t : TimedOk(FreshRecord, TimedPolicy, t)
    BY <2>1, TimedAssumption DEF TimedOk
  <2>3. QED
    BY <2>2, Zenon DEF SupInit, TimedNeverInvalid
<1>2. ASSUME SupTypeOK, TimedNeverInvalid, [SupNext]_supVars
      PROVE  TimedNeverInvalid'
  <2>1. StepOutcome
    BY <1>2, StepCases
  <2>2. record \in [Child -> RecordType] /\ clock.last \in Nat
    BY <1>2 DEF SupTypeOK
  <2>3. clock'.last \in Nat /\ clock.last <= clock'.last
    BY <2>1 DEF StepOutcome
  <2>4. \A d \in Child : TimedOk(record[d], TimedPolicy, clock.last)
    BY <1>2, Zenon DEF TimedNeverInvalid
  <2>5. \A d \in Child : TimedOk(record[d], TimedPolicy, clock'.last)
    BY <2>2, <2>3, <2>4, TimedOkLater
  <2>6. SUFFICES \A d \in Child : TimedOk(record'[d], TimedPolicy, clock'.last)
    BY Zenon DEF TimedNeverInvalid
  <2>7. ASSUME NEW c \in Child, Ignored(c) \/ PassiveStep
        PROVE  \A d \in Child : TimedOk(record'[d], TimedPolicy, clock'.last)
    BY <2>5, <2>7 DEF Ignored, PassiveStep
  <2>8. ASSUME NEW c \in Child, GivenUp(c)
        PROVE  \A d \in Child : TimedOk(record'[d], TimedPolicy, clock'.last)
    <3>1. PICK r \in RecordType :
             /\ \A t : TimedOk(record[c], TimedPolicy, t) => TimedOk(r, TimedPolicy, t)
             /\ record' = [record EXCEPT ![c] = r]
      BY <2>8, Zenon DEF GivenUp
    <3>2. TimedOk(r, TimedPolicy, clock'.last)
      BY <2>5, <3>1
    <3>3. QED
      BY <2>2, <2>5, <3>1, <3>2
  <2>9. ASSUME NEW c \in Child, Restarted(c)
        PROVE  \A d \in Child : TimedOk(record'[d], TimedPolicy, clock'.last)
    <3>1. PICK r \in RecordType :
             /\ TimedOk(record[c], TimedPolicy, clock.last) => TimedOk(r, TimedPolicy, clock'.last)
             /\ record' = [record EXCEPT ![c] = r]
      BY <2>9, Zenon DEF Restarted
    <3>2. TimedOk(r, TimedPolicy, clock'.last)
      BY <2>4, <3>1
    <3>3. QED
      BY <2>2, <2>5, <3>1, <3>2
  <2>10. CASE PassiveStep
    BY <2>7, <2>10, ChildAssumption
  <2>11. QED
    BY <2>1, <2>7, <2>8, <2>9, <2>10, Zenon DEF StepOutcome
<1>3. QED
  BY <1>1, <1>2, TypeCorrect, PTL DEF SupSpec

(* A gone child is final: no callback, command or policy changes its       *)
(* record, lets it run again or tells its dependents again.                *)
THEOREM GoneFinal == SupSpec => GoneIsTerminal
<1> DEFINE Final == \A c \in Child : record[c].state = "gone" =>
                        record'[c] = record[c] /\ pd'[c] = pd[c] /\ told'[c] = told[c]
<1>1. ASSUME SupTypeOK, GoneIsStoppedAndTold, [SupNext]_supVars
      PROVE  Final
  <2>1. StepOutcome
    BY <1>1, StepCases
  <2>2. /\ record \in [Child -> RecordType] /\ pd \in [Child -> PDStates]
        /\ told \in [Child -> Nat]
    BY <1>1 DEF SupTypeOK
  <2> SUFFICES ASSUME NEW d \in Child, record[d].state = "gone"
               PROVE  record'[d] = record[d] /\ pd'[d] = pd[d] /\ told'[d] = told[d]
    BY Zenon
  <2>3. ASSUME NEW c \in Child, Ignored(c)
        PROVE  record'[d] = record[d] /\ pd'[d] = pd[d] /\ told'[d] = told[d]
    BY <2>3 DEF Ignored
  <2>4. ASSUME NEW c \in Child, GivenUp(c)
        PROVE  record'[d] = record[d] /\ pd'[d] = pd[d] /\ told'[d] = told[d]
    <3>1. d # c
      BY <2>4 DEF GivenUp
    <3>2. QED
      BY <2>2, <2>4, <3>1 DEF GivenUp
  <2>5. ASSUME NEW c \in Child, Restarted(c)
        PROVE  record'[d] = record[d] /\ pd'[d] = pd[d] /\ told'[d] = told[d]
    <3>1. d # c
      BY <2>5 DEF Restarted
    <3>2. QED
      BY <2>2, <2>5, <3>1 DEF Restarted
  <2>6. CASE PassiveStep
    <3>1. pd[d] = "stopped"
      BY <1>1 DEF GoneIsStoppedAndTold
    <3>2. QED
      BY <2>2, <2>6, <3>1 DEF PassiveStep
  <2>7. QED
    BY <2>1, <2>3, <2>4, <2>5, <2>6, Zenon DEF StepOutcome
<1>2. QED
  BY <1>1, TypeCorrect, GoneStoppedAndTold, PTL DEF SupSpec, GoneIsTerminal

(* Every restart is within the ceiling of the policy retained when it is   *)
(* decided (root_restart_ceiling after root_spec_refresh).                 *)
THEOREM WithinCeiling == SupSpec => RestartWithinCeiling
<1> DEFINE Within == \A c \in Child : Len(charges'[c]) > Len(charges[c]) =>
                         Len(charges'[c]) <= root_status_budget(spec', c)
<1>1. ASSUME SupTypeOK, RestartsAreCharged, RestartsAreCharged', [SupNext]_supVars
      PROVE  Within
  <2>1. StepOutcome
    BY <1>1, StepCases
  <2>2. record \in [Child -> RecordType] /\ charges \in [Child -> Seq(Nat)]
    BY <1>1 DEF SupTypeOK
  <2> SUFFICES ASSUME NEW d \in Child, Len(charges'[d]) > Len(charges[d])
               PROVE  Len(charges'[d]) <= root_status_budget(spec', d)
    BY Zenon
  <2>3. Len(charges[d]) \in Nat /\ charges'[d] # charges[d]
    BY <2>2
  <2>4. ASSUME NEW c \in Child, Ignored(c) \/ GivenUp(c) \/ PassiveStep
        PROVE  FALSE
    BY <2>3, <2>4 DEF Ignored, GivenUp, PassiveStep
  <2>5. ASSUME NEW c \in Child, Restarted(c)
        PROVE  Len(charges'[d]) <= root_status_budget(spec', d)
    <3>1. d = c
      BY <2>2, <2>3, <2>5 DEF Restarted
    <3>2. PICK r \in RecordType : /\ r.lifetime <= root_status_budget(spec', c)
                                  /\ record' = [record EXCEPT ![c] = r]
      BY <2>5, Zenon DEF Restarted
    <3>3. record'[c].lifetime = r.lifetime
      BY <2>2, <3>2
    <3>4. Len(charges'[c]) = record'[c].lifetime
      BY <1>1, Zenon DEF RestartsAreCharged
    <3>5. QED
      BY <3>1, <3>2, <3>3, <3>4
  <2>6. QED
    BY <2>1, <2>4, <2>5, Zenon DEF StepOutcome
<1>2. QED
  BY <1>1, TypeCorrect, Charged, PTL DEF SupSpec, RestartWithinCeiling

(* A charged restart resumes its child at an entry point; a child without  *)
(* one is given up on by either selector (root_restart_giveup_no_entry).   *)
THEOREM LandsAtEntry == SupSpec => RestartLandsAtEntry
<1> DEFINE Lands == \A c \in Child : Len(charges'[c]) > Len(charges[c]) => pd'[c] = "running"
<1>1. ASSUME SupTypeOK, [SupNext]_supVars
      PROVE  Lands
  <2>1. StepOutcome
    BY <1>1, StepCases
  <2>2. pd \in [Child -> PDStates] /\ charges \in [Child -> Seq(Nat)]
    BY <1>1 DEF SupTypeOK
  <2> SUFFICES ASSUME NEW d \in Child, Len(charges'[d]) > Len(charges[d])
               PROVE  pd'[d] = "running"
    BY Zenon
  <2>3. charges'[d] # charges[d]
    BY <2>2
  <2>4. ASSUME NEW c \in Child, Ignored(c) \/ GivenUp(c) \/ PassiveStep
        PROVE  FALSE
    BY <2>3, <2>4 DEF Ignored, GivenUp, PassiveStep
  <2>5. ASSUME NEW c \in Child, Restarted(c)
        PROVE  pd'[d] = "running"
    <3>1. d = c
      BY <2>2, <2>3, <2>5 DEF Restarted
    <3>2. QED
      BY <2>2, <2>5, <3>1 DEF Restarted
  <2>6. QED
    BY <2>1, <2>4, <2>5, Zenon DEF StepOutcome
<1>2. QED
  BY <1>1, TypeCorrect, PTL DEF SupSpec, RestartLandsAtEntry
-----------------------------------------------------------------------------
(***************************************************************************)
(* The window as a rate limit: a potential argument over one child's       *)
(* record and the times of its restarts.                                   *)
(***************************************************************************)
LEMMA DivFacts ==
    ASSUME NEW a \in Int, NEW b \in Nat \ {0}
    PROVE  /\ a \div b \in Int
           /\ (a \div b) * b <= a /\ a < (a \div b) * b + b
BY SMT

(* Whole intervals below a span are counted by the division.               *)
LEMMA DivLower ==
    ASSUME NEW a \in Int, NEW b \in Nat \ {0}, NEW k \in Int, k * b <= a
    PROVE  k <= a \div b
<1> DEFINE q == a \div b
<1>1. q \in Int /\ a < q * b + b
  BY DivFacts
<1> HIDE DEF q
<1>2. SUFFICES ASSUME k >= q + 1
               PROVE  FALSE
  BY <1>1 DEF q
<1>3. k * b >= (q + 1) * b
  BY <1>1, <1>2, SMT
<1>4. (q + 1) * b = q * b + b
  BY <1>1, SMT
<1>5. k * b \in Int /\ q * b \in Int /\ (q + 1) * b \in Int
  BY <1>1
<1>6. QED
  BY <1>1, <1>3, <1>4, <1>5

LEMMA Distribute ==
    ASSUME NEW a \in Int, NEW b \in Int, NEW n \in Int
    PROVE  /\ (a + b) * n = a * n + b * n
           /\ (a - b) * n = a * n - b * n
           /\ a * n \in Int /\ b * n \in Int
BY SMT

(* Fewer tokens cost no more.                                              *)
LEMMA Monotone ==
    ASSUME NEW a \in Int, NEW b \in Int, NEW n \in Nat, a <= b
    PROVE  a * n <= b * n
BY SMT

(* How far a leak takes the window: g tokens leave it, each paid for by an *)
(* interval since the stamp, and what is left leaks from a stamp less than *)
(* an interval ago.                                                        *)
LEMMA LeakPays ==
    ASSUME NEW r \in RecordType, NEW t \in Nat, r.valid, r.last <= t
    PROVE  \E g \in Nat :
              /\ r.last + g * LeakInterval <= t
              /\ LET d == LeakWindow(r, LeakInterval, t)
                 IN  \/ d.window = 0 /\ r.window <= g
                     \/ /\ d.window = r.window - g /\ d.window > 0
                        /\ d.last = r.last + g * LeakInterval
                        /\ t < d.last + LeakInterval
<1> DEFINE g == (t - r.last) \div LeakInterval
<1> DEFINE d == LeakWindow(r, LeakInterval, t)
<1>1. t - r.last \in Nat /\ t - r.last \in Int /\ r.window \in Nat /\ r.last \in Nat
  BY DEF RecordType
<1>2. LeakInterval \in Nat \ {0}
  BY TimedAssumption
<1>3. g \in Nat /\ g * LeakInterval <= t - r.last /\ t - r.last < g * LeakInterval + LeakInterval
  BY <1>1, <1>2, DivBound, DivFacts
<1>4. d = IF g >= r.window THEN [r EXCEPT !.window = 0, !.valid = FALSE]
          ELSE [r EXCEPT !.window = r.window - g, !.last = r.last + g * LeakInterval]
  BY DEF LeakWindow
<1> HIDE DEF g, d
<1>5. g * LeakInterval \in Nat
  BY <1>2, <1>3
<1>6. r.last + g * LeakInterval <= t /\ t < r.last + g * LeakInterval + LeakInterval
  BY <1>1, <1>2, <1>3, <1>5
<1>7. CASE g >= r.window
  <2>1. d.window = 0
    BY <1>4, <1>7 DEF RecordType
  <2>2. r.window <= g
    BY <1>1, <1>3, <1>7
  <2>3. QED
    BY <1>3, <1>6, <2>1, <2>2 DEF d
<1>8. CASE ~(g >= r.window)
  <2> DEFINE w == r.window - g
  <2> DEFINE l == r.last + g * LeakInterval
  <2>1. d = [r EXCEPT !.window = w, !.last = l]
    BY <1>4, <1>8
  <2>2. w > 0
    BY <1>1, <1>3, <1>8
  <2> HIDE DEF w, l
  <2>3. d.window = w /\ d.last = l
    BY <2>1, Zenon DEF RecordType
  <2>4. l <= t /\ t < l + LeakInterval
    BY <1>6 DEF l
  <2>5. /\ d.window = r.window - g /\ d.window > 0
        /\ d.last = r.last + g * LeakInterval /\ t < d.last + LeakInterval
    BY <2>2, <2>3, <2>4 DEF w, l
  <2>6. QED
    BY <1>3, <1>6, <2>5 DEF d
<1>9. QED
  BY <1>7, <1>8

(* The restarts s of a child are covered by its record r: of those from    *)
(* the i-th on, all that are no longer in the window were paid for by the  *)
(* time from the i-th to the stamp.                                        *)
Covered(r, s) ==
    /\ r.valid \/ s = <<>>
    /\ \A i \in 1 .. Len(s) : ((Len(s) - i + 1) - r.window) * LeakInterval <= r.last - s[i]

RateKept(s) ==
    \A i, j \in 1 .. Len(s) :
        i <= j => (j - i) + 1 <= Capacity + (s[j] - s[i]) \div LeakInterval

(* One more restart at t, into a window of w with stamp l after it.        *)
LEMMA ChargeCovered ==
    ASSUME NEW s \in Seq(Nat), NEW t \in Nat, NEW w \in Nat \ {0}, NEW l \in Nat,
           w <= Capacity, l <= t, t - l <= (w - 1) * LeakInterval,
           \A i \in 1 .. Len(s) : ((Len(s) - i + 1) - (w - 1)) * LeakInterval <= l - s[i],
           RateKept(s)
    PROVE  LET u == Append(s, t)
           IN  /\ \A i \in 1 .. Len(u) : ((Len(u) - i + 1) - w) * LeakInterval <= l - u[i]
               /\ RateKept(u)
<1> DEFINE I == LeakInterval
<1> DEFINE u == Append(s, t)
<1> DEFINE n == Len(s)
<1>1. I \in Nat \ {0} /\ Capacity \in Nat /\ n \in Nat /\ I \in Int
  BY TimedAssumption
<1>2. /\ Len(u) = n + 1 /\ u[n + 1] = t /\ \A i \in 1 .. n : u[i] = s[i] /\ s[i] \in Nat
      /\ \A i \in 1 .. n + 1 : u[i] \in Nat
  BY SMTT(30)
<1> HIDE DEF I, u, n
<1>3. ASSUME NEW i \in 1 .. n + 1
      PROVE  (((n + 1) - i + 1) - w) * I <= l - u[i]
  <2>1. CASE i \in 1 .. n
    <3>1. ((n + 1) - i + 1) - w = (n - i + 1) - (w - 1)
      BY <1>1, <2>1
    <3>2. ((n - i + 1) - (w - 1)) * I <= l - s[i]
      BY <2>1 DEF n, I
    <3>3. QED
      BY <1>2, <2>1, <3>1, <3>2
  <2>2. CASE i = n + 1
    <3> DEFINE a == w - 1
    <3>1. ((n + 1) - i + 1) - w = 0 - a /\ a \in Int
      BY <1>1, <2>2
    <3>2. t - l <= a * I
      BY DEF I
    <3> HIDE DEF a
    <3>3. (0 - a) * I = 0 * I - a * I /\ a * I \in Int /\ 0 * I = 0
      BY <1>1, <3>1, Distribute
    <3>4. (0 - a) * I <= l - t
      BY <3>2, <3>3
    <3>5. QED
      BY <1>2, <2>2, <3>1, <3>4
  <2>3. QED
    BY <1>1, <2>1, <2>2
<1>4. ASSUME NEW i \in 1 .. n + 1
      PROVE  ((n + 1) - i) + 1 <= Capacity + (t - u[i]) \div I
  <2> DEFINE a == ((n + 1) - i + 1) - w
  <2> DEFINE b == ((n + 1) - i + 1) - Capacity
  <2> DEFINE d == t - u[i]
  <2>1. a \in Int /\ b \in Int /\ b <= a /\ d \in Int /\ l - u[i] <= d
    BY <1>1, <1>2
  <2>2. a * I <= l - u[i] /\ l - u[i] \in Int
    BY <1>2, <1>3
  <2> HIDE DEF a, b
  <2>3. b * I <= a * I /\ b * I \in Int /\ a * I \in Int
    BY <1>1, <2>1, Monotone, Distribute
  <2>4. b * I <= d
    BY <2>1, <2>2, <2>3
  <2>5. b <= d \div I /\ d \div I \in Int
    BY <1>1, <2>1, <2>4, DivLower, DivFacts
  <2> DEFINE q == d \div I
  <2> HIDE DEF q
  <2>6. ((n + 1) - i) + 1 <= Capacity + q
    BY <1>1, <2>5 DEF b, q
  <2>7. QED
    BY <2>6 DEF q
<1>5. RateKept(u)
  <2> SUFFICES ASSUME NEW i \in 1 .. n + 1, NEW j \in 1 .. n + 1, i <= j
               PROVE  (j - i) + 1 <= Capacity + (u[j] - u[i]) \div I
    BY <1>2 DEF RateKept, I
  <2>1. CASE j = n + 1
    <3> DEFINE q == (t - u[i]) \div I
    <3>1. ((n + 1) - i) + 1 <= Capacity + q
      BY <1>4
    <3>2. (u[j] - u[i]) \div I = q
      BY <1>2, <2>1
    <3>3. j - i = (n + 1) - i
      BY <2>1, Zenon
    <3> HIDE DEF q
    <3>4. QED
      BY <3>1, <3>2, <3>3, Zenon
  <2>2. CASE j \in 1 .. n
    <3>1. i \in 1 .. n
      BY <1>1, <2>2
    <3>2. (j - i) + 1 <= Capacity + (s[j] - s[i]) \div I
      BY <2>2, <3>1 DEF RateKept, n, I
    <3>3. QED
      BY <1>2, <2>2, <3>1, <3>2
  <2>3. QED
    BY <1>1, <2>1, <2>2
<1>6. \A i \in 1 .. Len(u) : ((Len(u) - i + 1) - w) * I <= l - u[i]
  <2>1. \A i \in 1 .. n + 1 : (((n + 1) - i + 1) - w) * I <= l - u[i]
    BY <1>3, Zenon
  <2>2. Len(u) = n + 1
    BY <1>2
  <2> DEFINE P(m) == \A i \in 1 .. m : ((m - i + 1) - w) * I <= l - u[i]
  <2>3. P(n + 1)
    BY <2>1
  <2> HIDE DEF P
  <2>4. P(Len(u))
    BY <2>2, <2>3, Zenon
  <2>5. QED
    BY <2>4 DEF P
<1>7. QED
  BY <1>5, <1>6 DEF u, I

(* A timed restart leaks, then charges: the record covers the restarts     *)
(* again, and the rate holds for the new one.                              *)
LEMMA TimedChargeCovered ==
    ASSUME NEW r \in RecordType, NEW s \in Seq(Nat), NEW t \in Nat,
           TimedOk(r, TimedPolicy, t), r.lifetime < HardMax,
           Covered(r, s), RateKept(s),
           LeakWindow(r, LeakInterval, t).window < Capacity
    PROVE  LET e == ChargeAt(LeakWindow(r, LeakInterval, t), t)
           IN  Covered(e, Append(s, t)) /\ RateKept(Append(s, t))
<1> DEFINE I == LeakInterval
<1> DEFINE n == Len(s)
<1> DEFINE d == LeakWindow(r, LeakInterval, t)
<1> DEFINE e == ChargeAt(d, t)
<1> DEFINE w == d.window + 1
<1> DEFINE l == IF d.window = 0 THEN t ELSE d.last
<1>1. /\ d \in RecordType /\ d.lifetime = r.lifetime
      /\ d.valid <=> d.window # 0
      /\ d.valid => d.last <= t
  BY LeakKeeps DEF TimedPolicy
<1>2. /\ r.valid <=> r.window # 0
      /\ r.valid => r.last <= t
  BY DEF TimedOk
<1>3. /\ I \in Nat \ {0} /\ Capacity \in Nat /\ n \in Nat /\ I \in Int
      /\ \A i \in 1 .. n : s[i] \in Nat
  BY TimedAssumption
<1>4. r.window \in Nat /\ r.last \in Nat /\ d.window \in Nat /\ d.last \in Nat
  BY <1>1 DEF RecordType
<1>5. e.window = w /\ e.last = l /\ e.valid
  <2>1. e = [d EXCEPT !.last = l, !.valid = TRUE, !.window = w, !.lifetime = d.lifetime + 1]
    BY Zenon DEF ChargeAt
  <2> HIDE DEF e, l, w, d
  <2>2. QED
    BY <1>1, <2>1, Zenon DEF RecordType
<1>6. ASSUME NEW i \in 1 .. n
      PROVE  ((n - i + 1) - r.window) * I <= r.last - s[i]
  BY DEF Covered
<1>7. d.window < Capacity
  OBVIOUS
<1>8. /\ t - l <= (w - 1) * I
      /\ \A i \in 1 .. n : ((n - i + 1) - (w - 1)) * I <= l - s[i]
  <2>1. CASE ~r.valid
    <3>1. n = 0 /\ d = r /\ d.window = 0
      BY <1>2, <1>4, <2>1 DEF Covered, LeakWindow
    <3>2. l = t /\ w - 1 = 0
      BY <1>4, <3>1
    <3> HIDE DEF l, w, I, n
    <3>3. 0 * I = 0 /\ 1 .. n = {}
      BY <1>3, <3>1
    <3>4. QED
      BY <3>2, <3>3
  <2>2. CASE r.valid
    <3>1. PICK g \in Nat : /\ r.last + g * I <= t
                           /\ \/ d.window = 0 /\ r.window <= g
                              \/ /\ d.window = r.window - g /\ d.window > 0
                                 /\ d.last = r.last + g * I
                                 /\ t < d.last + I
      BY <1>2, <2>2, LeakPays
    <3> HIDE DEF I, n, d
    <3>2. g * I \in Nat
      BY <1>3, <3>1
    <3>3. CASE d.window = 0 /\ r.window <= g
      <4>1. l = t /\ w - 1 = 0
        BY <1>4, <3>3
      <4> HIDE DEF l, w
      <4>2. t - l <= (w - 1) * I
        <5>1. 0 * I = 0
          BY <1>3
        <5>2. QED
          BY <4>1, <5>1
      <4>3. ASSUME NEW i \in 1 .. n
            PROVE  ((n - i + 1) - (w - 1)) * I <= l - s[i]
        <5> DEFINE a == (n - i + 1) - r.window
        <5> DEFINE b == n - i + 1
        <5>1. a \in Int /\ b \in Int /\ b <= a + g /\ (n - i + 1) - (w - 1) = b /\ a + g \in Int
          BY <1>3, <1>4, <3>3, <4>1
        <5>2. a * I <= r.last - s[i]
          BY <1>6
        <5> HIDE DEF a, b
        <5>3. (a + g) * I = a * I + g * I /\ a * I \in Int
          BY <1>3, <5>1, Distribute
        <5>4. b * I <= (a + g) * I
          BY <1>3, <5>1, Monotone
        <5>5. b * I \in Int
          BY <1>3, <5>1, Distribute
        <5>6. b * I <= t - s[i]
          <6> DEFINE x == a * I
          <6> DEFINE y == b * I
          <6> DEFINE z == g * I
          <6>1. /\ x \in Int /\ y \in Int /\ z \in Int /\ s[i] \in Int /\ r.last \in Int
                /\ x <= r.last - s[i] /\ y <= x + z /\ r.last + z <= t
            BY <1>3, <1>4, <3>1, <3>2, <5>2, <5>3, <5>4, <5>5, SMTT(30)
          <6> HIDE DEF x, y, z
          <6>2. y <= t - s[i]
            BY <6>1
          <6>3. QED
            BY <6>2 DEF y
        <5>7. QED
          BY <4>1, <5>1, <5>6
      <4>4. QED
        BY <4>2, <4>3
    <3>4. CASE /\ d.window = r.window - g /\ d.window > 0
               /\ d.last = r.last + g * I
               /\ t < d.last + I
      <4>1. l = d.last /\ w - 1 = d.window
        BY <1>4, <3>4
      <4> HIDE DEF l, w
      <4>2. t - l <= (w - 1) * I
        <5> DEFINE v == d.window
        <5>1. v \in Int /\ 1 <= v /\ 1 \in Int /\ I \in Nat
          BY <1>3, <1>4, <3>4
        <5> HIDE DEF v
        <5>2. 1 * I <= v * I /\ 1 * I = I /\ v * I \in Int
          BY <5>1, Monotone
        <5>3. t - d.last <= v * I
          BY <1>3, <1>4, <3>4, <5>2
        <5>4. QED
          BY <4>1, <5>3 DEF v
      <4>3. ASSUME NEW i \in 1 .. n
            PROVE  ((n - i + 1) - (w - 1)) * I <= l - s[i]
        <5> DEFINE a == (n - i + 1) - r.window
        <5>1. a \in Int /\ (n - i + 1) - (w - 1) = a + g
          <6>1. w - 1 = r.window - g
            BY <3>4, <4>1, Zenon
          <6>2. QED
            BY <1>3, <1>4, <6>1
        <5>2. a * I <= r.last - s[i]
          BY <1>6
        <5> HIDE DEF a
        <5>3. (a + g) * I = a * I + g * I /\ a * I \in Int
          BY <1>3, <5>1, Distribute
        <5>4. (a + g) * I <= l - s[i]
          <6> DEFINE x == a * I
          <6> DEFINE z == g * I
          <6>1. /\ x \in Int /\ z \in Int /\ s[i] \in Int /\ r.last \in Int
                /\ x <= r.last - s[i] /\ l = r.last + z /\ (a + g) * I = x + z
            BY <1>3, <1>4, <3>2, <3>4, <4>1, <5>2, <5>3, SMTT(30)
          <6> HIDE DEF x, z
          <6>2. x + z <= l - s[i]
            BY <6>1, SMTT(30)
          <6>3. QED
            BY <6>1, <6>2
        <5>5. QED
          BY <5>1, <5>4
      <4>4. QED
        BY <4>2, <4>3
    <3>5. QED
      BY <3>1, <3>3, <3>4
  <2>3. QED
    BY <2>1, <2>2
<1>9. w \in Nat \ {0} /\ l \in Nat /\ w <= Capacity /\ l <= t
  BY <1>1, <1>3, <1>4, <1>7
<1> HIDE DEF w, l, e, d
<1>10. /\ \A i \in 1 .. Len(Append(s, t)) :
             ((Len(Append(s, t)) - i + 1) - w) * LeakInterval <= l - Append(s, t)[i]
       /\ RateKept(Append(s, t))
  BY <1>8, <1>9, ChargeCovered
<1>11. Covered(e, Append(s, t))
  BY <1>5, <1>10 DEF Covered
<1>12. QED
  BY <1>10, <1>11 DEF e, d

(* What a restart decided by the timed selector commits.                   *)
TimedCharge(r, t, next) ==
    /\ r.lifetime < HardMax
    /\ LeakWindow(r, LeakInterval, t).window < Capacity
    /\ next = ChargeAt(LeakWindow(r, LeakInterval, t), t)

LEMMA TimedPlan ==
    ASSUME NEW s \in [generation : Nat, budget : [Child -> Nat]],
           NEW c \in Child, NEW r \in RecordType,
           NEW clk \in [available : BOOLEAN, last : Nat],
           Timed, clk.available, TimedOk(r, TimedPolicy, clk.last)
    PROVE  LET p == root_restart_plan(s, r, root_restart_inputs_for(c, clk))
           IN  p.action = "resume" => TimedCharge(r, clk.last, p.next)
<1> DEFINE in == root_restart_inputs_for(c, clk)
<1> DEFINE ceiling == root_restart_ceiling(s, in)
<1> DEFINE policy == [in.policy EXCEPT !.limit = ceiling]
<1> DEFINE timed == root_restart_decide_at(r, policy, in.entry, in.now)
<1> DEFINE p == root_restart_plan(s, r, in)
<1> DEFINE t == clk.last
<1> DEFINE drained == LeakWindow(r, LeakInterval, t)
<1>1. ceiling \in 1 .. HardMax
  BY CeilingBound
<1>2. in.timed /\ in.clockAvailable /\ in.now = t /\ in.policy = TimedPolicy
  BY DEF root_restart_inputs_for, TimedPolicy
<1>3. policy.capacity = Capacity /\ policy.limit = ceiling /\ policy.interval = LeakInterval
  BY <1>2 DEF TimedPolicy
<1>4. /\ p.action = IF timed.error THEN "giveup_budget" ELSE timed.action
      /\ p.action = "resume" => p.next = timed.next
  <2> DEFINE useTime == in.timed /\ in.clockAvailable
  <2> DEFINE plain == root_restart_decide(r, ceiling, in.entry)
  <2> DEFINE action == IF ~useTime THEN plain
                       ELSE IF timed.error THEN "giveup_budget" ELSE timed.action
  <2> DEFINE charged == IF useTime THEN timed.next ELSE [r EXCEPT !.lifetime = @ + 1]
  <2> DEFINE next == CASE action = "resume"  -> charged
                       [] action \in Giveups -> [r EXCEPT !.state = "gone"]
                       [] OTHER              -> r
  <2>1. p = [action |-> action, invalid |-> (useTime /\ timed.error), next |-> next]
    BY Zenon DEF root_restart_plan
  <2>2. action = "resume" => next = charged
    <3> HIDE DEF action, charged
    <3>1. QED
      BY DEF Giveups
  <2>3. useTime
    BY <1>2
  <2> HIDE DEF next, timed, p, useTime
  <2>4. p.action = action /\ p.next = next
    <3> HIDE DEF action
    <3>1. QED
      BY <2>1
  <2>5. QED
    BY <2>2, <2>3, <2>4, Zenon DEF action, charged
<1>5. SUFFICES ASSUME p.action = "resume"
               PROVE  TimedCharge(r, t, p.next)
  OBVIOUS
<1> HIDE DEF p, in, policy, ceiling
<1>6. ~timed.error /\ timed.action = "resume" /\ p.next = timed.next
  <2> HIDE DEF timed
  <2>1. QED
    BY <1>4, <1>5
<1>7. /\ ~(r.lifetime >= ceiling) /\ ~(drained.window >= Capacity)
      /\ timed.next = ChargeAt(drained, t)
  <2> DEFINE answer(a, n) == [error |-> FALSE, action |-> a, next |-> n]
  <2>1. timed = IF r.state = "gone" THEN answer("ignore_gone", r)
                ELSE IF ~TimedOk(r, policy, t)
                     THEN [error |-> TRUE, action |-> "ignore_gone", next |-> r]
                ELSE IF r.lifetime >= ceiling THEN answer("giveup_lifetime", r)
                ELSE IF drained.window >= Capacity THEN answer("giveup_window", drained)
                ELSE IF ~in.entry THEN answer("giveup_no_entry", drained)
                ELSE answer("resume", ChargeAt(drained, t))
    BY <1>2, <1>3, Zenon DEF root_restart_decide_at
  <2> HIDE DEF timed, drained
  <2>2. QED
    BY <1>6, <2>1
<1>8. r.lifetime \in Nat /\ drained.window \in Nat
  BY LeakKeeps DEF TimedPolicy, RecordType
<1> HIDE DEF drained, timed
<1>9. r.lifetime < HardMax /\ drained.window < Capacity
  BY <1>1, <1>7, <1>8, BudgetAssumption, TimedAssumption
<1>10. QED
  BY <1>6, <1>7, <1>9 DEF drained, TimedCharge

(* While the timed selector has a clock, every child's record covers its   *)
(* restarts.                                                               *)
WindowInv ==
    Timed /\ clock.available =>
        \A c \in Child : Covered(record[c], charges[c]) /\ RateKept(charges[c])

(* One request, while the clock stays usable.                              *)
LEMMA TimedRequest ==
    ASSUME SupTypeOK, TimedNeverInvalid, WindowInv,
           NEW c \in Child, root_restart_child(c), Timed, clock'.available
    PROVE  \A d \in Child : Covered(record'[d], charges'[d]) /\ RateKept(charges'[d])
<1> DEFINE clk == root_clock_observe(clock, now)
<1> DEFINE in == root_restart_inputs_for(c, clk)
<1> DEFINE plan == root_restart_plan(spec', record[c], in)
<1>1. /\ record \in [Child -> RecordType] /\ charges \in [Child -> Seq(Nat)]
      /\ record[c] \in RecordType /\ charges[c] \in Seq(Nat)
      /\ clock \in [available : BOOLEAN, last : Nat] /\ clock.last \in Nat /\ now \in Nat
  BY DEF SupTypeOK
<1>2. spec' \in [generation : Nat, budget : [Child -> Nat]]
  BY RestartChildFacts
<1>3. clk \in [available : BOOLEAN, last : Nat] /\ clock.last <= clk.last
  BY <1>1, ObserveFacts
<1>4. clk.available
  <2>1. clock' = [clk EXCEPT !.available = clk.available /\ ~plan.invalid]
    BY Zenon DEF root_restart_child
  <2> HIDE DEF clk, plan
  <2>2. QED
    BY <1>3, <2>1
<1>5. clock.available
  BY <1>1, <1>4 DEF root_clock_observe
<1>6. \A d \in Child : Covered(record[d], charges[d]) /\ RateKept(charges[d])
  BY <1>5, Zenon DEF WindowInv
<1>7. TimedOk(record[c], TimedPolicy, clk.last)
  BY <1>1, <1>3, TimedOkLater DEF TimedNeverInvalid
<1>8. \/ UNCHANGED <<record, charges>>
      \/ root_giveup(c)
      \/ /\ plan.action = "resume"
         /\ record' = [record EXCEPT ![c] = plan.next]
         /\ charges' = [charges EXCEPT ![c] = Append(charges[c], clk.last)]
  BY Zenon DEF root_restart_child
<1> HIDE DEF clk
<1>9. CASE UNCHANGED <<record, charges>>
  BY <1>6, <1>9
<1>10. CASE root_giveup(c)
  <2> DEFINE r == [record[c] EXCEPT !.state = "gone"]
  <2>1. record' = [record EXCEPT ![c] = r] /\ charges' = charges
    BY <1>10, Zenon DEF root_giveup
  <2>2. r.window = record[c].window /\ r.last = record[c].last /\ r.valid = record[c].valid
    BY <1>1, Zenon DEF RecordType
  <2> HIDE DEF r
  <2>3. Covered(r, charges[c])
    BY <1>6, <2>2, Zenon DEF Covered
  <2>4. QED
    BY <1>1, <1>6, <2>1, <2>3, Zenon
<1>11. CASE /\ plan.action = "resume"
            /\ record' = [record EXCEPT ![c] = plan.next]
            /\ charges' = [charges EXCEPT ![c] = Append(charges[c], clk.last)]
  <2> DEFINE e == ChargeAt(LeakWindow(record[c], LeakInterval, clk.last), clk.last)
  <2>1. /\ record[c].lifetime < HardMax
        /\ LeakWindow(record[c], LeakInterval, clk.last).window < Capacity
        /\ plan.next = e
    <3>1. plan.action = "resume" => TimedCharge(record[c], clk.last, plan.next)
      BY <1>1, <1>2, <1>3, <1>4, <1>7, TimedPlan
    <3>2. QED
      BY <1>11, <3>1, Zenon DEF TimedCharge
  <2>2. Covered(e, Append(charges[c], clk.last)) /\ RateKept(Append(charges[c], clk.last))
    <3>1. clk.last \in Nat
      BY <1>3
    <3>2. QED
      BY <1>1, <1>6, <1>7, <2>1, <3>1, TimedChargeCovered
  <2> HIDE DEF e, plan
  <2>3. record' = [record EXCEPT ![c] = e]
    BY <1>11, <2>1
  <2>4. QED
    BY <1>1, <1>6, <1>11, <2>2, <2>3, Zenon
<1>12. QED
  BY <1>8, <1>9, <1>10, <1>11

LEMMA WindowStep ==
    ASSUME SupTypeOK, TimedNeverInvalid, WindowInv, [SupNext]_supVars
    PROVE  WindowInv'
<1>1. ASSUME NEW c \in Child, root_restart_child(c)
      PROVE  WindowInv'
  BY <1>1, TimedRequest, Zenon DEF WindowInv
<1>2. ASSUME UNCHANGED <<record, clock, charges>>
      PROVE  WindowInv'
  BY <1>2, Zenon DEF WindowInv
<1>3. Driver \subseteq Child
  BY ChildAssumption
<1>4. ASSUME NEW c \in Child, SupFault(c) \/ ChildFault(c)
      PROVE  WindowInv'
  BY <1>1, <1>2, <1>4, Zenon DEF SupFault, ChildFault
<1>5. ASSUME NEW c \in Driver, SupDebugRestart(c) \/ SupFaultInject(c) \/ SupCommandRestart(c)
      PROVE  WindowInv'
  <2>1. c \in Child
    BY <1>3
  <2>2. QED
    BY <1>1, <1>2, <1>5, <2>1, Zenon DEF SupDebugRestart, SupFaultInject, SupCommandRestart
<1>6. CASE CounterMoves
  BY <1>2, <1>6, Zenon DEF CounterMoves
<1>7. CASE UNCHANGED supVars
  BY <1>2, <1>7, Zenon DEF supVars
<1>8. QED
  BY <1>4, <1>5, <1>6, <1>7, Zenon DEF SupNext

(* The rate limit of the timed selector, for every capacity and interval:  *)
(* while the clock is usable, k restarts of a child from time t to u       *)
(* satisfy k <= Capacity + (u - t) div LeakInterval, however faults,       *)
(* requests and specs interleave (root_restart_decide_at).                 *)
THEOREM WindowRate == SupSpec => []WindowBoundsRate
<1>1. SupInit => WindowInv
  <2> SUFFICES ASSUME SupInit, NEW c \in Child
               PROVE  Covered(record[c], charges[c]) /\ RateKept(charges[c])
    BY Zenon DEF WindowInv
  <2>1. charges[c] = <<>> /\ Len(charges[c]) = 0
    BY DEF SupInit
  <2>2. QED
    BY <2>1 DEF Covered, RateKept
<1>2. SupTypeOK /\ TimedNeverInvalid /\ WindowInv /\ [SupNext]_supVars => WindowInv'
  BY WindowStep
<1>3. ASSUME SupTypeOK, WindowInv
      PROVE  WindowBoundsRate
  <2> SUFFICES ASSUME Timed, clock.available, NEW c \in Child,
                      NEW i \in DOMAIN charges[c], NEW j \in DOMAIN charges[c], i <= j
               PROVE  (j - i) + 1 <= Capacity + (charges[c][j] - charges[c][i]) \div LeakInterval
    BY DEF WindowBoundsRate
  <2>1. DOMAIN charges[c] = 1 .. Len(charges[c])
    BY <1>3 DEF SupTypeOK
  <2>2. RateKept(charges[c])
    BY <1>3, Zenon DEF WindowInv
  <2>3. QED
    BY <2>1, <2>2, Zenon DEF RateKept
<1>4. QED
  BY <1>1, <1>2, <1>3, TypeCorrect, TimedConsistent, PTL DEF SupSpec
=============================================================================
