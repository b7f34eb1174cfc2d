---------------------------- MODULE RestartPlan ----------------------------
(***************************************************************************)
(* The pure half of Root's restart path: which lifetime ceiling applies to *)
(* a child, which selector decides, and the record that results.           *)
(* src/pd/root/policy/root_policy.h and src/pd/root/restart_plan.c.        *)
(*                                                                         *)
(* A record is Root's accounting for one child (root_child_record):        *)
(*   lifetime  restarts charged since boot, never decays                   *)
(*   window    restarts charged and not yet leaked (timed selector)        *)
(*   last      counter value the window leaks from                         *)
(*   valid     whether last holds a charge                                 *)
(*   state     "live" or "gone"                                            *)
(* An entry point is modelled by whether the image carries one.            *)
(***************************************************************************)
EXTENDS Naturals

Giveups == {"giveup_budget", "giveup_window", "giveup_lifetime", "giveup_no_entry"}
Actions == Giveups \cup {"resume", "ignore_gone"}

FreshRecord == [lifetime |-> 0, window |-> 0, last |-> 0, valid |-> FALSE, state |-> "live"]

min_u(a, b) == IF a < b THEN a ELSE b

(* Mutants of the lifetime selector: a gone child is decided on again; the *)
(* budget admits one restart too many; an exhausted child is left alone.   *)
decide_GoneUnchecked(r, budget, entry) ==
    IF r.lifetime >= budget THEN "giveup_budget"
    ELSE IF ~entry THEN "giveup_no_entry"
    ELSE "resume"

decide_OffByOne(r, budget, entry) ==
    IF r.state = "gone" THEN "ignore_gone"
    ELSE IF r.lifetime > budget THEN "giveup_budget"
    ELSE IF ~entry THEN "giveup_no_entry"
    ELSE "resume"

decide_ExhaustedIgnored(r, budget, entry) ==
    IF r.state = "gone" \/ r.lifetime >= budget THEN "ignore_gone"
    ELSE IF ~entry THEN "giveup_no_entry"
    ELSE "resume"

(* Mutant: a missing entry point is not noticed.                           *)
decide_EntryUnchecked(r, budget, entry) ==
    IF r.state = "gone" THEN "ignore_gone"
    ELSE IF r.lifetime >= budget THEN "giveup_budget"
    ELSE "resume"

(* The lifetime selector: gone, then budget, then entry, in that order.    *)
root_restart_decide(r, budget, entry) ==
    IF r.state = "gone" THEN "ignore_gone"
    ELSE IF r.lifetime >= budget THEN "giveup_budget"
    ELSE IF ~entry THEN "giveup_no_entry"
    ELSE "resume"

(* Mutants of the leak: a started interval leaks as a whole one; a partial *)
(* leak does not move the stamp, so the same time leaks twice.             *)
LeakWindow_RoundsUp(r, interval, now) ==
    LET leaked == (now - r.last + interval - 1) \div interval
    IN  IF ~r.valid THEN r
        ELSE IF leaked >= r.window THEN [r EXCEPT !.window = 0, !.valid = FALSE]
        ELSE [r EXCEPT !.window = @ - leaked, !.last = @ + leaked * interval]

LeakWindow_LeaksTwice(r, interval, now) ==
    LET leaked == (now - r.last) \div interval
    IN  IF ~r.valid THEN r
        ELSE IF leaked >= r.window THEN [r EXCEPT !.window = 0, !.valid = FALSE]
        ELSE [r EXCEPT !.window = @ - leaked]

(* What elapsed time leaks out of the window before a timed decision.      *)
LeakWindow(r, interval, now) ==
    LET leaked == (now - r.last) \div interval
    IN  IF ~r.valid THEN r
        ELSE IF leaked >= r.window THEN [r EXCEPT !.window = 0, !.valid = FALSE]
        ELSE [r EXCEPT !.window = @ - leaked, !.last = @ + leaked * interval]

(* The record the timed selector commits with a restart at time now. A     *)
(* window that is not empty is already valid (TimedOk).                    *)
ChargeAt(r, now) ==
    [r EXCEPT !.last = IF r.window = 0 THEN now ELSE @,
              !.valid = TRUE,
              !.window = @ + 1,
              !.lifetime = @ + 1]

(* The timed selector: root_restart_decide_at. policy is a record with the *)
(* fields capacity, limit and interval.                                    *)
TimedOk(r, policy, now) ==
    /\ policy.capacity # 0 /\ policy.limit # 0 /\ policy.interval # 0
    /\ r.window <= policy.capacity
    /\ r.valid <=> (r.window # 0)
    /\ r.valid => r.last <= now

root_restart_decide_at(r, policy, entry, now) ==
    LET drained == LeakWindow(r, policy.interval, now)
    IN  IF r.state = "gone" THEN [error |-> FALSE, action |-> "ignore_gone", next |-> r]
        ELSE IF ~TimedOk(r, policy, now)
             THEN [error |-> TRUE, action |-> "ignore_gone", next |-> r]
        ELSE IF r.lifetime >= policy.limit
             THEN [error |-> FALSE, action |-> "giveup_lifetime", next |-> r]
        ELSE IF drained.window >= policy.capacity
             THEN [error |-> FALSE, action |-> "giveup_window", next |-> drained]
        ELSE IF ~entry
             THEN [error |-> FALSE, action |-> "giveup_no_entry", next |-> drained]
        ELSE [error |-> FALSE, action |-> "resume", next |-> ChargeAt(drained, now)]

(* The budget a retained spec gives a child; generation 0 and entry 0 both *)
(* mean the compiled budget, and no spec exceeds the hard maximum.         *)
root_spec_budget(spec, child, compiled, hardMax) ==
    IF spec.generation = 0 \/ spec.budget[child] = 0
    THEN compiled
    ELSE min_u(spec.budget[child], hardMax)

(* The lifetime ceiling the plan applies, as published in status rows. in  *)
(* carries what main.c's root_restart_inputs_for gathers for one child.    *)
root_restart_ceiling(spec, in) ==
    LET budget == root_spec_budget(spec, in.child, in.compiled, in.hardMax)
    IN  IF in.timed THEN min_u(budget, in.policy.limit) ELSE budget

(* Mutant: the record to commit is chosen by the image's selector and not  *)
(* by the one that decided, so a lost clock leaves a restart uncharged.    *)
plan_StaleSelector(spec, r, in) ==
    LET ceiling == root_restart_ceiling(spec, in)
        timed   == root_restart_decide_at(r, [in.policy EXCEPT !.limit = ceiling],
                                          in.entry, in.now)
        plain   == root_restart_decide(r, ceiling, in.entry)
        useTime == in.timed /\ in.clockAvailable
        action  == IF ~useTime THEN plain
                   ELSE IF timed.error THEN "giveup_budget"
                   ELSE timed.action
        charged == IF in.timed THEN timed.next ELSE [r EXCEPT !.lifetime = @ + 1]
    IN  [action  |-> action,
         invalid |-> useTime /\ timed.error,
         next    |-> CASE action = "resume"    -> charged
                       [] action \in Giveups   -> [r EXCEPT !.state = "gone"]
                       [] OTHER                -> r]

(* One restart request, decided: the action, the record to commit and      *)
(* whether the timed selector rejected its own record or policy.           *)
root_restart_plan(spec, r, in) ==
    LET ceiling == root_restart_ceiling(spec, in)
        timed   == root_restart_decide_at(r, [in.policy EXCEPT !.limit = ceiling],
                                          in.entry, in.now)
        plain   == root_restart_decide(r, ceiling, in.entry)
        useTime == in.timed /\ in.clockAvailable
        action  == IF ~useTime THEN plain
                   ELSE IF timed.error THEN "giveup_budget"
                   ELSE timed.action
        charged == IF useTime THEN timed.next ELSE [r EXCEPT !.lifetime = @ + 1]
    IN  [action  |-> action,
         invalid |-> useTime /\ timed.error,
         next    |-> CASE action = "resume"    -> charged
                       [] action \in Giveups   -> [r EXCEPT !.state = "gone"]
                       [] OTHER                -> r]
=============================================================================
