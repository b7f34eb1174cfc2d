----------------------------- MODULE Supervisor -----------------------------
(***************************************************************************)
(* Root as the supervisor of its child protection domains: the restart     *)
(* records, the clock the timed selector reads, the policy Root retained   *)
(* from the BEAM's spec page, and what Root did to each child through the  *)
(* kernel. src/pd/root/main.c over restart_plan.c and root_policy.h.       *)
(*                                                                         *)
(* Root runs at priority 254, above every other PD of the single-core      *)
(* image, so a callback (fault, notified, protected) is one atomic step.   *)
(* Module Root adds status publication and the command channel to these    *)
(* steps; SpecPage shows how a retained policy is read from shared memory. *)
(***************************************************************************)
EXTENDS RestartPlan, Sequences, FiniteSets

CONSTANTS
    Child,          \* the children of the image's presence mask
    Driver,         \* the restartable drivers among them
    Beam,           \* beam_server
    Compiled,       \* the compiled lifetime budget of each child
    HardMax,        \* the ceiling no spec may exceed
    HasEntry,       \* whether the image carries an entry point for a child
    GoneWired,      \* the children whose give-up channel the image declares
    Timed,          \* root_budget_test.elf: the timed selector decides
    Capacity,       \* its window capacity ...
    LifetimeLimit,  \* ... lifetime limit ...
    LeakInterval,   \* ... and leak interval, in counter ticks
    Policies,       \* budget tables a spec may carry; 0 asks for the compiled one
    MaxGeneration,  \* bound on spec generations
    MaxTicks        \* bound on the counter

ASSUME ChildAssumption ==
    /\ Driver \subseteq Child
    /\ Beam \in Child \ Driver
    /\ GoneWired \subseteq Child
    /\ HasEntry \in [Child -> BOOLEAN]
    /\ Timed \in BOOLEAN

ASSUME BudgetAssumption ==
    /\ HardMax \in Nat
    /\ Compiled \in [Child -> 1 .. HardMax]
    /\ Policies \subseteq [Child -> Nat]
    /\ MaxGeneration \in Nat

ASSUME TimedAssumption ==
    /\ Capacity \in Nat \ {0}
    /\ LifetimeLimit \in Nat \ {0}
    /\ LeakInterval \in Nat \ {0}
    /\ MaxTicks \in Nat

VARIABLES
    record,    \* child_records
    clock,     \* root_clock_state: available and the last observed tick
    spec,      \* spec_state.retained: generation and budget table
    now,       \* the physical counter, outside Root
    pd,        \* what each child's thread is doing, outside Root
    queued,    \* children with a fault message waiting for Root
    told,      \* give-up notifications sent for each child
    charges    \* the times of each child's restarts at its entry point

supVars == <<record, clock, spec, now, pd, queued, told, charges>>

NoSpec == [generation |-> 0, budget |-> [c \in Child |-> 0]]

RecordType == [lifetime : 0 .. HardMax, window : Nat, last : Nat, valid : BOOLEAN,
               state : {"live", "gone"}]

(***************************************************************************)
(* A PD's thread: running at its code, doomed (resumed at address 0, about *)
(* to fault), faulted (blocked until Root resumes it), or stopped by Root. *)
(***************************************************************************)
PDStates == {"running", "doomed", "faulted", "stopped"}

SupInit ==
    /\ record = [c \in Child |-> FreshRecord]
    /\ \E a \in BOOLEAN : clock = [available |-> a, last |-> 0]
    /\ spec = NoSpec
    /\ now = 0
    /\ pd = [c \in Child |-> "running"]
    /\ queued = {}
    /\ told = [c \in Child |-> 0]
    /\ charges = [c \in Child |-> <<>>]

(* A sample that went backwards disables the clock for good.               *)
root_clock_observe(clk, ticks) ==
    IF ~clk.available THEN clk
    ELSE IF ticks < clk.last THEN [clk EXCEPT !.available = FALSE]
    ELSE [clk EXCEPT !.last = ticks]

root_restart_inputs_for(c, clk) ==
    [child |-> c, compiled |-> Compiled[c], hardMax |-> HardMax, entry |-> HasEntry[c],
     timed |-> Timed,
     policy |-> [capacity |-> Capacity, limit |-> LifetimeLimit, interval |-> LeakInterval],
     clockAvailable |-> clk.available, now |-> clk.last]

(* The ceiling root_restart_child applies to c under policy s.             *)
root_status_budget(s, c) == root_restart_ceiling(s, root_restart_inputs_for(c, clock))

(* What reading the spec page can do to the retained policy: nothing, or   *)
(* replace it by one of a newer generation.                                *)
root_spec_refresh ==
    \/ spec' = spec
    \/ \E g \in (spec.generation + 1) .. MaxGeneration, b \in Policies :
          spec' = [generation |-> g, budget |-> b]

(***************************************************************************)
(* The kernel. Restarting or stopping a PD cancels a fault message of its  *)
(* that Root has not received yet; the comment on root_giveup expects such *)
(* a message to arrive nevertheless, so both are allowed. A PD restarted   *)
(* without an entry point resumes at address 0.                            *)
(***************************************************************************)
Unqueue(c) == queued' \in {queued, queued \ {c}}

microkit_pd_restart(c, entry) == pd' = [pd EXCEPT ![c] = IF entry THEN "running" ELSE "doomed"]
microkit_pd_stop(c) == pd' = [pd EXCEPT ![c] = "stopped"]

(* Mutant: a child given up on is not stopped.                             *)
root_giveup_NotStopped(c) ==
    /\ record' = [record EXCEPT ![c].state = "gone"]
    /\ told' = IF c \in GoneWired THEN [told EXCEPT ![c] = @ + 1] ELSE told
    /\ UNCHANGED <<pd, charges>>

(* Stop a child for good and tell its dependents, where a channel is wired.*)
root_giveup(c) ==
    /\ record' = [record EXCEPT ![c].state = "gone"]
    /\ microkit_pd_stop(c)
    /\ told' = IF c \in GoneWired THEN [told EXCEPT ![c] = @ + 1] ELSE told
    /\ UNCHANGED charges

(* The whole of root_restart_child: refresh the policy, observe the clock, *)
(* decide, and restart, give up or ignore.                                 *)
root_restart_child(c) ==
    LET clk  == root_clock_observe(clock, now)
        plan == root_restart_plan(spec', record[c], root_restart_inputs_for(c, clk))
    IN  /\ root_spec_refresh
        /\ clock' = [clk EXCEPT !.available = @ /\ ~plan.invalid]
        /\ \/ /\ plan.action = "ignore_gone"
              /\ UNCHANGED <<record, pd, told, charges>>
           \/ /\ plan.action \in Giveups
              /\ root_giveup(c)
           \/ /\ plan.action = "resume"
              /\ record' = [record EXCEPT ![c] = plan.next]
              /\ microkit_pd_restart(c, HasEntry[c])
              /\ charges' = [charges EXCEPT ![c] = Append(@, clk.last)]
              /\ UNCHANGED told
        /\ UNCHANGED now

(* fault(): a child's fault message reaches Root.                          *)
SupFault(c) ==
    /\ c \in queued
    /\ queued' = queued \ {c}
    /\ root_restart_child(c)

(* notified() on a debug-restart channel: a test restarts a driver.        *)
SupDebugRestart(c) ==
    /\ Unqueue(c)
    /\ root_restart_child(c)

(* Mutants of the injection: a gone child is resumed; the injection itself *)
(* is charged.                                                             *)
FaultInject_GoneResumed(c) ==
    /\ microkit_pd_restart(c, FALSE)
    /\ Unqueue(c)
    /\ UNCHANGED <<record, clock, spec, now, told, charges>>

FaultInject_Charged(c) ==
    /\ record[c].state # "gone"
    /\ record' = [record EXCEPT ![c].lifetime = @ + 1]
    /\ microkit_pd_restart(c, FALSE)
    /\ Unqueue(c)
    /\ UNCHANGED <<clock, spec, now, told, charges>>

(* notified() on a fault-injection channel: resume a driver at address 0,  *)
(* unless it is gone. The fault that follows is what gets charged.         *)
SupFaultInject(c) ==
    /\ record[c].state # "gone"
    /\ microkit_pd_restart(c, FALSE)
    /\ Unqueue(c)
    /\ UNCHANGED <<record, clock, spec, now, told, charges>>

(* protected(): an accepted RESTART_CHILD, which decide_restart only       *)
(* accepts for a live driver. The BEAM is the caller, so it is running.    *)
SupCommandRestart(c) ==
    /\ pd[Beam] = "running"
    /\ record[c].state = "live"
    /\ Unqueue(c)
    /\ root_restart_child(c)

(***************************************************************************)
(* Outside Root: a PD faults, the counter moves (also backwards, which     *)
(* root_clock_observe guards against).                                     *)
(***************************************************************************)
ChildFault(c) ==
    /\ pd[c] \in {"running", "doomed"}
    /\ pd' = [pd EXCEPT ![c] = "faulted"]
    /\ queued' = queued \cup {c}
    /\ UNCHANGED <<record, clock, spec, now, told, charges>>

CounterMoves ==
    /\ \E t \in 0 .. MaxTicks : now' = t
    /\ UNCHANGED <<record, clock, spec, pd, queued, told, charges>>

SupNext ==
    \/ \E c \in Child : SupFault(c) \/ ChildFault(c)
    \/ \E c \in Driver : SupDebugRestart(c) \/ SupFaultInject(c) \/ SupCommandRestart(c)
    \/ CounterMoves

(* Root, at the highest priority, always gets to a waiting fault message   *)
(* (strong, since a restart may cancel and a new fault requeue it); a      *)
(* child resumed at address 0 faults at its first instruction.             *)
SupFairness ==
    /\ \A c \in Child : SF_supVars(SupFault(c))
    /\ \A c \in Child : WF_supVars(pd[c] = "doomed" /\ ChildFault(c))

(* Supervision without fairness. It is also what module Root must refine:  *)
(* publishing status and serving the BEAM's commands adds no way to        *)
(* restart, stop or charge a child that is not one of these steps.         *)
SupSpec == SupInit /\ [][SupNext]_supVars

FairSupSpec == SupSpec /\ SupFairness
-----------------------------------------------------------------------------
(* Type correctness of Root's supervision state; the hard maximum bounds   *)
(* the counts, so the C counters cannot wrap.                              *)
SupTypeOK ==
    /\ record \in [Child -> RecordType]
    /\ clock \in [available : BOOLEAN, last : Nat]
    /\ spec \in [generation : Nat, budget : [Child -> Nat]]
    /\ now \in Nat
    /\ pd \in [Child -> PDStates]
    /\ queued \in SUBSET Child
    /\ told \in [Child -> Nat]
    /\ charges \in [Child -> Seq(Nat)]

(***************************************************************************)
(* A child is gone exactly when its thread is stopped, and its dependents  *)
(* were told exactly once, over every order of faults, late fault messages *)
(* and restart requests (root_giveup, main.c: "stopping or notifying       *)
(* again" must not happen).                                                *)
(***************************************************************************)
GoneIsStoppedAndTold ==
    \A c \in Child :
        /\ record[c].state = "gone" <=> pd[c] = "stopped"
        /\ told[c] = IF record[c].state = "gone" /\ c \in GoneWired THEN 1 ELSE 0

(***************************************************************************)
(* Each restart at an entry point is charged once, whatever asked for it   *)
(* and whichever selector decided; a fault injection is not charged. So    *)
(* the restarts of one boot never exceed the hard maximum.                 *)
(***************************************************************************)
RestartsAreCharged ==
    \A c \in Child :
        /\ Len(charges[c]) = record[c].lifetime
        /\ record[c].lifetime <= HardMax

(***************************************************************************)
(* The timed selector never meets a record or clock it must reject         *)
(* (root_timed_invalid_record, root_timed_clock_regressed): the window     *)
(* stays within capacity, holds a charge time exactly when it is not       *)
(* empty, and that time is never ahead of the observed clock.              *)
(***************************************************************************)
TimedPolicy == [capacity |-> Capacity, limit |-> LifetimeLimit, interval |-> LeakInterval]

TimedNeverInvalid ==
    \A c \in Child : TimedOk(record[c], TimedPolicy, clock.last)

(***************************************************************************)
(* The window is a rate limit: while the clock is usable, any k restarts   *)
(* of a child from time t to u satisfy k <= Capacity + (u - t) div         *)
(* LeakInterval (root_restart_decide_at: "one event consumes one window    *)
(* token").                                                                *)
(***************************************************************************)
WindowBoundsRate ==
    Timed /\ clock.available =>
        \A c \in Child : \A i, j \in DOMAIN charges[c] :
            i <= j => (j - i) + 1 <= Capacity + (charges[c][j] - charges[c][i]) \div LeakInterval

(***************************************************************************)
(* A gone child is final: no later fault, debug request, injection,        *)
(* command or policy changes its record or lets it run again.              *)
(***************************************************************************)
GoneIsTerminal ==
    [][\A c \in Child : record[c].state = "gone" =>
           record'[c] = record[c] /\ pd'[c] = pd[c] /\ told'[c] = told[c]]_supVars

(***************************************************************************)
(* Every restart is within the ceiling of the policy retained when it is   *)
(* decided, so a spec that lowers a budget binds the very next decision.   *)
(***************************************************************************)
RestartWithinCeiling ==
    [][\A c \in Child : Len(charges'[c]) > Len(charges[c]) =>
           Len(charges'[c]) <= root_status_budget(spec', c)]_supVars

(***************************************************************************)
(* A charged restart resumes its child at an entry point, whichever        *)
(* selector decided: a child the image has none for is given up on at its  *)
(* first fault instead of spending its budget on faults at address 0       *)
(* (root_restart_child: "would fault instantly and burn the whole budget   *)
(* doing it").                                                             *)
(***************************************************************************)
RestartLandsAtEntry ==
    [][\A c \in Child : Len(charges'[c]) > Len(charges[c]) => pd'[c] = "running"]_supVars

(***************************************************************************)
(* A faulted or doomed child is eventually running at its entry point or   *)
(* stopped: no fault is left unanswered.                                   *)
(***************************************************************************)
FaultIsAnswered ==
    \A c \in Child : pd[c] \in {"faulted", "doomed"} ~> pd[c] \in {"running", "stopped"}

(***************************************************************************)
(* No child faults forever: a child that keeps faulting is given up on,    *)
(* even while specs raise its budget (the runaway the budget bounds).      *)
(***************************************************************************)
NoEndlessRestart == \A c \in Child : <>[](pd[c] # "faulted")
=============================================================================
