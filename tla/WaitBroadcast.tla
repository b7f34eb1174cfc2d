---------------------------- MODULE WaitBroadcast ----------------------------
(***************************************************************************)
(* What the idle wait promises the cothreads that share it: a pulse reaches *)
(* every cothread that waits when it is sent, no wait returns without one,  *)
(* and a cothread that was reached does run again.                          *)
(***************************************************************************)
CONSTANT Thread

VARIABLE wait    \* per cothread: running, waiting for a pulse, or reached by one

BroadcastTypeOK == wait \in [Thread -> {"running", "waiting", "woken"}]

BroadcastInit == wait = [t \in Thread |-> "running"]

Wait(t) ==
    /\ wait[t] = "running"
    /\ wait' = [wait EXCEPT ![t] = "waiting"]

Pulsed(w) == [t \in Thread |-> IF w[t] = "waiting" THEN "woken" ELSE w[t]]

Pulse == wait' = Pulsed(wait)

Return(t) ==
    /\ wait[t] = "woken"
    /\ wait' = [wait EXCEPT ![t] = "running"]

BroadcastNext == Pulse \/ \E t \in Thread : Wait(t) \/ Return(t)

BroadcastSafety == BroadcastInit /\ [][BroadcastNext]_wait

BroadcastSpec == BroadcastSafety /\ \A t \in Thread : WF_wait(Return(t))
=============================================================================
