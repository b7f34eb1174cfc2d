---------------------------- MODULE MCSupervisor ----------------------------
(* Instances of Supervisor for TLC: a block driver whose give-up channel is *)
(* wired, the crasher, which is no driver and has none, and the BEAM.       *)
EXTENDS Supervisor

MCChild == {"blk", "crasher", "beam"}
MCCompiled == [c \in MCChild |-> IF c = "beam" THEN 2 ELSE 1]
MCHasEntry == [c \in MCChild |-> TRUE]
MCPolicies == {[blk |-> 9, crasher |-> 0, beam |-> 1], [blk |-> 2, crasher |-> 1, beam |-> 0]}

\* The timed selector, for the driver and the BEAM alone.
MCTimedChild == {"blk", "beam"}
MCTimedCompiled == [c \in MCTimedChild |-> IF c = "beam" THEN 2 ELSE 1]
\* The image's beam_reset_entry was never patched.
MCNoBeamEntry == [c \in MCTimedChild |-> c # "beam"]
MCTimedPolicies == {[blk |-> 9, beam |-> 1], [blk |-> 2, beam |-> 0]}
=============================================================================
