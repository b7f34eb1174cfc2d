------------------------------- MODULE MCRoot -------------------------------
(* Root with one driver and the BEAM for TLC.                               *)
EXTENDS Root

MCChild == {"blk", "beam"}
MCCompiled == [c \in MCChild |-> IF c = "beam" THEN 1 ELSE 2]
MCHasEntry == [c \in MCChild |-> TRUE]
MCPolicies == {[blk |-> 1, beam |-> 2]}
MCViews == [generation : {1}, seq : {2, 4}, lifetime : {0, 1}]
             \cup {[generation |-> 0, seq |-> 2, lifetime |-> 0]}

(* Everything but the reply of the last callback, which no step reads: two  *)
(* states that differ in it alone go on alike. The action properties still  *)
(* see the reply of every step.                                             *)
MCView == <<record, clock, spec, now, pd, queued, told, charges, status, page, command, done>>
=============================================================================
