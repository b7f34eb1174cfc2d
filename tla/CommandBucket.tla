---------------------------- MODULE CommandBucket ----------------------------
(***************************************************************************)
(* The token bucket that limits the command channel: the pure half, taken  *)
(* from src/pd/root/command.c. A bucket holds its tokens, the tick it was  *)
(* last refilled at and whether it still refills.                          *)
(***************************************************************************)
EXTENDS Naturals

CONSTANTS
    CommandTokens,  \* capacity of the command bucket
    RefillTicks     \* ticks in which an empty bucket refills

ASSUME BucketAssumption ==
    /\ CommandTokens \in Nat \ {0}
    /\ RefillTicks \in Nat \ {0}

(* The bucket of root_command_init; without a clock it never refills.      *)
FullBucket(ticks, valid) == [tokens |-> CommandTokens, last |-> ticks, running |-> valid]

(* Rounded up, so tokens never arrive faster than the configured rate.     *)
RefillInterval == (RefillTicks + CommandTokens - 1) \div CommandTokens

(* Mutant: a partial refill is stamped with an earlier time than it used.  *)
refill_step_StampKept(bucket, ticks, valid) ==
    LET due == (ticks - bucket.last) \div RefillInterval
    IN  IF ~bucket.running THEN bucket
        ELSE IF ~valid \/ ticks < bucket.last THEN [bucket EXCEPT !.running = FALSE]
        ELSE IF due = 0 THEN bucket
        ELSE IF due >= CommandTokens - bucket.tokens
             THEN [bucket EXCEPT !.tokens = CommandTokens, !.last = ticks]
        ELSE [bucket EXCEPT !.tokens = @ + due]

(* Mutant: a sample that went backwards restarts the refill from there.    *)
refill_step_Rewound(bucket, ticks, valid) ==
    LET due == (ticks - bucket.last) \div RefillInterval
    IN  IF ~bucket.running THEN bucket
        ELSE IF ~valid THEN [bucket EXCEPT !.running = FALSE]
        ELSE IF ticks < bucket.last THEN [bucket EXCEPT !.last = ticks]
        ELSE IF due = 0 THEN bucket
        ELSE IF due >= CommandTokens - bucket.tokens
             THEN [bucket EXCEPT !.tokens = CommandTokens, !.last = ticks]
        ELSE [bucket EXCEPT !.tokens = @ + due, !.last = @ + due * RefillInterval]

(* One clock sample through the refill machine: a lost clock or a sample   *)
(* that went backwards stops refilling for good.                           *)
refill_step(bucket, ticks, valid) ==
    LET due == (ticks - bucket.last) \div RefillInterval
    IN  IF ~bucket.running THEN bucket
        ELSE IF ~valid \/ ticks < bucket.last THEN [bucket EXCEPT !.running = FALSE]
        ELSE IF due = 0 THEN bucket
        ELSE IF due >= CommandTokens - bucket.tokens
             THEN [bucket EXCEPT !.tokens = CommandTokens, !.last = ticks]
        ELSE [bucket EXCEPT !.tokens = @ + due, !.last = @ + due * RefillInterval]

(* A well-formed request takes a token if there is one.                    *)
Spend(bucket) == IF bucket.tokens = 0 THEN bucket ELSE [bucket EXCEPT !.tokens = @ - 1]
=============================================================================
