----------------------------- MODULE CommandRate -----------------------------
(***************************************************************************)
(* The command bucket over time: well-formed requests arriving whenever    *)
(* the BEAM sends them, a counter that may also step backwards, and Root   *)
(* losing its clock. Every request samples the counter (protected() and    *)
(* root_command_decide).                                                   *)
(***************************************************************************)
EXTENDS CommandBucket, Sequences

CONSTANTS
    MaxTick,      \* bound on the counter
    MaxRequests   \* bound on the requests that are served

ASSUME RateAssumption == MaxTick \in Nat /\ MaxRequests \in Nat

VARIABLES
    bucket,   \* command_state's bucket
    tick,     \* the physical counter
    usable,   \* root_clock_state.available
    served,   \* the counter values at which a token was spent
    high      \* the highest counter value seen by a request

rateVars == <<bucket, tick, usable, served, high>>

RateInit ==
    /\ tick = 0
    /\ usable \in BOOLEAN
    /\ bucket = FullBucket(tick, usable)
    /\ served = <<>>
    /\ high = 0

(* root_status_ticks: the raw counter, or 0 once the clock is lost.        *)
Sample == IF usable THEN tick ELSE 0

Request ==
    LET refilled == refill_step(bucket, Sample, usable)
    IN  /\ Len(served) < MaxRequests
        /\ bucket' = Spend(refilled)
        /\ served' = IF refilled.tokens = 0 THEN served ELSE Append(served, tick)
        /\ high' = IF tick > high THEN tick ELSE high
        /\ UNCHANGED <<tick, usable>>

CounterMoves ==
    /\ tick' \in 0 .. MaxTick
    /\ UNCHANGED <<bucket, usable, served, high>>

(* A restart decision found the clock unusable.                            *)
ClockLost ==
    /\ usable
    /\ usable' = FALSE
    /\ UNCHANGED <<bucket, tick, served, high>>

RateNext == Request \/ CounterMoves \/ ClockLost

RateSpec == RateInit /\ [][RateNext]_rateVars
-----------------------------------------------------------------------------
(***************************************************************************)
(* The rate limit: while the bucket refills, k requests served from tick t *)
(* to tick u satisfy k <= CommandTokens + (u - t) div RefillInterval + 1.  *)
(* The last term is the interval already running when the first request    *)
(* arrived (refill_step keeps last_ticks when nothing is due).             *)
(***************************************************************************)
RateBound ==
    bucket.running =>
        \A i, j \in DOMAIN served :
            i <= j => (j - i) + 1 <= CommandTokens + (served[j] - served[i]) \div RefillInterval + 1

(***************************************************************************)
(* Time going backwards buys nothing: all requests ever served fit the     *)
(* highest tick any request saw, whatever the counter did in between       *)
(* (command.c: the bucket "keeps its own clock sample").                   *)
(***************************************************************************)
BackwardsBuysNothing ==
    Len(served) <= CommandTokens + high \div RefillInterval
=============================================================================
