------------------------------ MODULE SpecPage ------------------------------
(***************************************************************************)
(* The orchestrator_spec page: the BEAM commits a restart policy into one  *)
(* of two banks (src/lib/abi/spec_writer.c), Root reads the page before    *)
(* every restart decision (src/pd/root/spec.c) and keeps what it applied.  *)
(*                                                                         *)
(* The BEAM runs at priority 1 and Root at 254 on one core, so Root reads  *)
(* the whole page between any two stores of the writer and its marker      *)
(* recheck (unstable_copy) cannot fail. The BEAM's own faults are          *)
(* synchronous, so it crashes between writer calls, never inside one.      *)
(***************************************************************************)
EXTENDS Naturals

CONSTANTS
    Bodies,         \* budget[] and desired[] tables a spec may carry
    Undeclared,     \* those that name a child outside the presence mask
    NoBody,         \* the all-zero table
    MaxGeneration,  \* bound on generations
    SeqMax,         \* UINT32_MAX, at a width TLC can reach
    Fresh           \* whether the committer numbers its specs above every
                    \* generation it sees on the spec and status pages

ASSUME SpecAssumption ==
    /\ Undeclared \subseteq Bodies
    /\ NoBody \in Bodies \ Undeclared
    /\ MaxGeneration \in Nat
    /\ SeqMax \in Nat /\ SeqMax % 2 = 1
    /\ Fresh \in BOOLEAN

VARIABLES
    header,     \* the page header: "zero", "partial" or "valid"
    active,     \* header.active_bank
    banks,      \* the two banks
    writer,     \* spec_writer
    retained,   \* root_spec_state.retained
    reported,   \* root_spec_state's last recorded rejection
    closed,     \* every policy a close step made readable
    committed   \* the policy of the last flip

specVars == <<header, active, banks, writer, retained, reported, closed, committed>>

Bank == 0 .. 1
Content == [generation : Nat, body : Bodies]
NoPolicy == [generation |-> 0, body |-> NoBody]
NoReject == [reason |-> "unset", generation |-> 0, bank |-> 0]

(* The checksum of a bank is modelled by the content it was computed over. *)
EmptyBank == [seq |-> 0, content |-> NoPolicy, crc |-> NoPolicy]

spec_writer_init == [phase |-> "new", bank |-> 0, open |-> 0, content |-> NoPolicy]

SpecInit ==
    /\ header = "zero"
    /\ active = 0
    /\ banks = [b \in Bank |-> EmptyBank]
    /\ writer = spec_writer_init
    /\ retained = NoPolicy
    /\ reported = NoReject
    /\ closed = {}
    /\ committed = NoPolicy

(***************************************************************************)
(* The writer. Phase "new" is an idle writer that has no page yet, "idle"  *)
(* one that began; "header" and "writing" are inside begin and write,      *)
(* where a preempting Root sees half of the stores.                        *)
(***************************************************************************)
rootSide == <<retained, reported>>

CanBegin == writer.phase \in {"new", "idle", "flipped"}

(* Mutant: an interrupted commit's odd value is not skipped.               *)
OpenSeq_NotSkipped(b) == banks[b].seq + 1

(* The odd value open will store, past one left by an interrupted commit.  *)
OpenSeq(b) == banks[b].seq + (IF banks[b].seq % 2 = 1 THEN 2 ELSE 1)

(* Generations the committer may choose: its own policy, not the writer's. *)
Generations ==
    {g \in 0 .. MaxGeneration :
        Fresh => g > retained.generation /\ g > committed.generation}

Began(b, content) == [phase |-> "idle", bank |-> b, open |-> OpenSeq(b), content |-> content]

(* Mutants of begin: the sequence may wrap; the active bank is rewritten.  *)
begin_Unbounded(content) ==
    /\ CanBegin
    /\ header = "valid"
    /\ writer' = Began(1 - active, content)
    /\ UNCHANGED <<header, active, banks, closed, committed, rootSide>>

begin_ActiveBank(content) ==
    /\ CanBegin
    /\ header = "valid"
    /\ OpenSeq(active) < SeqMax
    /\ writer' = Began(active, content)
    /\ UNCHANGED <<header, active, banks, closed, committed, rootSide>>

(* begin on a valid header: nothing is stored; refused when the bank       *)
(* cannot take another odd/even pair.                                      *)
spec_writer_begin(content) ==
    /\ CanBegin
    /\ header = "valid"
    /\ OpenSeq(1 - active) < SeqMax
    /\ writer' = Began(1 - active, content)
    /\ UNCHANGED <<header, active, banks, closed, committed, rootSide>>

(* begin on a zero page: magic, then version and active_bank.              *)
BeginFresh(content) ==
    /\ CanBegin
    /\ header = "zero"
    /\ OpenSeq(1) < SeqMax
    /\ header' = "partial"
    /\ writer' = [Began(1, content) EXCEPT !.phase = "header"]
    /\ UNCHANGED <<active, banks, closed, committed, rootSide>>

HeaderStored ==
    /\ writer.phase = "header"
    /\ header' = "valid"
    /\ active' = 0
    /\ writer' = [writer EXCEPT !.phase = "idle"]
    /\ UNCHANGED <<banks, closed, committed, rootSide>>

(* open_seq + 1u of the close step, in the width of the sequence.          *)
CloseSeq(open) == IF open = SeqMax THEN 0 ELSE open + 1

(* spec_writer_step: every step runs from exactly one phase.               *)
Advance(from, to) ==
    /\ writer.phase = from
    /\ writer' = [writer EXCEPT !.phase = to]

StepOpen ==
    /\ Advance("idle", "open")
    /\ banks' = [banks EXCEPT ![writer.bank].seq = writer.open]
    /\ UNCHANGED <<header, active, closed, committed, rootSide>>

(* write_payload stores the generation first, the tables after it.         *)
StepWriteGeneration ==
    /\ Advance("open", "writing")
    /\ banks' = [banks EXCEPT ![writer.bank].content.generation = writer.content.generation]
    /\ UNCHANGED <<header, active, closed, committed, rootSide>>

StepWriteBody ==
    /\ Advance("writing", "written")
    /\ banks' = [banks EXCEPT ![writer.bank].content.body = writer.content.body]
    /\ UNCHANGED <<header, active, closed, committed, rootSide>>

StepSeal ==
    /\ Advance("written", "sealed")
    /\ banks' = [banks EXCEPT ![writer.bank].crc = banks[writer.bank].content]
    /\ UNCHANGED <<header, active, closed, committed, rootSide>>

StepClose ==
    /\ Advance("sealed", "closed")
    /\ banks' = [banks EXCEPT ![writer.bank].seq = CloseSeq(writer.open)]
    /\ closed' = closed \cup {writer.content}
    /\ UNCHANGED <<header, active, committed, rootSide>>

StepFlip ==
    /\ Advance("closed", "flipped")
    /\ active' = writer.bank
    /\ committed' = writer.content
    /\ UNCHANGED <<header, banks, closed, rootSide>>

(***************************************************************************)
(* Root's consumer.                                                        *)
(***************************************************************************)
(* Mutant: an odd sequence is not looked at.                               *)
BankVerdict_TornUnseen(b) ==
    IF banks[b].crc # banks[b].content THEN "checksum" ELSE "ok"

(* chryso_check_spec_bank: the sequence first, then the checksum.          *)
BankVerdict(b) ==
    IF banks[b].seq % 2 = 1 THEN "torn"
    ELSE IF banks[b].crc # banks[b].content THEN "checksum"
    ELSE "ok"

(* Mutant: an equal generation counts as newer.                            *)
evaluate_EqualIsNewer(b) ==
    LET c == banks[b].content
        rejected(reason, g) == [kind |-> "rejected", reason |-> reason, generation |-> g]
        accepted(kind) == [kind |-> kind, reason |-> "unset", generation |-> c.generation]
    IN  IF banks[b].seq = 0 THEN accepted("empty")
        ELSE IF BankVerdict(b) # "ok" THEN rejected(BankVerdict(b), 0)
        ELSE IF c.generation = 0 THEN accepted("empty")
        ELSE IF c.body \in Undeclared THEN rejected("undeclared", c.generation)
        ELSE IF c.generation < retained.generation THEN rejected("regressed", c.generation)
        ELSE accepted("newer")

(* What one bank of the copy offers against the retained policy.           *)
evaluate(b) ==
    LET c == banks[b].content
        rejected(reason, g) == [kind |-> "rejected", reason |-> reason, generation |-> g]
        accepted(kind) == [kind |-> kind, reason |-> "unset", generation |-> c.generation]
    IN  IF banks[b].seq = 0 THEN accepted("empty")
        ELSE IF BankVerdict(b) # "ok" THEN rejected(BankVerdict(b), 0)
        ELSE IF c.generation = 0 THEN accepted("empty")
        ELSE IF c.body \in Undeclared THEN rejected("undeclared", c.generation)
        ELSE IF c.generation < retained.generation THEN rejected("regressed", c.generation)
        ELSE IF c.generation > retained.generation THEN accepted("newer")
        ELSE IF c.body # retained.body THEN rejected("conflict", c.generation)
        ELSE accepted("same")

(* The selections table: the bank whose policy Root takes, or neither. The *)
(* active bank decides unless it is empty or rejected.                     *)
Chosen ==
    LET Fallback == evaluate(active).kind \in {"empty", "rejected"}
    IN  {b \in Bank : /\ evaluate(b).kind = "newer"
                      /\ b = active \/ Fallback}

(* Only a rejection of the header or of the active bank is reported.       *)
ConsumeReport ==
    IF header = "zero" THEN NoReject
    ELSE IF header = "partial" THEN [reason |-> "header", generation |-> 0, bank |-> 0]
    ELSE IF evaluate(active).kind = "rejected"
         THEN [reason |-> evaluate(active).reason,
               generation |-> evaluate(active).generation, bank |-> active]
    ELSE NoReject

root_spec_consume ==
    /\ reported' = ConsumeReport
    /\ retained' = IF header = "valid" /\ Chosen # {}
                   THEN banks[CHOOSE b \in Chosen : TRUE].content
                   ELSE retained

(* Another child's fault or request makes Root decide, preempting the BEAM *)
(* wherever it is.                                                         *)
RootDecides ==
    /\ root_spec_consume
    /\ UNCHANGED <<header, active, banks, writer, closed, committed>>

(* The BEAM faults between writer calls: Root reads the page and restarts  *)
(* it. The page outlives the restart, the writer does not.                 *)
BeamFaults ==
    /\ writer.phase \notin {"header", "writing"}
    /\ root_spec_consume
    /\ writer' = spec_writer_init
    /\ UNCHANGED <<header, active, banks, closed, committed>>

SpecNext ==
    \/ \E g \in Generations, body \in Bodies :
          LET content == [generation |-> g, body |-> body]
          IN  spec_writer_begin(content) \/ BeginFresh(content)
    \/ HeaderStored
    \/ StepOpen \/ StepWriteGeneration \/ StepWriteBody \/ StepSeal \/ StepClose \/ StepFlip
    \/ RootDecides
    \/ BeamFaults

SpecPageSpec == SpecInit /\ [][SpecNext]_specVars
-----------------------------------------------------------------------------
(* Type correctness of the page, its writer and its reader.                *)
SpecTypeOK ==
    /\ header \in {"zero", "partial", "valid"}
    /\ active \in Bank
    /\ banks \in [Bank -> [seq : 0 .. SeqMax, content : Content, crc : Content]]
    /\ writer \in [phase : {"new", "header", "idle", "open", "writing", "written", "sealed",
                            "closed", "flipped"},
                   bank : Bank, open : 0 .. SeqMax, content : Content]
    /\ retained \in Content
    /\ reported \in [reason : {"unset", "header", "torn", "checksum", "undeclared",
                               "regressed", "conflict"},
                     generation : Nat, bank : Bank]
    /\ closed \in SUBSET Content
    /\ committed \in Content

(***************************************************************************)
(* Root never runs on a policy nobody wrote: what it retains is one whole  *)
(* policy a writer closed, never the generation of one commit with the     *)
(* table of another, however commits were interrupted and resumed.         *)
(***************************************************************************)
RetainedWasClosed == retained = NoPolicy \/ retained \in closed

(***************************************************************************)
(* What module Supervisor assumes of reading the page: Root keeps its      *)
(* policy or replaces it by one of a newer generation, whose tables name   *)
(* only children of the image.                                             *)
(***************************************************************************)
RefreshContract ==
    [][/\ retained'.generation > retained.generation
       /\ retained'.body \notin Undeclared]_retained

(***************************************************************************)
(* A committed policy is durable. With fresh generations, after every      *)
(* decision Root holds the last flipped policy or a newer one, whatever    *)
(* commit is in progress, was interrupted by a BEAM restart, or had to     *)
(* skip an interrupted sequence number.                                    *)
(***************************************************************************)
CommitIsDurable ==
    [][Fresh /\ committed.body \notin Undeclared /\ (RootDecides \/ BeamFaults) =>
           \/ retained' = committed
           \/ retained'.generation > committed.generation]_specVars

(***************************************************************************)
(* No false alarm: with fresh generations and declared children, no commit *)
(* in progress or interrupted is reported as a rejection ("a fallback bank *)
(* mid-write is the normal state of a commit in progress", spec.c); only a *)
(* header whose first initialization Root preempted is.                    *)
(***************************************************************************)
OnlyHeaderRejected ==
    Fresh /\ (\A c \in closed : c.body \notin Undeclared) =>
        reported.reason \in {"unset", "header"}
=============================================================================
