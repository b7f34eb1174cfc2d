--------------------------- MODULE SpecPageProofs ---------------------------
(***************************************************************************)
(* Proofs about module SpecPage, for every set of tables, generation bound *)
(* and sequence width. Types, torn policies and the refresh contract hold  *)
(* of any committer, whose generations may be fresh, reused or lower; the  *)
(* last part (FreshInv) is about one that numbers its policies freshly:    *)
(* nothing of its is reported but the very first header, and what it has   *)
(* committed stays.                                                        *)
(***************************************************************************)
EXTENDS SpecPage, TLAPS

BankType == [seq : 0 .. SeqMax, content : Content, crc : Content]
Phases == {"new", "header", "idle", "open", "writing", "written", "sealed", "closed", "flipped"}
WriterType == [phase : Phases, bank : Bank, open : 0 .. SeqMax, content : Content]

(* The page, the writer and the ghost set that the argument is about.      *)
PageTypeOK ==
    /\ banks \in [Bank -> BankType]
    /\ active \in Bank
    /\ writer \in WriterType
    /\ retained \in Content
    /\ closed \in SUBSET Content

(* A writer that began holds an odd value that leaves room for the even    *)
(* one; while it writes, its bank carries that odd value and, once         *)
(* written, the writer's content.                                          *)
WriterInv ==
    /\ writer.phase # "new" => writer.open % 2 = 1 /\ writer.open < SeqMax
    /\ writer.phase \in {"open", "writing", "written", "sealed"} =>
          banks[writer.bank].seq = writer.open
    /\ writer.phase = "writing" =>
          banks[writer.bank].content.generation = writer.content.generation
    /\ writer.phase \in {"written", "sealed"} =>
          banks[writer.bank].content = writer.content

(* A bank that looks readable holds a closed policy.                       *)
ReadableWasClosed ==
    \A b \in Bank : banks[b].seq # 0 /\ banks[b].seq % 2 = 0 => banks[b].content \in closed

PageInv == PageTypeOK /\ WriterInv /\ ReadableWasClosed /\ RetainedWasClosed

(* The next odd value is odd, whatever the bank holds.                     *)
LEMMA OpenSeqOdd ==
    ASSUME banks \in [Bank -> BankType], NEW b \in Bank
    PROVE  OpenSeq(b) \in Nat /\ OpenSeq(b) % 2 = 1
<1>1. banks[b].seq \in Nat
  BY SpecAssumption DEF BankType
<1>2. QED
  BY <1>1 DEF OpenSeq

(* What Root takes from the page is the content of a readable bank, newer  *)
(* than what it had and within the image.                                  *)
LEMMA ConsumeFacts ==
    ASSUME PageTypeOK, root_spec_consume, retained' # retained
    PROVE  \E b \in Bank :
              /\ retained' = banks[b].content
              /\ banks[b].seq # 0 /\ banks[b].seq % 2 = 0
              /\ retained'.generation > retained.generation
              /\ retained'.body \notin Undeclared
<1>1. Chosen # {} /\ retained' = banks[CHOOSE b \in Chosen : TRUE].content
  BY Zenon DEF root_spec_consume
<1>2. PICK b \in Chosen : retained' = banks[b].content
  BY <1>1, Zenon
<1>3. b \in Bank /\ evaluate(b).kind = "newer"
  BY <1>2 DEF Chosen
<1>4. banks[b].seq \in Nat /\ banks[b].content.generation \in Nat /\ retained.generation \in Nat
  BY <1>3, SpecAssumption DEF PageTypeOK, BankType, Content
<1>5. /\ banks[b].seq # 0
      /\ BankVerdict(b) = "ok"
      /\ banks[b].content.body \notin Undeclared
      /\ banks[b].content.generation > retained.generation
  BY <1>3, <1>4 DEF evaluate
<1>6. banks[b].seq % 2 # 1
  BY <1>5 DEF BankVerdict
<1>7. banks[b].seq % 2 = 0
  BY <1>4, <1>6
<1>8. QED
  BY <1>2, <1>3, <1>5, <1>7

-----------------------------------------------------------------------------
(* One store of the writer into its own bank: the page stays typed, and    *)
(* the other bank keeps what it had.                                       *)
Stored(bank) ==
    /\ bank \in BankType
    /\ banks' = [banks EXCEPT ![writer.bank] = bank]

LEMMA StoreKeepsType ==
    ASSUME PageTypeOK, NEW bank, Stored(bank)
    PROVE  /\ banks' \in [Bank -> BankType]
           /\ banks'[writer.bank] = bank
           /\ \A b \in Bank : b # writer.bank => banks'[b] = banks[b]
BY DEF PageTypeOK, Stored, WriterType

(* Root's side of a step keeps the invariant of what it retains.           *)
LEMMA ConsumeKeeps ==
    ASSUME PageInv, root_spec_consume
    PROVE  retained' \in Content /\ (retained' = NoPolicy \/ retained' \in closed)
<1>1. CASE retained' = retained
  BY <1>1 DEF PageInv, PageTypeOK, RetainedWasClosed
<1>2. CASE retained' # retained
  <2>1. PICK b \in Bank : retained' = banks[b].content /\ banks[b].seq # 0 /\ banks[b].seq % 2 = 0
    BY <1>2, ConsumeFacts DEF PageInv
  <2>2. QED
    BY <2>1 DEF PageInv, PageTypeOK, ReadableWasClosed, BankType
<1>3. QED
  BY <1>1, <1>2

(* A step that moves only the writer, into a phase with no claim on the    *)
(* banks and an odd value that fits.                                       *)
LEMMA WriterOnly ==
    ASSUME PageInv, UNCHANGED <<banks, retained, closed>>, active' \in Bank,
           writer' \in WriterType,
           writer'.phase \in {"new", "header", "idle", "closed", "flipped"},
           writer'.phase # "new" => writer'.open % 2 = 1 /\ writer'.open < SeqMax
    PROVE  PageInv'
BY DEF PageInv, PageTypeOK, WriterInv, ReadableWasClosed, RetainedWasClosed

(* The policies a committer may begin with are typed.                      *)
LEMMA BeginTyped ==
    ASSUME NEW g \in Generations, NEW body \in Bodies
    PROVE  [generation |-> g, body |-> body] \in Content
BY SpecAssumption DEF Generations, Content

LEMMA PageInit ==
    ASSUME SpecInit
    PROVE  PageInv
<1>1. NoPolicy \in Content
  BY SpecAssumption DEF NoPolicy, Content
<1>2. EmptyBank \in BankType /\ EmptyBank.seq = 0
  BY <1>1, SpecAssumption DEF EmptyBank, BankType
<1>3. spec_writer_init \in WriterType /\ spec_writer_init.phase = "new"
  BY <1>1, SpecAssumption DEF spec_writer_init, WriterType, Phases, Bank
<1>4. PageTypeOK
  BY <1>1, <1>2, <1>3 DEF SpecInit, PageTypeOK, Bank
<1>5. WriterInv
  BY <1>3 DEF SpecInit, WriterInv
<1>6. ReadableWasClosed /\ RetainedWasClosed
  BY <1>2 DEF SpecInit, ReadableWasClosed, RetainedWasClosed
<1>7. QED
  BY <1>4, <1>5, <1>6 DEF PageInv

LEMMA BeginKeeps ==
    ASSUME PageInv, NEW content \in Content, spec_writer_begin(content) \/ BeginFresh(content)
    PROVE  PageInv'
<1>1. active \in Bank /\ 1 - active \in Bank /\ 1 \in Bank /\ 0 \in Bank
  BY DEF PageInv, PageTypeOK, Bank
<1>2. PICK b \in Bank : /\ OpenSeq(b) < SeqMax
                        /\ \/ writer' = Began(b, content)
                           \/ writer' = [Began(b, content) EXCEPT !.phase = "header"]
  BY <1>1 DEF spec_writer_begin, BeginFresh
<1>3. OpenSeq(b) \in 0 .. SeqMax /\ OpenSeq(b) % 2 = 1
  BY <1>2, OpenSeqOdd, SpecAssumption DEF PageInv, PageTypeOK
<1>4. /\ writer' \in WriterType /\ writer'.phase \in {"idle", "header"}
      /\ writer'.open = OpenSeq(b)
  BY <1>2, <1>3 DEF Began, WriterType, Phases
<1>5. UNCHANGED <<banks, retained, closed, active>>
  BY DEF spec_writer_begin, BeginFresh, rootSide
<1>6. QED
  BY <1>1, <1>2, <1>3, <1>4, <1>5, WriterOnly

(* What a step of the writer does to the writer itself.                    *)
LEMMA AdvanceFacts ==
    ASSUME writer \in WriterType, NEW from, NEW to \in Phases, Advance(from, to)
    PROVE  /\ writer.phase = from
           /\ writer' \in WriterType
           /\ writer'.phase = to /\ writer'.bank = writer.bank
           /\ writer'.open = writer.open /\ writer'.content = writer.content
BY DEF Advance, WriterType

LEMMA StepKeeps ==
    ASSUME PageInv,
           \/ StepOpen \/ StepWriteGeneration \/ StepWriteBody \/ StepSeal
           \/ StepClose \/ StepFlip \/ HeaderStored
    PROVE  PageInv'
<1> DEFINE b == writer.bank
<1> DEFINE old == banks[b]
<1>1. /\ writer \in WriterType /\ b \in Bank /\ writer.content \in Content
      /\ writer.open \in 0 .. SeqMax /\ old \in BankType /\ banks \in [Bank -> BankType]
  BY DEF PageInv, PageTypeOK, WriterType
<1>2. /\ old.seq \in 0 .. SeqMax /\ old.content \in Content /\ old.crc \in Content
  BY <1>1 DEF BankType
<1>3. CASE StepOpen
  <2> DEFINE new == [old EXCEPT !.seq = writer.open]
  <2>1. writer.phase = "idle" /\ writer' \in WriterType /\ writer'.phase = "open"
        /\ writer'.bank = b /\ writer'.open = writer.open /\ writer'.content = writer.content
    BY <1>1, <1>3, AdvanceFacts DEF StepOpen, Phases
  <2>2. banks' = [banks EXCEPT ![b] = new] /\ UNCHANGED <<active, retained, closed>>
    BY <1>3, Zenon DEF StepOpen, rootSide
  <2>3. new \in BankType /\ new.seq = writer.open
    BY <1>1, Zenon DEF BankType
  <2>4. writer.open % 2 = 1 /\ writer.open < SeqMax
    BY <2>1 DEF PageInv, WriterInv
  <2> HIDE DEF new, old
  <2>5. /\ banks' \in [Bank -> BankType] /\ banks'[b] = new
        /\ \A d \in Bank : d # b => banks'[d] = banks[d]
    BY <2>2, <2>3, StoreKeepsType DEF Stored, PageInv
  <2>6. PageTypeOK'
    BY <2>1, <2>2, <2>5 DEF PageInv, PageTypeOK
  <2>7. WriterInv'
    BY <2>1, <2>3, <2>4, <2>5 DEF WriterInv
  <2>8. ReadableWasClosed'
    BY <2>2, <2>3, <2>4, <2>5 DEF PageInv, ReadableWasClosed
  <2>9. QED
    BY <2>2, <2>6, <2>7, <2>8 DEF PageInv, RetainedWasClosed
<1>4. CASE StepWriteGeneration
  <2> DEFINE c == [old.content EXCEPT !.generation = writer.content.generation]
  <2> DEFINE new == [old EXCEPT !.content = c]
  <2>1. writer.phase = "open" /\ writer' \in WriterType /\ writer'.phase = "writing"
        /\ writer'.bank = b /\ writer'.open = writer.open /\ writer'.content = writer.content
    BY <1>1, <1>4, AdvanceFacts DEF StepWriteGeneration, Phases
  <2>2. banks' = [banks EXCEPT ![b] = new] /\ UNCHANGED <<active, retained, closed>>
    BY <1>4, Zenon DEF StepWriteGeneration, rootSide
  <2>3. c \in Content /\ c.generation = writer.content.generation
    BY <1>1, <1>2, Zenon DEF Content
  <2> HIDE DEF c
  <2>4. new \in BankType /\ new.seq = old.seq /\ new.content = c
    BY <1>1, <2>3, Zenon DEF BankType
  <2>5. writer.open % 2 = 1 /\ writer.open < SeqMax /\ old.seq = writer.open
    BY <2>1 DEF PageInv, WriterInv
  <2> HIDE DEF new, old
  <2>6. /\ banks' \in [Bank -> BankType] /\ banks'[b] = new
        /\ \A d \in Bank : d # b => banks'[d] = banks[d]
    BY <2>2, <2>4, StoreKeepsType DEF Stored, PageInv
  <2>7. PageTypeOK'
    BY <2>1, <2>2, <2>6 DEF PageInv, PageTypeOK
  <2>8. WriterInv'
    BY <2>1, <2>3, <2>4, <2>5, <2>6 DEF WriterInv
  <2>9. ReadableWasClosed'
    BY <2>2, <2>4, <2>5, <2>6 DEF PageInv, ReadableWasClosed
  <2>10. QED
    BY <2>2, <2>7, <2>8, <2>9 DEF PageInv, RetainedWasClosed
<1>5. CASE StepWriteBody
  <2> DEFINE c == [old.content EXCEPT !.body = writer.content.body]
  <2> DEFINE new == [old EXCEPT !.content = c]
  <2>1. writer.phase = "writing" /\ writer' \in WriterType /\ writer'.phase = "written"
        /\ writer'.bank = b /\ writer'.open = writer.open /\ writer'.content = writer.content
    BY <1>1, <1>5, AdvanceFacts DEF StepWriteBody, Phases
  <2>2. banks' = [banks EXCEPT ![b] = new] /\ UNCHANGED <<active, retained, closed>>
    BY <1>5, Zenon DEF StepWriteBody, rootSide
  <2>3. /\ writer.open % 2 = 1 /\ writer.open < SeqMax /\ old.seq = writer.open
        /\ old.content.generation = writer.content.generation
    BY <2>1 DEF PageInv, WriterInv
  <2>4. c = writer.content
    BY <1>1, <1>2, <2>3 DEF Content
  <2> HIDE DEF c
  <2>5. new \in BankType /\ new.seq = old.seq /\ new.content = c
    BY <1>1, <2>4, Zenon DEF BankType
  <2> HIDE DEF new, old
  <2>6. /\ banks' \in [Bank -> BankType] /\ banks'[b] = new
        /\ \A d \in Bank : d # b => banks'[d] = banks[d]
    BY <2>2, <2>5, StoreKeepsType DEF Stored, PageInv
  <2>7. PageTypeOK'
    BY <2>1, <2>2, <2>6 DEF PageInv, PageTypeOK
  <2>8. WriterInv'
    BY <2>1, <2>3, <2>4, <2>5, <2>6 DEF WriterInv
  <2>9. ReadableWasClosed'
    BY <2>2, <2>3, <2>5, <2>6 DEF PageInv, ReadableWasClosed
  <2>10. QED
    BY <2>2, <2>7, <2>8, <2>9 DEF PageInv, RetainedWasClosed
<1>6. CASE StepSeal
  <2> DEFINE new == [old EXCEPT !.crc = old.content]
  <2>1. writer.phase = "written" /\ writer' \in WriterType /\ writer'.phase = "sealed"
        /\ writer'.bank = b /\ writer'.open = writer.open /\ writer'.content = writer.content
    BY <1>1, <1>6, AdvanceFacts DEF StepSeal, Phases
  <2>2. banks' = [banks EXCEPT ![b] = new] /\ UNCHANGED <<active, retained, closed>>
    BY <1>6, Zenon DEF StepSeal, rootSide
  <2>3. /\ writer.open % 2 = 1 /\ writer.open < SeqMax /\ old.seq = writer.open
        /\ old.content = writer.content
    BY <2>1 DEF PageInv, WriterInv
  <2>4. new \in BankType /\ new.seq = old.seq /\ new.content = old.content
    BY <1>1, <1>2, Zenon DEF BankType
  <2> HIDE DEF new, old
  <2>5. /\ banks' \in [Bank -> BankType] /\ banks'[b] = new
        /\ \A d \in Bank : d # b => banks'[d] = banks[d]
    BY <2>2, <2>4, StoreKeepsType DEF Stored, PageInv
  <2>6. PageTypeOK'
    BY <2>1, <2>2, <2>5 DEF PageInv, PageTypeOK
  <2>7. WriterInv'
    BY <2>1, <2>3, <2>4, <2>5 DEF WriterInv
  <2>8. ReadableWasClosed'
    BY <2>2, <2>3, <2>4, <2>5 DEF PageInv, ReadableWasClosed
  <2>9. QED
    BY <2>2, <2>6, <2>7, <2>8 DEF PageInv, RetainedWasClosed
<1>7. CASE StepClose
  <2> DEFINE e == CloseSeq(writer.open)
  <2> DEFINE new == [old EXCEPT !.seq = e]
  <2>1. writer.phase = "sealed" /\ writer' \in WriterType /\ writer'.phase = "closed"
        /\ writer'.bank = b /\ writer'.open = writer.open /\ writer'.content = writer.content
    BY <1>1, <1>7, AdvanceFacts DEF StepClose, Phases
  <2>2. /\ banks' = [banks EXCEPT ![b] = new] /\ UNCHANGED <<active, retained>>
        /\ closed' = closed \cup {writer.content}
    BY <1>7, Zenon DEF StepClose, rootSide
  <2>3. /\ writer.open % 2 = 1 /\ writer.open < SeqMax
        /\ old.content = writer.content
    BY <2>1 DEF PageInv, WriterInv
  <2>4. e \in 0 .. SeqMax
    BY <1>1, <2>3, SpecAssumption DEF CloseSeq
  <2> HIDE DEF e
  <2>5. new \in BankType /\ new.content = old.content
    BY <1>1, <2>4, Zenon DEF BankType
  <2> HIDE DEF new, old
  <2>6. /\ banks' \in [Bank -> BankType] /\ banks'[b] = new
        /\ \A d \in Bank : d # b => banks'[d] = banks[d]
    BY <2>2, <2>5, StoreKeepsType DEF Stored, PageInv
  <2>7. PageTypeOK'
    BY <1>1, <2>1, <2>2, <2>6 DEF PageInv, PageTypeOK
  <2>8. WriterInv'
    BY <2>1, <2>3 DEF WriterInv
  <2>9. ReadableWasClosed'
    BY <2>2, <2>3, <2>5, <2>6 DEF PageInv, ReadableWasClosed
  <2>10. QED
    BY <2>2, <2>7, <2>8, <2>9 DEF PageInv, RetainedWasClosed
<1>8. CASE StepFlip
  <2>1. writer.phase = "closed" /\ writer' \in WriterType /\ writer'.phase = "flipped"
        /\ writer'.open = writer.open
    BY <1>1, <1>8, AdvanceFacts DEF StepFlip, Phases
  <2>2. UNCHANGED <<banks, retained, closed>> /\ active' \in Bank
    BY <1>1, <1>8 DEF StepFlip, rootSide
  <2>3. writer'.open % 2 = 1 /\ writer'.open < SeqMax
    BY <2>1 DEF PageInv, WriterInv
  <2>4. QED
    BY <2>1, <2>2, <2>3, WriterOnly
<1>9. CASE HeaderStored
  <2>1. /\ writer.phase = "header" /\ writer' = [writer EXCEPT !.phase = "idle"]
        /\ UNCHANGED <<banks, retained, closed>> /\ active' = 0
    BY <1>9 DEF HeaderStored, rootSide
  <2>2. writer' \in WriterType /\ writer'.phase = "idle" /\ writer'.open = writer.open
    BY <1>1, <2>1 DEF WriterType, Phases
  <2>3. writer'.open % 2 = 1 /\ writer'.open < SeqMax
    BY <2>1, <2>2 DEF PageInv, WriterInv
  <2>4. QED
    BY <2>1, <2>2, <2>3, WriterOnly DEF Bank
<1>10. QED
  BY <1>3, <1>4, <1>5, <1>6, <1>7, <1>8, <1>9

LEMMA RootSideKeeps ==
    ASSUME PageInv, RootDecides \/ BeamFaults
    PROVE  PageInv'
<1>1. root_spec_consume /\ UNCHANGED <<active, banks, closed>>
  BY DEF RootDecides, BeamFaults
<1>2. retained' \in Content /\ (retained' = NoPolicy \/ retained' \in closed)
  BY <1>1, ConsumeKeeps
<1>3. NoPolicy \in Content /\ 0 \in 0 .. SeqMax /\ 0 \in Bank
  BY SpecAssumption DEF NoPolicy, Content, Bank
<1>4. spec_writer_init \in WriterType /\ spec_writer_init.phase = "new"
  BY <1>3, Zenon DEF spec_writer_init, WriterType, Phases
<1>5. writer' = writer \/ writer' = spec_writer_init
  BY DEF RootDecides, BeamFaults
<1>6. PageTypeOK'
  BY <1>1, <1>2, <1>4, <1>5 DEF PageInv, PageTypeOK
<1>7. WriterInv'
  BY <1>1, <1>4, <1>5 DEF PageInv, WriterInv
<1>8. ReadableWasClosed' /\ RetainedWasClosed'
  BY <1>1, <1>2 DEF PageInv, ReadableWasClosed, RetainedWasClosed
<1>9. QED
  BY <1>6, <1>7, <1>8 DEF PageInv

LEMMA PageStep ==
    ASSUME PageInv, [SpecNext]_specVars
    PROVE  PageInv'
<1>1. ASSUME NEW g \in Generations, NEW body \in Bodies,
             \/ spec_writer_begin([generation |-> g, body |-> body])
             \/ BeginFresh([generation |-> g, body |-> body])
      PROVE  PageInv'
  BY <1>1, BeginTyped, BeginKeeps
<1>2. CASE UNCHANGED specVars
  BY <1>2 DEF specVars, PageInv, PageTypeOK, WriterInv, ReadableWasClosed, RetainedWasClosed
<1>3. QED
  BY <1>1, <1>2, StepKeeps, RootSideKeeps, Zenon DEF SpecNext

(* Root never runs on a policy nobody wrote, at any sequence width and for *)
(* any committer, however commits are interrupted (RetainedWasClosed).     *)
THEOREM NoTornPolicy == SpecPageSpec => []RetainedWasClosed
<1>1. SpecInit => PageInv
  BY PageInit
<1>2. PageInv /\ [SpecNext]_specVars => PageInv'
  BY PageStep
<1>3. PageInv => RetainedWasClosed
  BY DEF PageInv
<1>4. QED
  BY <1>1, <1>2, <1>3, PTL DEF SpecPageSpec

(* Root replaces its policy only by one of a newer generation that names   *)
(* only children of the image: the contract module Supervisor assumes of   *)
(* root_spec_refresh (RefreshContract).                                    *)
THEOREM RefreshIsForward == SpecPageSpec => RefreshContract
<1> DEFINE Forward == /\ retained'.generation > retained.generation
                      /\ retained'.body \notin Undeclared
<1>1. SpecInit => PageInv
  BY PageInit
<1>2. PageInv /\ [SpecNext]_specVars => PageInv'
  BY PageStep
<1>3. ASSUME PageInv, [SpecNext]_specVars
      PROVE  [Forward]_retained
  <2>1. CASE root_spec_consume
    BY <1>3, <2>1, ConsumeFacts DEF PageInv
  <2>2. CASE ~root_spec_consume
    <3>1. retained' = retained
      BY <1>3, <2>2 DEF SpecNext, spec_writer_begin, BeginFresh, HeaderStored, StepOpen,
             StepWriteGeneration, StepWriteBody, StepSeal, StepClose, StepFlip, RootDecides,
             BeamFaults, rootSide, specVars
    <3>2. QED
      BY <3>1
  <2>3. QED
    BY <2>1, <2>2
<1>4. QED
  BY <1>1, <1>2, <1>3, PTL DEF SpecPageSpec, RefreshContract

-----------------------------------------------------------------------------
(* The rest of the types, and the committer that numbers its specs above    *)
(* what it sees. A commit in progress is numbered above what Root holds and *)
(* above the last flip; the active bank is the last flip, sealed; and what  *)
(* an interrupted commit left in the other bank is either no news to Root,  *)
(* or Root does not look there because the active bank is what it holds.    *)
RestTypeOK ==
    /\ header \in {"zero", "partial", "valid"}
    /\ committed \in Content
    /\ reported \in [reason : {"unset", "header", "torn", "checksum", "undeclared",
                               "regressed", "conflict"},
                     generation : Nat, bank : Bank]

Begun == {"header", "idle", "open", "writing", "written", "sealed"}
Unowned == {"new", "header", "idle", "flipped"}

Sealed(b, c) ==
    /\ banks[b].seq # 0 /\ banks[b].seq % 2 = 0
    /\ banks[b].content = c /\ banks[b].crc = c

HeaderInv ==
    /\ header = "zero" => writer.phase = "new"
    /\ header = "partial" <=> writer.phase = "header"
    /\ header # "valid" => committed = NoPolicy /\ active = 0
    /\ writer.phase \in Begun \cup {"closed"} => writer.bank = 1 - active

ActiveInv ==
    \/ committed = NoPolicy /\ banks[active].seq = 0
    \/ committed.generation > 0 /\ Sealed(active, committed)

SealInv ==
    /\ writer.phase = "sealed" => banks[writer.bank].crc = writer.content
    /\ writer.phase = "closed" => Sealed(writer.bank, writer.content) /\ writer.content \in closed

NumberInv ==
    /\ writer.phase \in Begun \cup {"closed"} =>
          writer.content.generation > committed.generation
    /\ writer.phase \in Begun => writer.content.generation > retained.generation
    /\ writer.phase = "closed" =>
          writer.content.generation > retained.generation \/ retained = writer.content
    /\ retained.generation = committed.generation => retained = committed
    /\ committed = NoPolicy \/ committed \in closed

(* A bank Root could take its policy from; one whose policy is newer than   *)
(* Root's; and one that holds Root's.                                       *)
Readable(b) ==
    /\ banks[b].seq # 0 /\ banks[b].seq % 2 = 0
    /\ banks[b].crc = banks[b].content /\ banks[b].content.body \notin Undeclared

Offers(b) == Readable(b) /\ banks[b].content.generation > retained.generation
Held(b) == Readable(b) /\ banks[b].content = retained /\ retained.generation # 0

StaleInv ==
    writer.phase \in Unowned /\ Offers(1 - active) =>
        Held(active) \/ banks[1 - active].content.generation < committed.generation

Declared == \A c \in closed : c.body \notin Undeclared

ReportInv ==
    Declared =>
        /\ reported.reason \in {"unset", "header"}
        /\ committed = NoPolicy \/ retained.generation <= committed.generation

FreshInv == HeaderInv /\ ActiveInv /\ SealInv /\ NumberInv /\ StaleInv /\ ReportInv

-----------------------------------------------------------------------------
RejectReasons == {"torn", "checksum", "undeclared", "regressed", "conflict"}

(* What Root makes of a bank.                                               *)
LEMMA EvaluateFacts ==
    ASSUME PageTypeOK, NEW b \in Bank
    PROVE  /\ evaluate(b).kind = "newer" <=> Offers(b)
           /\ Held(b) => evaluate(b).kind = "same"
           /\ evaluate(b).kind = "same" => Held(b)
           /\ evaluate(b).kind = "rejected" => evaluate(b).reason \in RejectReasons
           /\ evaluate(b).generation \in Nat
<1>. DEFINE c == banks[b].content
            g == banks[b].content.generation
            h == retained.generation
            q == banks[b].seq
<1>1. /\ c \in Content /\ g \in Nat /\ h \in Nat /\ q \in Nat /\ retained \in Content
  BY SpecAssumption DEF PageTypeOK, BankType, Content
<1>2. q % 2 \in {0, 1}
  BY <1>1
<1>3. (c = retained) <=> (g = h /\ c.body = retained.body)
  BY <1>1 DEF Content
<1>4. (g > h) <=> ~(g < h) /\ g # h
  BY <1>1
<1>5. ~(g > h /\ g = 0) /\ (g > h => ~(g < h))
  BY <1>1
<1>6. BankVerdict(b) \in {"ok", "torn", "checksum"}
      /\ (BankVerdict(b) = "ok" <=> q % 2 = 0 /\ banks[b].crc = c)
  BY <1>2 DEF BankVerdict
<1>7. evaluate(b).generation \in {0, g}
  BY DEF evaluate
<1>8. evaluate(b).kind = "rejected" => evaluate(b).reason \in RejectReasons
  BY <1>6 DEF evaluate, RejectReasons
<1>9. evaluate(b).kind = "newer" <=> Offers(b)
  BY <1>1, <1>4, <1>5, <1>6 DEF evaluate, Offers, Readable
<1>10. Held(b) <=> evaluate(b).kind = "same"
  BY <1>1, <1>3, <1>4, <1>5, <1>6 DEF evaluate, Held, Readable
<1>. QED
  BY <1>1, <1>7, <1>8, <1>9, <1>10

(* One reading of the page: Root keeps what it has, or takes what a bank    *)
(* offers, the other bank's only when the active one is no use to it.       *)
LEMMA ConsumeOutcome ==
    ASSUME PageTypeOK, root_spec_consume
    PROVE  \/ /\ retained' = retained
              /\ header = "valid" => /\ ~Offers(active)
                                     /\ Offers(1 - active) => Held(active)
           \/ /\ header = "valid"
              /\ \E b \in Bank : /\ retained' = banks[b].content /\ Offers(b)
                                 /\ b # active => ~Offers(active) /\ ~Held(active)
<1>1. active \in Bank /\ 1 - active \in Bank /\ Bank = {active, 1 - active}
  BY DEF PageTypeOK, Bank
<1>2. evaluate(active).kind \in {"empty", "rejected", "newer", "same"}
  BY DEF evaluate
<1>3. Chosen = {b \in Bank : Offers(b) /\ (b = active \/ ~(Offers(active) \/ Held(active)))}
  BY <1>1, <1>2, EvaluateFacts DEF Chosen
<1>4. CASE header = "valid" /\ Chosen # {}
  <2>1. PICK b \in Chosen : retained' = banks[b].content
    BY <1>4, Zenon DEF root_spec_consume
  <2>. QED
    BY <1>3, <1>4, <2>1
<1>5. CASE ~(header = "valid" /\ Chosen # {})
  <2>1. retained' = retained
    BY <1>5 DEF root_spec_consume
  <2>. QED
    BY <1>1, <1>3, <1>5, <2>1
<1>. QED
  BY <1>4, <1>5

(* What Root reports of one reading of the page.                            *)
LEMMA ReportFacts ==
    ASSUME PageTypeOK, RestTypeOK
    PROVE  /\ ConsumeReport \in [reason : {"unset", "header", "torn", "checksum", "undeclared",
                                           "regressed", "conflict"},
                                 generation : Nat, bank : Bank]
           /\ ConsumeReport.reason \notin {"unset", "header"} =>
                 header = "valid" /\ evaluate(active).kind = "rejected"
<1>. DEFINE r == evaluate(active).reason
            g == evaluate(active).generation
<1>1. active \in Bank /\ 0 \in Bank /\ g \in Nat
      /\ (evaluate(active).kind = "rejected" => r \in RejectReasons)
  BY EvaluateFacts DEF PageTypeOK, Bank
<1>. HIDE DEF r, g
<1>2. \/ ConsumeReport = NoReject
      \/ ConsumeReport = [reason |-> "header", generation |-> 0, bank |-> 0]
      \/ /\ header \notin {"zero", "partial"} /\ evaluate(active).kind = "rejected"
         /\ ConsumeReport = [reason |-> r, generation |-> g, bank |-> active]
  BY DEF ConsumeReport, r, g
<1>3. CASE ConsumeReport = NoReject \/ ConsumeReport = [reason |-> "header", generation |-> 0, bank |-> 0]
  BY <1>1, <1>3 DEF NoReject
<1>4. CASE /\ header \notin {"zero", "partial"} /\ evaluate(active).kind = "rejected"
           /\ ConsumeReport = [reason |-> r, generation |-> g, bank |-> active]
  <2>1. r \in RejectReasons
    BY <1>1, <1>4
  <2>2. ConsumeReport \in [reason : {"unset", "header", "torn", "checksum", "undeclared",
                                     "regressed", "conflict"},
                           generation : Nat, bank : Bank]
    BY <1>1, <1>4, <2>1 DEF RejectReasons
  <2>. QED
    BY <1>4, <2>2 DEF RestTypeOK
<1>. QED
  BY <1>2, <1>3, <1>4

LEMMA RestTypeInit == SpecInit => RestTypeOK
<1>1. NoPolicy \in Content /\ 0 \in Bank
  BY SpecAssumption DEF NoPolicy, Content, Bank
<1>. QED
  BY <1>1 DEF SpecInit, RestTypeOK, NoReject

LEMMA RestTypeStep ==
    ASSUME PageTypeOK, RestTypeOK, [SpecNext]_specVars
    PROVE  RestTypeOK'
<1>1. CASE RootDecides \/ BeamFaults
  BY <1>1, ReportFacts DEF RootDecides, BeamFaults, root_spec_consume, RestTypeOK
<1>2. CASE StepFlip
  <2>1. committed' = writer.content /\ UNCHANGED <<header, reported>>
    BY <1>2 DEF StepFlip, rootSide
  <2>. QED
    BY <2>1 DEF RestTypeOK, PageTypeOK, WriterType
<1>3. CASE ~(RootDecides \/ BeamFaults \/ StepFlip)
  <2>1. header' \in {header, "partial", "valid"} /\ UNCHANGED <<committed, reported>>
    BY <1>3 DEF SpecNext, spec_writer_begin, BeginFresh, HeaderStored, StepOpen,
       StepWriteGeneration, StepWriteBody, StepSeal, StepClose, rootSide, specVars
  <2>. QED
    BY <2>1 DEF RestTypeOK
<1>. QED
  BY <1>1, <1>2, <1>3

(* The page, its writer and its reader keep their types at any sequence     *)
(* width: the writer's odd and even values fit, and what Root reports of a  *)
(* page is one of its reasons (SpecTypeOK).                                 *)
THEOREM SpecTypesKept == SpecPageSpec => []SpecTypeOK
<1>1. SpecInit => PageInv /\ RestTypeOK
  BY PageInit, RestTypeInit
<1>2. PageInv /\ RestTypeOK /\ [SpecNext]_specVars => PageInv' /\ RestTypeOK'
  BY PageStep, RestTypeStep DEF PageInv
<1>3. PageInv /\ RestTypeOK => SpecTypeOK
  BY DEF PageInv, PageTypeOK, RestTypeOK, SpecTypeOK, BankType, WriterType, Phases
<1>. QED
  BY <1>1, <1>2, <1>3, PTL DEF SpecPageSpec

-----------------------------------------------------------------------------
(* The two banks, and the numbers the argument compares.                    *)
LEMMA TwoBanks ==
    ASSUME PageTypeOK
    PROVE  /\ active \in Bank /\ 1 - active \in Bank /\ 1 - active # active
           /\ 1 - (1 - active) = active /\ Bank = {active, 1 - active}
BY DEF PageTypeOK, Bank

LEMMA NumberTypes ==
    ASSUME PageTypeOK, RestTypeOK
    PROVE  /\ retained.generation \in Nat /\ committed.generation \in Nat
           /\ writer.content.generation \in Nat /\ NoPolicy.generation = 0
           /\ \A b \in Bank : banks[b].content.generation \in Nat /\ banks[b].seq \in Nat
BY SpecAssumption DEF PageTypeOK, RestTypeOK, WriterType, BankType, Content, NoPolicy

(* With declared children, what was committed is never rejected.            *)
LEMMA CommittedStands ==
    ASSUME PageTypeOK, RestTypeOK, ActiveInv, NumberInv, ReportInv, Declared
    PROVE  /\ evaluate(active).kind # "rejected"
           /\ committed # NoPolicy => Offers(active) \/ Held(active)
<1>1. active \in Bank
  BY DEF PageTypeOK
<1>2. CASE committed = NoPolicy
  <2>1. banks[active].seq = 0
    BY <1>2, NumberTypes DEF ActiveInv
  <2>. QED
    BY <1>2, <2>1 DEF evaluate
<1>3. CASE committed # NoPolicy
  <2>1. committed.generation > 0 /\ Sealed(active, committed)
    BY <1>3 DEF ActiveInv
  <2>2. committed.body \notin Undeclared
    BY <1>3 DEF NumberInv, Declared
  <2>3. Readable(active)
    BY <2>1, <2>2 DEF Readable, Sealed
  <2>4. committed.generation >= retained.generation
    BY <1>3, NumberTypes DEF ReportInv
  <2>5. committed.generation > retained.generation \/ committed = retained
    BY <2>4, NumberTypes DEF NumberInv
  <2>6. Offers(active) \/ Held(active)
    BY <2>1, <2>3, <2>5, NumberTypes DEF Offers, Held, Sealed
  <2>. QED
    BY <1>1, <2>6, EvaluateFacts
<1>. QED
  BY <1>2, <1>3

(* A reading of the page keeps the invariant: what Root takes is the last   *)
(* flip, the commit that was closed but not flipped, or older than both.    *)
LEMMA ConsumeFresh ==
    ASSUME PageInv, RestTypeOK, FreshInv, RootDecides \/ BeamFaults
    PROVE  FreshInv'
<1>. USE DEF FreshInv
<1>. PageTypeOK /\ WriterInv
  BY DEF PageInv
<1>1. /\ root_spec_consume
      /\ UNCHANGED <<header, active, banks, closed, committed>>
      /\ \/ writer' = writer
         \/ writer' = spec_writer_init /\ writer.phase # "header"
  BY DEF RootDecides, BeamFaults
<1>2. writer' = writer \/ writer'.phase = "new"
  BY <1>1 DEF spec_writer_init
<1>3. HeaderInv'
  <2>1. CASE writer' = writer
    BY <1>1, <2>1 DEF HeaderInv
  <2>2. CASE writer' # writer
    <3>1. writer'.phase = "new" /\ writer.phase # "header"
      BY <1>1, <1>2, <2>2
    <3>. QED
      BY <1>1, <3>1 DEF HeaderInv, Begun
  <2>. QED
    BY <2>1, <2>2
<1>4. ActiveInv'
  BY <1>1 DEF ActiveInv, Sealed
<1>5. SealInv'
  BY <1>1, <1>2 DEF SealInv, Sealed
<1>6. Declared' => Declared
  BY <1>1 DEF Declared
<1>7. Declared => reported'.reason \in {"unset", "header"}
  BY <1>1, CommittedStands, ReportFacts DEF root_spec_consume
<1>8. CASE /\ retained' = retained
           /\ header = "valid" => /\ ~Offers(active)
                                  /\ Offers(1 - active) => Held(active)
  <2>1. NumberInv'
    BY <1>1, <1>2, <1>8 DEF NumberInv, Begun
  <2>2. ReportInv'
    BY <1>1, <1>6, <1>7, <1>8 DEF ReportInv
  <2>3. /\ Offers(1 - active)' <=> Offers(1 - active)
        /\ Held(active)' <=> Held(active)
    BY <1>1, <1>8 DEF Offers, Held, Readable
  <2>4. StaleInv'
    <3>1. CASE header = "valid"
      BY <1>1, <1>8, <2>3, <3>1 DEF StaleInv
    <3>2. CASE header # "valid"
      <4>1. writer.phase \in Unowned
        BY <3>2 DEF HeaderInv, RestTypeOK, Unowned
      <4>. QED
        BY <1>1, <2>3, <4>1 DEF StaleInv
    <3>. QED
      BY <3>1, <3>2
  <2>. QED
    BY <1>3, <1>4, <1>5, <2>1, <2>2, <2>4
<1>9. CASE retained' = banks[active].content /\ Offers(active) /\ header = "valid"
  <2>1. Sealed(active, committed) /\ committed.generation > 0 /\ retained' = committed
    BY <1>9 DEF ActiveInv, Offers, Readable, Sealed
  <2>2. NumberInv'
    BY <1>1, <1>2, <2>1, NumberTypes DEF NumberInv, Begun
  <2>3. ReportInv'
    BY <1>1, <1>6, <1>7, <2>1, NumberTypes DEF ReportInv
  <2>4. Held(active)'
    BY <1>1, <1>9, <2>1, NumberTypes DEF Held, Offers, Readable
  <2>5. StaleInv'
    BY <2>4 DEF StaleInv
  <2>. QED
    BY <1>3, <1>4, <1>5, <2>2, <2>3, <2>5
<1>10. CASE /\ header = "valid" /\ retained' = banks[1 - active].content
            /\ Offers(1 - active) /\ ~Offers(active) /\ ~Held(active)
  <2>. DEFINE o == 1 - active
  <2>0. o \in Bank
    BY TwoBanks
  <2>1. ReportInv'
    BY <1>1, <1>6, <1>7, <1>10, CommittedStands DEF ReportInv
  <2>2. ~Offers(o)'
    <3>1. banks[o].content.generation \in Nat /\ retained'.generation = banks[o].content.generation
      BY <1>10, <2>0, NumberTypes
    <3>2. ~(banks[o].content.generation > retained'.generation)
      BY <3>1
    <3>. QED
      BY <1>1, <3>2 DEF Offers
  <2>3. StaleInv'
    BY <1>1, <2>2 DEF StaleInv
  <2>4. NumberInv'
    <3>1. CASE writer.phase \in Unowned
      <4>1. retained'.generation < committed.generation
        BY <1>10, <3>1 DEF StaleInv
      <4>2. retained'.generation \in Nat
        BY <1>10, <2>0, NumberTypes
      <4>3. retained'.generation # committed.generation
            /\ (writer.content.generation > committed.generation =>
                  writer.content.generation > retained'.generation)
        BY <4>1, <4>2, NumberTypes
      <4>4. writer'.phase # "closed"
        BY <1>2, <3>1 DEF Unowned
      <4>. QED
        BY <1>1, <1>2, <4>3, <4>4 DEF NumberInv, Begun
    <3>2. CASE writer.phase \notin Unowned
      <4>1. writer.phase \in {"open", "writing", "written", "sealed", "closed"}
        BY <3>2 DEF Unowned, PageTypeOK, WriterType, Phases
      <4>2. writer.bank = o
        BY <4>1 DEF HeaderInv, Begun
      <4>3. writer.phase = "closed"
        BY <1>10, <4>1, <4>2 DEF WriterInv, Offers, Readable
      <4>4. retained' = writer.content /\ writer.content.generation > committed.generation
        BY <1>10, <4>2, <4>3 DEF SealInv, Sealed, NumberInv
      <4>5. retained'.generation # committed.generation
        BY <4>4, NumberTypes
      <4>6. writer'.phase \in {"new", "closed"}
        BY <1>2, <4>3
      <4>. QED
        BY <1>1, <1>2, <4>4, <4>5, <4>6 DEF NumberInv, Begun
    <3>. QED
      BY <3>1, <3>2
  <2>. QED
    BY <1>3, <1>4, <1>5, <2>1, <2>3, <2>4
<1>. QED
  BY <1>1, <1>8, <1>9, <1>10, ConsumeOutcome, TwoBanks

LEMMA BeginFreshInv ==
    ASSUME Fresh, PageInv, RestTypeOK, FreshInv, NEW g \in Generations, NEW body \in Bodies,
           \/ spec_writer_begin([generation |-> g, body |-> body])
           \/ BeginFresh([generation |-> g, body |-> body])
    PROVE  FreshInv'
<1>. USE DEF FreshInv
<1>. PageTypeOK
  BY DEF PageInv
<1>1. UNCHANGED <<active, banks, closed, committed, retained, reported>> /\ CanBegin
  BY DEF spec_writer_begin, BeginFresh, rootSide
<1>2. g > retained.generation /\ g > committed.generation
  BY DEF Generations
<1>3. /\ writer'.content.generation = g /\ writer'.bank = 1 - active
      /\ \/ header = "valid" /\ header' = "valid" /\ writer'.phase = "idle"
         \/ header = "zero" /\ header' = "partial" /\ writer'.phase = "header"
  <2>1. CASE spec_writer_begin([generation |-> g, body |-> body])
    BY <2>1 DEF spec_writer_begin, Began
  <2>2. CASE BeginFresh([generation |-> g, body |-> body])
    BY <2>2 DEF BeginFresh, Began, HeaderInv
  <2>. QED
    BY <2>1, <2>2
<1>4. HeaderInv'
  BY <1>1, <1>3 DEF HeaderInv
<1>5. ActiveInv'
  BY <1>1 DEF ActiveInv, Sealed
<1>6. SealInv'
  BY <1>3 DEF SealInv
<1>7. NumberInv'
  BY <1>1, <1>2, <1>3 DEF NumberInv
<1>8. StaleInv'
  <2>1. writer.phase \in Unowned
    BY <1>1 DEF CanBegin, Unowned
  <2>2. /\ Offers(1 - active)' <=> Offers(1 - active)
        /\ Held(active)' <=> Held(active)
    BY <1>1 DEF Offers, Held, Readable
  <2>. QED
    BY <1>1, <2>1, <2>2 DEF StaleInv
<1>9. ReportInv'
  BY <1>1 DEF ReportInv, Declared
<1>. QED
  BY <1>4, <1>5, <1>6, <1>7, <1>8, <1>9

(* A store into the writer's own bank leaves the active one alone.          *)
LEMMA StoreFresh ==
    ASSUME PageInv, RestTypeOK, FreshInv,
           \/ StepOpen \/ StepWriteGeneration \/ StepWriteBody \/ StepSeal \/ StepClose
    PROVE  FreshInv'
<1>. USE DEF FreshInv
<1>. PageTypeOK /\ WriterInv
  BY DEF PageInv
<1>. DEFINE b == writer.bank
<1>1. UNCHANGED <<header, active, committed, retained, reported>>
  BY DEF StepOpen, StepWriteGeneration, StepWriteBody, StepSeal, StepClose, rootSide
<1>2. /\ writer.phase \in {"idle", "open", "writing", "written", "sealed"}
      /\ writer'.phase \in {"open", "writing", "written", "sealed", "closed"}
      /\ writer'.bank = b /\ writer'.content = writer.content
      /\ writer'.phase = "closed" <=> StepClose
      /\ writer'.phase = "sealed" <=> StepSeal
  BY DEF StepOpen, StepWriteGeneration, StepWriteBody, StepSeal, StepClose, Advance,
     PageTypeOK, WriterType
<1>3. b = 1 - active /\ b \in Bank /\ b # active
  BY <1>2, TwoBanks DEF HeaderInv, Begun
<1>4. banks'[active] = banks[active]
  BY <1>3 DEF StepOpen, StepWriteGeneration, StepWriteBody, StepSeal, StepClose, PageTypeOK
<1>5. closed' = closed \/ (StepClose /\ closed' = closed \cup {writer.content})
  BY DEF StepOpen, StepWriteGeneration, StepWriteBody, StepSeal, StepClose
<1>6. HeaderInv'
  BY <1>1, <1>2, <1>3 DEF HeaderInv
<1>7. ActiveInv'
  BY <1>1, <1>4 DEF ActiveInv, Sealed
<1>8. SealInv'
  <2>1. CASE StepSeal
    <3>1. writer.phase = "written" /\ banks' = [banks EXCEPT ![b].crc = banks[b].content]
      BY <2>1 DEF StepSeal, Advance
    <3>2. banks[b] \in BankType
      BY <1>3 DEF PageTypeOK
    <3>3. banks'[b].crc = banks[b].content
      BY <1>3, <3>1, <3>2 DEF PageTypeOK, BankType
    <3>4. banks[b].content = writer.content
      BY <3>1 DEF WriterInv
    <3>. QED
      BY <1>2, <2>1, <3>3, <3>4 DEF SealInv, StepSeal, Advance, PageTypeOK, WriterType
  <2>2. CASE StepClose
    <3>. DEFINE e == CloseSeq(writer.open)
    <3>1. writer.phase = "sealed" /\ banks' = [banks EXCEPT ![b].seq = e]
      BY <2>2 DEF StepClose, Advance
    <3>2. banks[b] \in BankType /\ writer.open \in Nat
      BY <1>3, SpecAssumption DEF PageTypeOK, WriterType
    <3>3. e # 0 /\ e % 2 = 0
      BY <3>1, <3>2 DEF WriterInv, CloseSeq
    <3>. HIDE DEF e
    <3>4. /\ banks'[b].seq = e /\ banks'[b].crc = banks[b].crc
          /\ banks'[b].content = banks[b].content
      BY <1>3, <3>1, <3>2 DEF PageTypeOK, BankType
    <3>5. banks[b].content = writer.content /\ banks[b].crc = writer.content
      BY <3>1 DEF WriterInv, SealInv
    <3>6. writer.content \in closed'
      BY <2>2 DEF StepClose
    <3>7. writer'.phase = "closed"
      BY <1>2, <2>2
    <3>8. Sealed(writer.bank, writer.content)'
      BY <1>2, <3>3, <3>4, <3>5 DEF Sealed
    <3>. QED
      BY <1>2, <3>6, <3>7, <3>8 DEF SealInv
  <2>3. CASE ~StepSeal /\ ~StepClose
    BY <1>2, <2>3 DEF SealInv
  <2>. QED
    BY <2>1, <2>2, <2>3
<1>9. NumberInv'
  BY <1>1, <1>2, <1>5 DEF NumberInv, Begun
<1>10. StaleInv'
  BY <1>2 DEF StaleInv, Unowned
<1>11. ReportInv'
  BY <1>1, <1>5 DEF ReportInv, Declared
<1>. QED
  BY <1>6, <1>7, <1>8, <1>9, <1>10, <1>11

LEMMA FlipFresh ==
    ASSUME PageInv, RestTypeOK, FreshInv, StepFlip \/ HeaderStored
    PROVE  FreshInv'
<1>. USE DEF FreshInv
<1>. PageTypeOK
  BY DEF PageInv
<1>. UNCHANGED <<banks, closed, retained, reported>>
  BY DEF StepFlip, HeaderStored, rootSide
<1>1. CASE HeaderStored
  <2>1. /\ writer.phase = "header" /\ header' = "valid" /\ active' = 0 /\ UNCHANGED committed
        /\ writer'.phase = "idle" /\ writer'.bank = writer.bank
        /\ writer'.content = writer.content
    BY <1>1 DEF HeaderStored, PageTypeOK, WriterType
  <2>2. header = "partial" /\ UNCHANGED active
    BY <2>1 DEF HeaderInv
  <2>3. HeaderInv'
    BY <2>1, <2>2 DEF HeaderInv, Begun
  <2>4. ActiveInv'
    BY <2>1, <2>2 DEF ActiveInv, Sealed
  <2>5. SealInv' /\ NumberInv'
    BY <2>1 DEF SealInv, NumberInv, Begun
  <2>6. StaleInv'
    <3>1. /\ Offers(1 - active)' <=> Offers(1 - active)
          /\ Held(active)' <=> Held(active)
      BY <2>2 DEF Offers, Held, Readable
    <3>. QED
      BY <2>1, <2>2, <3>1 DEF StaleInv, Unowned
  <2>7. ReportInv'
    BY <2>1 DEF ReportInv, Declared
  <2>. QED
    BY <2>3, <2>4, <2>5, <2>6, <2>7
<1>2. CASE StepFlip
  <2>1. /\ writer.phase = "closed" /\ UNCHANGED header /\ active' = writer.bank
        /\ committed' = writer.content /\ writer'.phase = "flipped"
    BY <1>2 DEF StepFlip, Advance, PageTypeOK, WriterType
  <2>2. writer.bank = 1 - active /\ 1 - active' = active /\ active \in Bank
    BY <2>1, TwoBanks DEF HeaderInv
  <2>3. header = "valid"
    BY <2>1 DEF HeaderInv, RestTypeOK
  <2>4. /\ Sealed(writer.bank, writer.content) /\ writer.content \in closed
        /\ writer.content.generation > committed.generation
        /\ writer.content.generation > retained.generation \/ retained = writer.content
    BY <2>1 DEF SealInv, NumberInv
  <2>5. HeaderInv'
    BY <2>1, <2>3 DEF HeaderInv, Begun
  <2>6. ActiveInv'
    <3>1. writer.content.generation > 0
      BY <2>4, NumberTypes
    <3>. QED
      BY <2>1, <2>4, <3>1 DEF ActiveInv, Sealed
  <2>7. SealInv'
    BY <2>1 DEF SealInv
  <2>8. NumberInv'
    <3>1. retained.generation = writer.content.generation => retained = writer.content
      BY <2>4, NumberTypes
    <3>. QED
      BY <2>1, <2>4, <3>1 DEF NumberInv, Begun
  <2>9. StaleInv'
    <3>1. Offers(1 - active)' => banks[active].seq # 0
      BY <2>2 DEF Offers, Readable
    <3>2. banks[active].seq # 0 => banks[active].content = committed
      BY DEF ActiveInv, Sealed
    <3>. QED
      BY <2>1, <2>2, <2>4, <3>1, <3>2, NumberTypes DEF StaleInv
  <2>10. ReportInv'
    <3>1. retained.generation <= writer.content.generation
      BY <2>4, NumberTypes
    <3>. QED
      BY <2>1, <3>1 DEF ReportInv, Declared
  <2>. QED
    BY <2>5, <2>6, <2>7, <2>8, <2>9, <2>10
<1>. QED
  BY <1>1, <1>2

LEMMA FreshInit == SpecInit => FreshInv
<1>. SUFFICES ASSUME SpecInit PROVE FreshInv
  OBVIOUS
<1>1. /\ writer.phase = "new" /\ header = "zero" /\ active = 0 /\ committed = NoPolicy
      /\ retained = NoPolicy /\ closed = {} /\ reported.reason = "unset"
      /\ banks[0].seq = 0 /\ banks[1].seq = 0 /\ 1 - active = 1
  BY DEF SpecInit, spec_writer_init, NoReject, EmptyBank, Bank
<1>2. HeaderInv /\ ActiveInv /\ SealInv /\ NumberInv /\ ReportInv
  BY <1>1 DEF HeaderInv, ActiveInv, SealInv, NumberInv, ReportInv, Begun
<1>3. StaleInv
  BY <1>1 DEF StaleInv, Offers, Readable
<1>. QED
  BY <1>2, <1>3 DEF FreshInv

LEMMA FreshStep ==
    ASSUME Fresh, PageInv, RestTypeOK, FreshInv, [SpecNext]_specVars
    PROVE  FreshInv'
<1>1. CASE UNCHANGED specVars
  <2>1. UNCHANGED <<header, active, banks, writer, retained, reported, closed, committed>>
    BY <1>1 DEF specVars
  <2>2. HeaderInv' /\ ActiveInv' /\ SealInv' /\ NumberInv' /\ ReportInv'
    BY <2>1 DEF FreshInv, HeaderInv, ActiveInv, SealInv, NumberInv, ReportInv, Sealed, Declared
  <2>3. StaleInv'
    BY <2>1 DEF FreshInv, StaleInv, Offers, Held, Readable
  <2>. QED
    BY <2>2, <2>3 DEF FreshInv
<1>2. CASE SpecNext
  <2>1. ASSUME NEW g \in Generations, NEW body \in Bodies,
               \/ spec_writer_begin([generation |-> g, body |-> body])
               \/ BeginFresh([generation |-> g, body |-> body])
        PROVE  FreshInv'
    BY <2>1, BeginFreshInv
  <2>. QED
    BY <1>2, <2>1, StoreFresh, FlipFresh, ConsumeFresh DEF SpecNext
<1>. QED
  BY <1>1, <1>2

(* Every step that Root's or the writer's side may take keeps all of it.    *)
AllInv == PageInv /\ RestTypeOK /\ (Fresh => FreshInv)

LEMMA AllInvariance == SpecPageSpec => []AllInv
<1>1. SpecInit => AllInv
  BY PageInit, RestTypeInit, FreshInit DEF AllInv
<1>2. AllInv /\ [SpecNext]_specVars => AllInv'
  BY PageStep, RestTypeStep, FreshStep DEF AllInv, PageInv
<1>. QED
  BY <1>1, <1>2, PTL DEF SpecPageSpec

(* No false alarm, for any tables and generations a fresh committer uses:   *)
(* no commit in progress or interrupted is reported as a rejection          *)
(* (OnlyHeaderRejected; spec.c, the comment on a fallback bank mid-write).  *)
THEOREM NoFalseAlarm == SpecPageSpec => []OnlyHeaderRejected
<1>1. AllInv => OnlyHeaderRejected
  BY DEF AllInv, FreshInv, ReportInv, Declared, OnlyHeaderRejected
<1>. QED
  BY <1>1, AllInvariance, PTL

(* A committed policy is durable: with fresh generations, after every       *)
(* decision Root holds the last flipped policy or a newer one, wherever the *)
(* BEAM was stopped in the next commit (CommitIsDurable).                   *)
THEOREM CommitDurable == SpecPageSpec => CommitIsDurable
<1>. DEFINE Durable == Fresh /\ committed.body \notin Undeclared /\ (RootDecides \/ BeamFaults) =>
                           \/ retained' = committed
                           \/ retained'.generation > committed.generation
<1>1. ASSUME AllInv, AllInv' PROVE [Durable]_specVars
  <2>. SUFFICES ASSUME Fresh, committed.body \notin Undeclared, RootDecides \/ BeamFaults
                PROVE  \/ retained' = committed
                       \/ retained'.generation > committed.generation
    OBVIOUS
  <2>0. PageTypeOK /\ RestTypeOK /\ ActiveInv /\ NumberInv /\ HeaderInv /\ NumberInv'
    BY <1>1 DEF AllInv, PageInv, FreshInv
  <2>1. root_spec_consume /\ UNCHANGED committed
    BY DEF RootDecides, BeamFaults
  <2>2. retained'.generation = committed.generation => retained' = committed
    BY <2>0, <2>1 DEF NumberInv
  <2>3. retained'.generation \in Nat /\ committed.generation \in Nat /\ retained.generation \in Nat
    BY <1>1, <2>0, NumberTypes DEF AllInv, PageInv, PageTypeOK, Content
  <2>4. retained'.generation >= retained.generation
    <3>1. CASE retained' = retained
      BY <2>3, <3>1
    <3>2. CASE retained' # retained
      BY <2>0, <2>1, <2>3, <3>2, ConsumeFacts
    <3>. QED
      BY <3>1, <3>2
  <2>5. CASE committed = NoPolicy
    <3>1. committed.generation = 0
      BY <2>5 DEF NoPolicy
    <3>. QED
      BY <2>2, <2>3, <3>1
  <2>6. CASE committed # NoPolicy
    <3>1. header = "valid" /\ Sealed(active, committed) /\ committed.generation > 0
      BY <2>0, <2>6 DEF ActiveInv, HeaderInv
    <3>2. Readable(active) /\ banks[active].content = committed
      BY <3>1 DEF Readable, Sealed
    <3>3. CASE retained.generation < committed.generation
      <4>1. Offers(active)
        BY <2>3, <3>2, <3>3 DEF Offers
      <4>2. PICK b \in Bank : retained' = banks[b].content /\ (b # active => ~Offers(active))
        BY <2>0, <2>1, <3>1, <4>1, ConsumeOutcome
      <4>. QED
        BY <3>2, <4>1, <4>2
    <3>4. CASE ~(retained.generation < committed.generation)
      BY <2>2, <2>3, <2>4, <3>4
    <3>. QED
      BY <3>3, <3>4
  <2>. QED
    BY <2>5, <2>6
<1>. QED
  BY <1>1, AllInvariance, PTL DEF SpecPageSpec, CommitIsDurable
=============================================================================
