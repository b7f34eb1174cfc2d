---------------------------- MODULE SnapshotCodec ----------------------------
(***************************************************************************)
(* What a BEAM restart keeps of the writable segment: the layout rules of   *)
(* restart/beam_restart_layout.h and the survivor records of                *)
(* restart/beam_snapshot_codec.c, as operators on small images. A record    *)
(* is its offset and its bytes; its encoded length counts its header. The   *)
(* loop of the encoder is in BeamRestart, one record a step.                *)
(***************************************************************************)
EXTENDS Integers, FiniteSets, Sequences, SequencesExt

CONSTANTS
    WordBytes,        \* sizeof(uint64_t)
    HeaderBytes,      \* sizeof(beam_survivor_hdr_t)
    GapWords,         \* beam_survivor_gap_words
    SurvivorsSize,    \* BEAM_SURVIVORS_SIZE
    AddressMax,       \* UINTPTR_MAX
    BssMax,           \* UINT32_MAX, the widest offset of a record
    GenerationMax     \* UINT64_MAX of the generation

ASSUME CodecAssumption ==
    /\ WordBytes \in Nat \ {0} /\ HeaderBytes \in Nat /\ GapWords \in Nat
    /\ SurvivorsSize \in Nat /\ AddressMax \in Nat /\ BssMax \in Nat /\ GenerationMax \in Nat \ {0}

(***************************************************************************)
(* beam_restart_layout.h. The encoder looks at the length of .bss again     *)
(* (beam_snapshot_codec.c:45), which after this check never fails.          *)
(***************************************************************************)
beam_range_fits(start, size) == start + size <= AddressMax

beam_ranges_overlap(a, a_size, b, b_size) ==
    a_size # 0 /\ b_size # 0 /\ a < b + b_size /\ b < a + a_size

beam_range_holds_stack_top(start, size, sp) == sp > start /\ sp - start <= size

beam_restart_layout_check(l) ==
    LET segment_size == l.bss_end - l.segment_start
    IN  /\ l.snapshot_base # 0
        /\ beam_range_fits(l.snapshot_base, l.snapshot_size)
        /\ beam_range_fits(l.exit_fault_base, l.exit_fault_size)
        /\ l.segment_start <= l.bss_start /\ l.bss_start <= l.bss_end
        /\ l.bss_end - l.bss_start <= BssMax
        /\ l.data_off <= l.snapshot_size
        /\ l.bss_start - l.segment_start <= l.snapshot_size - l.data_off
        /\ ~beam_ranges_overlap(l.snapshot_base, l.snapshot_size, l.segment_start, segment_size)
        /\ ~beam_ranges_overlap(l.exit_fault_base, l.exit_fault_size,
                                l.snapshot_base, l.snapshot_size)
        /\ ~beam_ranges_overlap(l.exit_fault_base, l.exit_fault_size,
                                l.segment_start, segment_size)

(***************************************************************************)
(* beam_snapshot_codec.c                                                    *)
(***************************************************************************)
Length(bss) == Cardinality(DOMAIN bss)
Tail0(bss) == (Length(bss) \div WordBytes) * WordBytes

load_word(bss, i) == [b \in 0 .. WordBytes - 1 |-> bss[i * WordBytes + b]]
IsZero(bytes) == \A b \in DOMAIN bytes : bytes[b] = 0

Record(bss, offset, len) ==
    [offset |-> offset, bytes |-> [b \in 0 .. len - 1 |-> bss[offset + b]]]

(* The words the scan stops at.                                             *)
NonZero(bss) == {w \in 0 .. (Length(bss) \div WordBytes) - 1 : ~IsZero(load_word(bss, w))}

(* From word i on, the next run begins at the first non-zero word and ends  *)
(* at the first one behind which nothing is set within the gap.             *)
RunStart(bss, i) == Min({w \in NonZero(bss) : w >= i})
RunLast(bss, start) ==
    Min({w \in NonZero(bss) : w >= start /\ \A v \in NonZero(bss) : v > w => v - w > GapWords})

Run(bss, start, last) == Record(bss, start * WordBytes, (last - start + 1) * WordBytes)

(* The bytes past the last whole word.                                      *)
TailRun(bss) == Record(bss, Tail0(bss), Length(bss) - Tail0(bss))

EncodedBytes(runs) ==
    FoldLeft(LAMBDA sum, r : sum + HeaderBytes + Length(r.bytes), 0, runs)

Fits(runs) == EncodedBytes(runs) <= SurvivorsSize

(* What a reset makes of a record.                                          *)
Replayed(bss, r) ==
    [b \in DOMAIN bss |-> IF b - r.offset \in DOMAIN r.bytes THEN r.bytes[b - r.offset]
                          ELSE bss[b]]

RunEnd(r) == r.offset + Length(r.bytes)

(* The walk over the records: in bounds, not empty, aligned unless it is    *)
(* the tail, in order.                                                      *)
RunsValid(runs, bss_len) ==
    \A k \in DOMAIN runs :
        LET r == runs[k]
            tail == bss_len - (bss_len % WordBytes)
        IN  /\ RunEnd(r) <= bss_len /\ Length(r.bytes) # 0
            /\ r.offset % WordBytes = 0
            /\ \/ Length(r.bytes) % WordBytes = 0
               \/ r.offset = tail /\ RunEnd(r) = bss_len
            /\ k > 1 => RunEnd(runs[k - 1]) <= r.offset

stack_top_is_valid(sp, l) ==
    /\ sp # 0 /\ sp % 16 = 0
    /\ ~beam_range_holds_stack_top(l.snapshot_base, l.snapshot_size, sp)
    /\ ~beam_range_holds_stack_top(l.segment_start, l.bss_end - l.segment_start, sp)

beam_snapshot_validate(hdr, l) ==
    /\ hdr.magic
    /\ hdr.generation \notin {0, GenerationMax}
    /\ Length(hdr.data) = l.bss_start - l.segment_start
    /\ Fits(hdr.survivors)
    /\ stack_top_is_valid(hdr.saved_sp, l)
    /\ RunsValid(hdr.survivors, l.bss_end - l.bss_start)
=============================================================================
