----------------------------- MODULE BeamRestart -----------------------------
(***************************************************************************)
(* The BEAM's own part in its restarts: the capture a cold boot takes and   *)
(* the restore each reset makes of it (restart/restart.c). Root may stop    *)
(* the BEAM and resume it at _reset between any two steps of either.        *)
(*                                                                         *)
(* The first word of .bss is beam_snapshot_start, which the image tool      *)
(* patches and the restore itself zeroes and replays.                       *)
(***************************************************************************)
EXTENDS SnapshotCodec

CONSTANTS
    Images,     \* images: .bss and data as the loader leaves them, layout, SP,
                \* and whether their program uses the control devices
    Budget      \* restarts Root allows

ASSUME RestartAssumption ==
    /\ Budget \in Nat
    /\ \A i \in Images : IsFiniteSet(DOMAIN i.bss) /\ i.bss \in [0 .. Length(i.bss) - 1 -> Nat]

VARIABLES
    image,    \* the image that was booted
    bss, data,
    sp,       \* where main's stack begins
    snapshot, \* the snapshot region: header, data area, survivor area
    pc,
    scan,     \* the word the capture has come to
    replay,   \* records of this restore that are still to be replayed
    budget    \* restarts left

beamVars == <<image, bss, data, sp, snapshot, pc, scan, replay, budget>>

NoSnapshot == [magic |-> FALSE, generation |-> 0, saved_sp |-> 0, data |-> <<>>,
               survivors |-> <<>>]

snapshot_base(b) == ~IsZero(load_word(b, 0))

(* Fault before the first write: Root charges the budget and comes back.    *)
restart_fail == pc' = "trap"

BeamInit ==
    /\ image \in Images
    /\ bss = image.bss /\ data = image.data /\ sp = image.sp
    /\ snapshot = NoSnapshot
    /\ pc = "_start" /\ scan = 0 /\ replay = <<>> /\ budget = Budget

(* _start up to the survivor scan. Without a snapshot region, or with one   *)
(* already taken, there is nothing to capture.                              *)
beam_boot_capture ==
    /\ pc = "_start"
    /\ IF ~snapshot_base(bss) \/ snapshot.magic THEN pc' = "main" /\ UNCHANGED snapshot
       ELSE IF ~beam_restart_layout_check(image.layout) THEN restart_fail /\ UNCHANGED snapshot
       ELSE /\ snapshot' = [snapshot EXCEPT !.data = data, !.saved_sp = sp, !.survivors = <<>>]
            /\ pc' = "capture_survivors"
    /\ scan' = 0
    /\ UNCHANGED <<image, bss, data, sp, replay, budget>>

(* append_run: one record more and on to next, unless it does not fit.      *)
append_run(r, next) ==
    IF Fits(Append(snapshot.survivors, r))
    THEN snapshot' = [snapshot EXCEPT !.survivors = Append(@, r)] /\ pc' = next
    ELSE restart_fail /\ UNCHANGED snapshot

(* beam_survivors_encode: run after run of words, and then the tail if any  *)
(* byte of it is set.                                                       *)
EncodeRun ==
    LET start == RunStart(bss, scan)
        last == RunLast(bss, start)
    IN  /\ \E w \in NonZero(bss) : w >= scan
        /\ append_run(Run(bss, start, last), "capture_survivors")
        /\ scan' = last + GapWords + 1

EncodeTail ==
    /\ \A w \in NonZero(bss) : w < scan
    /\ IF IsZero(TailRun(bss).bytes) THEN pc' = "capture_magic" /\ UNCHANGED snapshot
       ELSE append_run(TailRun(bss), "capture_magic")
    /\ UNCHANGED scan

(* Mutant: the magic goes in with the header, before the survivors.         *)
capture_MagicFirst ==
    /\ pc = "capture_survivors"
    /\ IF snapshot.magic THEN EncodeRun \/ EncodeTail
       ELSE /\ snapshot' = [snapshot EXCEPT !.generation = 1, !.magic = TRUE]
            /\ UNCHANGED <<pc, scan>>
    /\ UNCHANGED <<image, bss, data, sp, replay, budget>>

capture_survivors ==
    /\ pc = "capture_survivors"
    /\ EncodeRun \/ EncodeTail
    /\ UNCHANGED <<image, bss, data, sp, replay, budget>>

(* The magic is written last.                                               *)
CaptureMagic ==
    /\ pc = "capture_magic"
    /\ snapshot' = [snapshot EXCEPT !.generation = 1, !.magic = TRUE]
    /\ pc' = "main" /\ scan' = 0
    /\ UNCHANGED <<image, bss, data, sp, replay, budget>>

(* _reset: a zero snapshot pointer, a bad layout or an invalid snapshot     *)
(* faults before anything is written.                                       *)
beam_reset_restore ==
    /\ pc = "_reset"
    /\ IF /\ snapshot_base(bss)
          /\ beam_restart_layout_check(image.layout)
          /\ beam_snapshot_validate(snapshot, image.layout)
       THEN data' = snapshot.data /\ pc' = "zero"
       ELSE restart_fail /\ UNCHANGED data
    /\ UNCHANGED <<image, bss, sp, snapshot, scan, replay, budget>>

ZeroBss ==
    /\ pc = "zero"
    /\ bss' = [b \in DOMAIN bss |-> 0]
    /\ replay' = snapshot.survivors
    /\ pc' = "replay"
    /\ UNCHANGED <<image, data, sp, snapshot, scan, budget>>

ReplaySurvivor ==
    /\ pc = "replay" /\ replay # <<>>
    /\ bss' = Replayed(bss, Head(replay))
    /\ replay' = Tail(replay)
    /\ UNCHANGED <<image, data, sp, snapshot, pc, scan, budget>>

(* The last record is in place: count the generation, install the SP.       *)
RestoreDone ==
    /\ pc = "replay" /\ replay = <<>>
    /\ snapshot' = [snapshot EXCEPT !.generation = @ + 1]
    /\ sp' = snapshot.saved_sp
    /\ pc' = "main"
    /\ UNCHANGED <<image, bss, data, scan, replay, budget>>

(* main: the runtime goes up and uses its writable memory and its stacks.   *)
(* Nobody writes what the image tool patched in.                            *)
MainRuns ==
    /\ pc = "main"
    /\ bss' = [b \in DOMAIN bss |-> IF b < WordBytes THEN bss[b] ELSE 1]
    /\ data' = [b \in DOMAIN data |-> 1]
    /\ sp' = 0
    /\ pc' = "running"
    /\ UNCHANGED <<image, snapshot, scan, replay, budget>>

(* beam_request_restart, or a fault of ERTS itself.                         *)
beam_request_restart ==
    /\ pc = "running"
    /\ pc' = "trap"
    /\ UNCHANGED <<image, bss, data, sp, snapshot, scan, replay, budget>>

(* Root: a fault, or a command about a live BEAM, resumes it at _reset      *)
(* while its budget lasts.                                                  *)
RootRestarts ==
    /\ budget > 0 /\ pc \notin {"gone", "_reset"}
    /\ pc' = "_reset" /\ budget' = budget - 1
    /\ sp' = 0 /\ scan' = 0 /\ replay' = <<>>
    /\ UNCHANGED <<image, bss, data, snapshot>>

RootGivesUp ==
    /\ budget = 0 /\ pc = "trap"
    /\ pc' = "gone"
    /\ UNCHANGED <<image, bss, data, sp, snapshot, scan, replay, budget>>

BootSteps ==
    \/ beam_boot_capture \/ capture_survivors \/ CaptureMagic
    \/ beam_reset_restore \/ ReplaySurvivor \/ RestoreDone

-----------------------------------------------------------------------------
(* Whenever main begins, cold or after any number of resets that stopped    *)
(* the BEAM anywhere, even inside its capture or a restore, the writable    *)
(* segment and the stack are the ones the loader left: nothing of the dead  *)
(* instance shows and no patched word is lost (restart.c:296-319).          *)
MainStartsPristine ==
    pc = "main" => bss = image.bss /\ data = image.data /\ sp = image.sp

(* The capture was stopped before its magic.                                *)
Torn == snapshot.saved_sp # 0 /\ ~snapshot.magic

(* What restart.c:102-104 says of a BEAM stopped inside its capture: it     *)
(* "reads as "cold" and is simply retaken". The _reset that finds one takes *)
(* it again or starts main cold; it does not fault (restart.c:321-337).     *)
TornCaptureRetaken ==
    [][pc = "_reset" /\ Torn => pc' # "trap"]_beamVars
=============================================================================
