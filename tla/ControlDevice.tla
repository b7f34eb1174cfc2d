---------------------------- MODULE ControlDevice ----------------------------
(***************************************************************************)
(* How the BEAM sees Root: /dev/chrysoctl and /dev/chrysostat               *)
(* (control/runtime_control_dev.c, runtime_ctl_device.c) and the reader of  *)
(* the status page behind the second (lib/abi/root_status_reader.c), over   *)
(* the BEAM's restarts: the owner state is .bss.                            *)
(*                                                                         *)
(* No device callback yields. Root, which has the higher priority on the    *)
(* one core, may publish between any two reads of a copy, and publishes     *)
(* whole. A command is its number, a reply the number of its command.       *)
(***************************************************************************)
EXTENDS BeamRestart

CONSTANTS
    Fd,             \* descriptor numbers
    CommandMax,     \* commands that are written (bound)
    StatAttempts,   \* stat_attempts
    EventCount,     \* chryso_event_count
    EventsAtOnce,   \* events of one publication, at most 3
    PublishMax,     \* publications (bound)
    DownMax,        \* UINT64_MAX of the down time, at a width TLC can reach
    NoFd, NoPage

ASSUME ControlAssumption ==
    /\ CommandMax \in Nat /\ StatAttempts \in Nat /\ EventCount \in Nat \ {0}
    /\ EventsAtOnce \subseteq 0 .. 3 /\ PublishMax \in Nat /\ NoFd \notin Fd
    /\ DownMax \in Nat

VARIABLES
    owner,     \* ctl_owner: phase, descriptor and pending reply
    fds,       \* open descriptors of the control device
    sent,      \* history: last command of the present opener, 0 for none
    page,      \* the status page as Root last published it
    copy,      \* the copy attempt under way
    prior,     \* the page the application read last
    seen       \* history: what the last observation reported

deviceVars == <<owner, fds, sent, copy, prior, seen>>
vars == <<image, bss, data, sp, snapshot, pc, scan, replay, budget,
          owner, fds, sent, page, copy, prior, seen>>

Closed == [phase |-> "closed", fd |-> NoFd, reply |-> 0]
NoCopy == [step |-> "none", seq |-> 0, left |-> 0, header |-> NoPage, rows |-> NoPage]
NothingSeen == [regressed |-> FALSE, missed |-> 0, lost |-> 0, whole |-> TRUE]

DeviceInit ==
    /\ owner = Closed /\ fds = {} /\ sent = 0
    /\ copy = NoCopy /\ prior = NoPage /\ seen = NothingSeen

Init ==
    /\ BeamInit /\ DeviceInit
    /\ page = [seq |-> 2, event_head |-> 1, incarnation |-> 0, count |-> 0, down |-> 0]

(* The BEAM runs; a command in flight or a copy has the only processor.     *)
Running ==
    /\ pc = "running" /\ image.devices
    /\ owner.phase # "calling" /\ copy.step = "none"

SameBeam == UNCHANGED beamVars

(***************************************************************************)
(* runtime_ctl_device.c: who may do what in which phase.                    *)
(***************************************************************************)
gate(phase, event) ==
    CASE event = "open" -> phase = "closed"
      [] event = "write" -> phase = "idle"
      [] event = "reply" -> phase = "calling"
      [] event = "read" -> phase = "reply_ready"
      [] event = "close" -> phase # "closed"

admit(fd, event) ==
    /\ owner.phase # "closed" /\ event # "open" => owner.fd = fd
    /\ gate(owner.phase, event)

(* Mutant: an open that is refused keeps its descriptor.                    *)
ctl_open_NoRollback(fd) ==
    /\ Running /\ fd \notin fds
    /\ fds' = fds \cup {fd}
    /\ IF admit(fd, "open")
       THEN owner' = [phase |-> "idle", fd |-> fd, reply |-> 0] /\ sent' = 0
       ELSE UNCHANGED <<owner, sent>>
    /\ SameBeam /\ UNCHANGED <<page, copy, prior, seen>>

(* ctl_open: the descriptor first, given back when the device has an owner. *)
ctl_open(fd) ==
    /\ Running /\ fd \notin fds
    /\ IF admit(fd, "open")
       THEN /\ owner' = [phase |-> "idle", fd |-> fd, reply |-> 0]
            /\ sent' = 0 /\ fds' = fds \cup {fd}
       ELSE UNCHANGED <<owner, sent, fds>>
    /\ SameBeam /\ UNCHANGED <<page, copy, prior, seen>>

(* ctl_write up to the call: the whole BEAM waits for Root.                 *)
ctl_write(fd) ==
    /\ Running /\ fd \in fds /\ admit(fd, "write") /\ sent < CommandMax
    /\ owner' = [owner EXCEPT !.phase = "calling"]
    /\ sent' = sent + 1
    /\ SameBeam /\ UNCHANGED <<fds, page, copy, prior, seen>>

(* Root's answer, which may not be a valid frame.                           *)
runtime_ctl_reply(valid) ==
    /\ pc = "running" /\ admit(owner.fd, "reply")
    /\ owner' = IF valid THEN [owner EXCEPT !.phase = "reply_ready", !.reply = sent]
                ELSE [owner EXCEPT !.phase = "idle"]
    /\ SameBeam /\ UNCHANGED <<fds, sent, page, copy, prior, seen>>

ctl_read(fd) ==
    /\ Running /\ fd \in fds /\ admit(fd, "read")
    /\ owner' = [owner EXCEPT !.phase = "idle", !.reply = 0]
    /\ SameBeam /\ UNCHANGED <<fds, sent, page, copy, prior, seen>>

(* The descriptor goes whether or not it is the owner's.                    *)
ctl_close(fd) ==
    /\ Running /\ fd \in fds
    /\ owner' = IF admit(fd, "close") THEN Closed ELSE owner
    /\ sent' = IF admit(fd, "close") THEN 0 ELSE sent
    /\ fds' = fds \ {fd}
    /\ SameBeam /\ UNCHANGED <<page, copy, prior, seen>>

(***************************************************************************)
(* root_status_reader.c, under stat_read.                                   *)
(***************************************************************************)
stat_read ==
    /\ Running
    /\ copy' = [NoCopy EXCEPT !.step = "begin", !.left = StatAttempts]
    /\ SameBeam /\ UNCHANGED <<owner, fds, sent, page, prior, seen>>

(* An even sequence number, then the copy, header first.                    *)
root_status_copy_begin ==
    /\ pc = "running" /\ copy.step = "begin" /\ copy.left > 0
    /\ copy' = IF page.seq = 0 \/ page.seq % 2 = 1 THEN [copy EXCEPT !.left = @ - 1]
               ELSE [copy EXCEPT !.step = "header", !.seq = page.seq, !.left = @ - 1]
    /\ SameBeam /\ UNCHANGED <<owner, fds, sent, page, prior, seen>>

CopyHeader ==
    /\ pc = "running" /\ copy.step = "header"
    /\ copy' = [copy EXCEPT !.step = "rows", !.header = page]
    /\ SameBeam /\ UNCHANGED <<owner, fds, sent, page, prior, seen>>

CopyRows ==
    /\ pc = "running" /\ copy.step = "rows"
    /\ copy' = [copy EXCEPT !.step = "finish", !.rows = page]
    /\ SameBeam /\ UNCHANGED <<owner, fds, sent, page, prior, seen>>

root_status_missed(previous_head, current_head) ==
    LET earliest == IF current_head > EventCount THEN current_head - EventCount ELSE 0
    IN  IF earliest > previous_head THEN earliest - previous_head ELSE 0

(* Root is not restarted, so its generation is always the same; one row     *)
(* stands for all.                                                          *)
root_status_regressed(old, new) ==
    IF new.seq = old.seq THEN new # old
    ELSE \/ new.seq < old.seq \/ new.event_head < old.event_head
         \/ new.incarnation < old.incarnation
         \/ new.count < old.count \/ new.down < old.down

(* The page as copied: the header's fields and the rows'.                   *)
Copied == [copy.header EXCEPT !.count = copy.rows.count, !.down = copy.rows.down]

(* root_status_observe of a page just read against the one before it.       *)
root_status_observe(old, new) ==
    [regressed |-> old # NoPage /\ root_status_regressed(old, new),
     missed |-> IF old = NoPage THEN 0 ELSE root_status_missed(old.event_head, new.event_head),
     lost |-> IF old = NoPage THEN 0
              ELSE Cardinality({e \in old.event_head + 1 .. new.event_head :
                                  e + EventCount <= new.event_head}),
     whole |-> copy.header = copy.rows]

(* Mutant: the copy is taken without the second look at the sequence.       *)
copy_finish_OneLook ==
    /\ pc = "running" /\ copy.step = "finish"
    /\ seen' = root_status_observe(prior, Copied)
    /\ prior' = Copied /\ copy' = NoCopy
    /\ SameBeam /\ UNCHANGED <<owner, fds, sent, page>>

(* The sequence number again: another one is a torn copy, tried again while *)
(* attempts are left.                                                       *)
root_status_copy_finish ==
    /\ pc = "running" /\ copy.step = "finish"
    /\ \/ /\ page.seq # copy.seq
          /\ copy' = [copy EXCEPT !.step = "begin", !.header = NoPage, !.rows = NoPage]
          /\ UNCHANGED <<prior, seen>>
       \/ /\ page.seq = copy.seq /\ copy' = NoCopy
          /\ IF copy.header.seq = copy.seq
             THEN seen' = root_status_observe(prior, Copied) /\ prior' = Copied
             ELSE UNCHANGED <<prior, seen>>
    /\ SameBeam /\ UNCHANGED <<owner, fds, sent, page>>

(* -EAGAIN after the last attempt.                                          *)
ReadGivesUp ==
    /\ pc = "running" /\ copy.step = "begin" /\ copy.left = 0
    /\ copy' = NoCopy
    /\ SameBeam /\ UNCHANGED <<owner, fds, sent, page, prior, seen>>

(* root_status_note_restart adds the interval it closes to the down time;   *)
(* none was open, or the clock gave none, when elapsed is 0.                *)
root_status_note_restart(down, elapsed) ==
    IF elapsed > DownMax - down THEN DownMax ELSE down + elapsed

(* root_status_publish, from a callback of Root's: events, a row, policy.   *)
(* Pages nobody reads are not told apart.                                   *)
root_status_publish ==
    /\ image.devices /\ page.seq < 2 * PublishMax
    /\ \E events \in EventsAtOnce, restarted \in {0, 1}, elapsed \in 0 .. DownMax :
          /\ restarted = 0 => elapsed = 0
          /\ page' = [page EXCEPT !.seq = @ + 2, !.event_head = @ + events,
                                  !.count = @ + restarted,
                                  !.down = root_status_note_restart(@, elapsed)]
    /\ SameBeam /\ UNCHANGED deviceVars

(***************************************************************************)
(* The BEAM's life: the restore zeroes the owner and whatever the           *)
(* application kept.                                                        *)
(***************************************************************************)
Zeroed == ZeroBss /\ owner' = Closed /\ fds' = {} /\ sent' = 0 /\ copy' = NoCopy
                  /\ prior' = NoPage /\ seen' = NothingSeen /\ UNCHANGED page

(* A restart Root makes is published with the BEAM's next incarnation.      *)
BeamRestarted ==
    /\ RootRestarts
    /\ \E elapsed \in 0 .. DownMax :
          page' = [page EXCEPT !.seq = @ + 2, !.event_head = @ + 1, !.incarnation = @ + 1,
                               !.count = @ + 1, !.down = root_status_note_restart(@, elapsed)]
    /\ UNCHANGED deviceVars

Lives == (BootSteps \/ MainRuns \/ beam_request_restart \/ RootGivesUp) /\ UNCHANGED <<deviceVars, page>>

Reads ==
    \/ stat_read \/ root_status_copy_begin \/ CopyHeader \/ CopyRows
    \/ root_status_copy_finish \/ ReadGivesUp

Next ==
    \/ Lives \/ Zeroed \/ BeamRestarted \/ root_status_publish \/ Reads
    \/ \E valid \in BOOLEAN : runtime_ctl_reply(valid)
    \/ \E fd \in Fd : ctl_open(fd) \/ ctl_write(fd) \/ ctl_read(fd) \/ ctl_close(fd)

Spec == Init /\ [][Next]_vars

-----------------------------------------------------------------------------
(* Once main runs, the device is owned exactly by its one open descriptor,  *)
(* so it is never busy without one, and a pending reply answers the last    *)
(* command this opener wrote: a reply never crosses a close, a refused      *)
(* open, an invalid frame or a restart in the middle of the call            *)
(* (runtime_control_dev.c:17-19, :153, :213).                               *)
ControlOwned ==
    pc \in {"main", "running"} =>
        /\ fds = (IF owner.phase = "closed" THEN {} ELSE {owner.fd})
        /\ owner.phase = "reply_ready" => owner.reply = sent /\ sent # 0

(* A status read hands out a page Root published whole, an observer sees no *)
(* page older than the one before, and misses are counted exactly, however  *)
(* often Root publishes under the copy (root_status_reader.c:30, :72, :79). *)
StatusIsOneMoment ==
    seen.whole /\ ~seen.regressed /\ seen.missed = seen.lost
=============================================================================
