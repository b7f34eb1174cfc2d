------------------------- MODULE ControlDeviceProofs -------------------------
(***************************************************************************)
(* Proofs about ControlDevice and, under it, BeamRestart, for any images,   *)
(* descriptors, numbers of commands and of publications.                    *)
(*                                                                         *)
(* The owner of the control device is right at every moment and not only    *)
(* while the BEAM runs: a restart in the middle of a call leaves it as it   *)
(* was and the restore clears it whole. A copy of the status page is of one *)
(* moment because the sequence number never comes back: while it is the one *)
(* the copy began with, what was copied is what the page still holds.       *)
(***************************************************************************)
EXTENDS ControlDevice, FiniteSetTheorems, WellFoundedInduction, TLAPS

Phases == {"closed", "idle", "calling", "reply_ready"}

(* The owner is the one open descriptor, and its reply answers the last     *)
(* command.                                                                 *)
OwnerInv ==
    /\ owner \in [phase : Phases, fd : Fd \cup {NoFd}, reply : Nat]
    /\ sent \in Nat
    /\ fds = IF owner.phase = "closed" THEN {} ELSE {owner.fd}
    /\ owner.phase \in {"calling", "reply_ready"} => sent # 0
    /\ owner.phase = "reply_ready" => owner.reply = sent

PageType == [seq : Nat, event_head : Nat, incarnation : Nat, count : Nat, down : 0 .. DownMax]

CopyType == [step : {"none", "begin", "header", "rows", "finish"}, seq : Nat, left : Nat,
             header : PageType \cup {NoPage}, rows : PageType \cup {NoPage}]

(* What a copy under way has, unless the page has moved on.                 *)
CopyInv ==
    /\ copy \in CopyType
    /\ copy.step \in {"header", "rows", "finish"} => copy.seq <= page.seq
    /\ copy.step \in {"rows", "finish"} /\ copy.seq = page.seq => copy.header = page
    /\ copy.step = "finish" /\ copy.seq = page.seq => copy.rows = page

(* No page that was read is ahead of the page.                              *)
PriorInv ==
    prior # NoPage =>
        /\ prior \in PageType
        /\ prior.seq <= page.seq /\ prior.event_head <= page.event_head
        /\ prior.incarnation <= page.incarnation
        /\ prior.count <= page.count /\ prior.down <= page.down
        /\ prior.seq = page.seq => prior = page

StatusInv == page \in PageType /\ CopyInv /\ PriorInv /\ StatusIsOneMoment

-----------------------------------------------------------------------------
(* The steps of the system, one action each.                                *)
BeamStep == Lives \/ BeamRestarted

CtlStep ==
    \/ \E valid \in BOOLEAN : runtime_ctl_reply(valid)
    \/ \E fd \in Fd : ctl_open(fd) \/ ctl_write(fd) \/ ctl_read(fd) \/ ctl_close(fd)

LEMMA NextSplit == Next <=> BeamStep \/ Zeroed \/ root_status_publish \/ Reads \/ CtlStep
BY DEF Next, BeamStep, CtlStep

LEMMA OwnerInvInit == Init => OwnerInv
BY DEF Init, DeviceInit, OwnerInv, Closed, Phases

LEMMA OwnerInvStep == OwnerInv /\ [Next]_vars => OwnerInv'
<1>. SUFFICES ASSUME OwnerInv, [Next]_vars PROVE OwnerInv' OBVIOUS
<1>1. CASE UNCHANGED <<owner, fds, sent>> BY <1>1 DEF OwnerInv
<1>2. CASE Zeroed BY <1>2 DEF Zeroed, OwnerInv, Closed, Phases
<1>3. ASSUME NEW valid \in BOOLEAN, runtime_ctl_reply(valid) PROVE OwnerInv'
    <2>1. owner.phase = "calling" /\ UNCHANGED <<fds, sent>>
        BY <1>3 DEF runtime_ctl_reply, admit, gate
    <2>2. owner' = IF valid THEN [owner EXCEPT !.phase = "reply_ready", !.reply = sent]
                   ELSE [owner EXCEPT !.phase = "idle"]
        BY <1>3 DEF runtime_ctl_reply
    <2>3. CASE valid BY <2>1, <2>2, <2>3 DEF OwnerInv, Phases
    <2>4. CASE ~valid BY <2>1, <2>2, <2>4 DEF OwnerInv, Phases
    <2>. QED BY <2>3, <2>4
<1>4. ASSUME NEW fd \in Fd, ctl_open(fd) PROVE OwnerInv'
    <2>1. CASE admit(fd, "open")
        <3>1. owner.phase = "closed" BY <2>1 DEF admit, gate
        <3>2. /\ owner' = [phase |-> "idle", fd |-> fd, reply |-> 0]
              /\ sent' = 0 /\ fds' = fds \cup {fd}
            BY <1>4, <2>1 DEF ctl_open
        <3>3. fds' = {fd} BY <3>1, <3>2 DEF OwnerInv
        <3>. QED BY <3>2, <3>3 DEF OwnerInv, Phases
    <2>2. CASE ~admit(fd, "open") BY <1>1, <1>4, <2>2 DEF ctl_open
    <2>. QED BY <2>1, <2>2
<1>5. ASSUME NEW fd \in Fd, ctl_write(fd) PROVE OwnerInv'
    <2>1. /\ owner.phase = "idle" /\ owner' = [owner EXCEPT !.phase = "calling"]
          /\ sent' = sent + 1 /\ UNCHANGED fds
        BY <1>5 DEF ctl_write, admit, gate
    <2>. QED BY <2>1 DEF OwnerInv, Phases
<1>6. ASSUME NEW fd \in Fd, ctl_read(fd) PROVE OwnerInv'
    <2>1. /\ owner.phase = "reply_ready"
          /\ owner' = [owner EXCEPT !.phase = "idle", !.reply = 0]
          /\ UNCHANGED <<fds, sent>>
        BY <1>6 DEF ctl_read, admit, gate
    <2>. QED BY <2>1 DEF OwnerInv, Phases
<1>7. ASSUME NEW fd \in Fd, ctl_close(fd) PROVE OwnerInv'
    <2>1. owner.phase # "closed" /\ owner.fd = fd BY <1>7 DEF ctl_close, OwnerInv
    <2>2. admit(fd, "close") BY <2>1 DEF admit, gate
    <2>3. owner' = Closed /\ sent' = 0 /\ fds' = fds \ {fd} BY <1>7, <2>2 DEF ctl_close
    <2>4. fds' = {} BY <2>1, <2>3 DEF OwnerInv
    <2>. QED BY <2>3, <2>4 DEF OwnerInv, Closed, Phases
<1>8. CASE BeamStep \/ root_status_publish \/ Reads \/ UNCHANGED vars
    <2>1. UNCHANGED <<owner, fds, sent>>
        BY <1>8 DEF BeamStep, Lives, BeamRestarted, deviceVars, root_status_publish, Reads, vars,
           stat_read, root_status_copy_begin, CopyHeader, CopyRows, root_status_copy_finish,
           ReadGivesUp
    <2>. QED BY <1>1, <2>1
<1>. QED BY <1>2, <1>3, <1>4, <1>5, <1>6, <1>7, <1>8, NextSplit DEF CtlStep

(* The device is owned by its one open descriptor and a pending reply       *)
(* answers the opener's last command, at any number of descriptors and      *)
(* commands, over restarts at any point of a call                           *)
(* (runtime_control_dev.c:17-19, :153, :213).                               *)
THEOREM ControlOwnership == Spec => []ControlOwned
<1>1. OwnerInv => ControlOwned BY DEF OwnerInv, ControlOwned
<1>. QED BY <1>1, OwnerInvInit, OwnerInvStep, PTL DEF Spec

-----------------------------------------------------------------------------
(* The events the window of EventCount has lost are the ones counted.       *)
LEMMA MissedIsLost ==
    ASSUME NEW old \in Nat, NEW new \in Nat, old <= new
    PROVE  root_status_missed(old, new) =
           Cardinality({e \in old + 1 .. new : e + EventCount <= new})
<1>. EventCount \in Nat \ {0} BY ControlAssumption
<1>1. {e \in old + 1 .. new : e + EventCount <= new} = old + 1 .. new - EventCount
    OBVIOUS
<1>2. Cardinality(old + 1 .. new - EventCount) =
          IF old + 1 > new - EventCount THEN 0 ELSE (new - EventCount) - (old + 1) + 1
    BY FS_Interval
<1>3. root_status_missed(old, new) =
          IF old + 1 > new - EventCount THEN 0 ELSE (new - EventCount) - (old + 1) + 1
    BY DEF root_status_missed
<1>. QED BY <1>1, <1>2, <1>3

(* A page that is read whole is not behind the one before it.               *)
LEMMA Observed ==
    ASSUME page \in PageType, PriorInv, copy.header = page, copy.rows = page
    PROVE  /\ Copied = page
           /\ root_status_observe(prior, Copied).whole
           /\ ~root_status_observe(prior, Copied).regressed
           /\ root_status_observe(prior, Copied).missed = root_status_observe(prior, Copied).lost
<1>1. Copied = page BY DEF Copied, PageType
<1>2. prior # NoPage => ~root_status_regressed(prior, page)
    BY DEF PriorInv, root_status_regressed, PageType
<1>3. prior # NoPage => root_status_missed(prior.event_head, page.event_head) =
          Cardinality({e \in prior.event_head + 1 .. page.event_head :
                          e + EventCount <= page.event_head})
    BY MissedIsLost DEF PriorInv, PageType
<1>. QED BY <1>1, <1>2, <1>3 DEF root_status_observe

(* The down time saturates, so that it never goes back.                     *)
LEMMA DownGrows ==
    ASSUME NEW down \in 0 .. DownMax, NEW elapsed \in 0 .. DownMax
    PROVE  /\ root_status_note_restart(down, elapsed) \in 0 .. DownMax
           /\ root_status_note_restart(down, elapsed) >= down
BY ControlAssumption DEF root_status_note_restart

(* The page moves on: the sequence number with it, and nothing back.        *)
LEMMA PageMoves ==
    ASSUME StatusInv, page' \in PageType, page'.seq > page.seq,
           page'.event_head >= page.event_head, page'.incarnation >= page.incarnation,
           page'.count >= page.count, page'.down >= page.down, UNCHANGED <<copy, prior, seen>>
    PROVE  StatusInv'
<1>1. CopyInv'
    <2>1. copy \in CopyType /\ (copy.step \in {"header", "rows", "finish"} => copy.seq <= page.seq)
        BY DEF StatusInv, CopyInv
    <2>2. copy.seq \in Nat /\ page.seq \in Nat /\ page'.seq \in Nat
        BY <2>1 DEF StatusInv, CopyType, PageType
    <2>3. copy.step \in {"header", "rows", "finish"} => copy.seq < page'.seq BY <2>1, <2>2
    <2>4. copy.step \in {"header", "rows", "finish"} => copy.seq <= page'.seq /\ copy.seq # page'.seq
        BY <2>2, <2>3
    <2>. QED BY <2>1, <2>4 DEF CopyInv
<1>2. PriorInv'
    <2>. SUFFICES ASSUME prior # NoPage
                  PROVE  /\ prior \in PageType
                         /\ prior.seq < page'.seq /\ prior.event_head <= page'.event_head
                         /\ prior.incarnation <= page'.incarnation
                         /\ prior.count <= page'.count /\ prior.down <= page'.down
        BY DEF PriorInv, PageType
    <2>. QED BY DEF StatusInv, PriorInv, PageType
<1>3. StatusIsOneMoment' BY DEF StatusInv, StatusIsOneMoment
<1>. QED BY <1>1, <1>2, <1>3 DEF StatusInv

LEMMA StatusInvInit == Init => StatusInv
<1>. SUFFICES ASSUME Init PROVE StatusInv OBVIOUS
<1>1. page \in PageType BY ControlAssumption DEF Init, PageType
<1>2. CopyInv BY DEF Init, DeviceInit, NoCopy, CopyInv, CopyType
<1>3. PriorInv /\ StatusIsOneMoment
    BY DEF Init, DeviceInit, PriorInv, StatusIsOneMoment, NothingSeen
<1>. QED BY <1>1, <1>2, <1>3 DEF StatusInv

LEMMA CopySteps ==
    ASSUME StatusInv, Reads
    PROVE  StatusInv'
<1>. /\ page \in PageType /\ copy \in CopyType /\ CopyInv /\ PriorInv /\ StatusIsOneMoment
    BY DEF StatusInv, CopyInv
<1>. UNCHANGED page
    BY DEF Reads, stat_read, root_status_copy_begin, CopyHeader, CopyRows,
       root_status_copy_finish, ReadGivesUp
<1>0. NoCopy \in CopyType /\ NoCopy.step = "none" BY DEF NoCopy, CopyType
<1>a. ASSUME CopyInv', UNCHANGED <<prior, seen>> PROVE StatusInv'
    BY <1>a DEF StatusInv, PriorInv, StatusIsOneMoment
<1>1. CASE stat_read
    <2>1. copy' = [NoCopy EXCEPT !.step = "begin", !.left = StatAttempts] /\ UNCHANGED <<prior, seen>>
        BY <1>1 DEF stat_read
    <2>2. copy' \in CopyType /\ copy'.step = "begin"
        BY <2>1, ControlAssumption DEF NoCopy, CopyType
    <2>3. CopyInv' BY <2>2 DEF CopyInv
    <2>. QED BY <1>a, <2>1, <2>3
<1>2. CASE root_status_copy_begin
    <2>0. copy.step = "begin" /\ copy.left > 0 /\ UNCHANGED <<prior, seen>>
        BY <1>2 DEF root_status_copy_begin
    <2>1. CASE copy' = [copy EXCEPT !.left = @ - 1]
        <3>1. copy' \in CopyType /\ copy'.step = "begin" BY <2>0, <2>1 DEF CopyType
        <3>2. CopyInv' BY <3>1 DEF CopyInv
        <3>. QED BY <1>a, <2>0, <3>2
    <2>2. CASE copy' = [copy EXCEPT !.step = "header", !.seq = page.seq, !.left = @ - 1]
        <3>1. copy' \in CopyType /\ copy'.step = "header" /\ copy'.seq = page.seq
            <4>. DEFINE q == page.seq
                        l == copy.left - 1
            <4>1. q \in Nat BY DEF PageType
            <4>2. l \in Nat BY <2>0 DEF CopyType
            <4>3. copy' = [copy EXCEPT !.step = "header", !.seq = q, !.left = l] BY <2>2
            <4>. HIDE DEF q, l
            <4>4. copy' \in CopyType /\ copy'.step = "header" /\ copy'.seq = q
                BY <4>1, <4>2, <4>3 DEF CopyType
            <4>. QED BY <4>4 DEF q
        <3>2. page.seq \in Nat BY DEF PageType
        <3>3. CopyInv' BY <3>1, <3>2 DEF CopyInv
        <3>. QED BY <1>a, <2>0, <3>3
    <2>. QED BY <1>2, <2>1, <2>2 DEF root_status_copy_begin
<1>3. CASE CopyHeader
    <2>1. /\ copy.step = "header" /\ UNCHANGED <<prior, seen>>
          /\ copy' = [copy EXCEPT !.step = "rows", !.header = page]
        BY <1>3 DEF CopyHeader
    <2>2. copy' \in CopyType /\ copy'.step = "rows" /\ copy'.header = page /\ copy'.seq = copy.seq
        BY <2>1 DEF CopyType
    <2>3. CopyInv' BY <2>1, <2>2 DEF CopyInv
    <2>. QED BY <1>a, <2>1, <2>3
<1>4. CASE CopyRows
    <2>1. /\ copy.step = "rows" /\ UNCHANGED <<prior, seen>>
          /\ copy' = [copy EXCEPT !.step = "finish", !.rows = page]
        BY <1>4 DEF CopyRows
    <2>2. /\ copy' \in CopyType /\ copy'.step = "finish" /\ copy'.rows = page
          /\ copy'.seq = copy.seq /\ copy'.header = copy.header
        BY <2>1 DEF CopyType
    <2>3. CopyInv' BY <2>1, <2>2 DEF CopyInv
    <2>. QED BY <1>a, <2>1, <2>3
<1>5. CASE root_status_copy_finish
    <2>0. copy.step = "finish" BY <1>5 DEF root_status_copy_finish
    <2>1. CASE page.seq # copy.seq
        <3>1. /\ copy' = [copy EXCEPT !.step = "begin", !.header = NoPage, !.rows = NoPage]
              /\ UNCHANGED <<prior, seen>>
            BY <1>5, <2>1 DEF root_status_copy_finish
        <3>2. copy' \in CopyType /\ copy'.step = "begin" BY <3>1 DEF CopyType
        <3>3. CopyInv' BY <3>2 DEF CopyInv
        <3>. QED BY <1>a, <3>1, <3>3
    <2>2. CASE page.seq = copy.seq
        <3>1. copy.header = page /\ copy.rows = page BY <2>0, <2>2 DEF CopyInv
        <3>2. copy' = NoCopy /\ seen' = root_status_observe(prior, Copied) /\ prior' = Copied
            BY <1>5, <2>2, <3>1 DEF root_status_copy_finish
        <3>3. CopyInv' BY <1>0, <3>2 DEF CopyInv
        <3>4. prior' = page /\ StatusIsOneMoment'
            BY <3>1, <3>2, Observed DEF StatusIsOneMoment
        <3>5. PriorInv' BY <3>4 DEF PriorInv, PageType
        <3>. QED BY <3>3, <3>4, <3>5 DEF StatusInv
    <2>. QED BY <2>1, <2>2
<1>6. CASE ReadGivesUp
    <2>1. copy' = NoCopy /\ UNCHANGED <<prior, seen>> BY <1>6 DEF ReadGivesUp
    <2>2. CopyInv' BY <1>0, <2>1 DEF CopyInv
    <2>. QED BY <1>a, <2>1, <2>2
<1>. QED BY <1>1, <1>2, <1>3, <1>4, <1>5, <1>6 DEF Reads

LEMMA StatusInvStep == StatusInv /\ [Next]_vars => StatusInv'
<1>. SUFFICES ASSUME StatusInv, [Next]_vars PROVE StatusInv' OBVIOUS
<1>. page \in PageType BY DEF StatusInv
<1>1. CASE Reads BY <1>1, CopySteps
<1>2. CASE Zeroed
    <2>1. copy' = NoCopy /\ prior' = NoPage /\ seen' = NothingSeen /\ UNCHANGED page
        BY <1>2 DEF Zeroed
    <2>2. CopyInv' BY <2>1 DEF NoCopy, CopyInv, CopyType
    <2>3. PriorInv' /\ StatusIsOneMoment' BY <2>1 DEF PriorInv, StatusIsOneMoment, NothingSeen
    <2>. QED BY <2>1, <2>2, <2>3 DEF StatusInv
<1>3. CASE root_status_publish
    <2>1. PICK events \in EventsAtOnce, restarted \in {0, 1}, elapsed \in 0 .. DownMax :
              page' = [page EXCEPT !.seq = @ + 2, !.event_head = @ + events, !.count = @ + restarted,
                                   !.down = root_status_note_restart(page.down, elapsed)]
        BY <1>3 DEF root_status_publish
    <2>2. events \in Nat BY ControlAssumption
    <2>3. /\ page' \in PageType /\ page'.seq > page.seq /\ page'.event_head >= page.event_head
          /\ page'.incarnation >= page.incarnation /\ page'.count >= page.count
          /\ page'.down >= page.down
        <3>. DEFINE q == page.seq + 2
                    e == page.event_head + events
                    c == page.count + restarted
                    d == root_status_note_restart(page.down, elapsed)
        <3>1. /\ page.seq \in Nat /\ page.event_head \in Nat /\ page.incarnation \in Nat
              /\ page.count \in Nat
            BY DEF PageType
        <3>d. d \in 0 .. DownMax /\ d >= page.down BY DownGrows DEF PageType
        <3>2. q \in Nat /\ e \in Nat /\ c \in Nat /\ q > page.seq /\ e >= page.event_head
              /\ c >= page.count /\ page.incarnation >= page.incarnation
            BY <2>2, <3>1
        <3>3. page' = [page EXCEPT !.seq = q, !.event_head = e, !.count = c, !.down = d] BY <2>1
        <3>. HIDE DEF q, e, c, d
        <3>4. /\ page' \in PageType /\ page'.seq = q /\ page'.event_head = e
              /\ page'.incarnation = page.incarnation /\ page'.count = c /\ page'.down = d
            BY <3>d, <3>1, <3>2, <3>3 DEF PageType
        <3>. QED BY <3>d, <3>2, <3>4
    <2>4. UNCHANGED <<copy, prior, seen>> BY <1>3 DEF root_status_publish, deviceVars
    <2>. QED BY <2>3, <2>4, PageMoves
<1>4. CASE BeamRestarted
    <2>1. PICK elapsed \in 0 .. DownMax :
              page' = [page EXCEPT !.seq = @ + 2, !.event_head = @ + 1, !.incarnation = @ + 1,
                                   !.count = @ + 1,
                                   !.down = root_status_note_restart(page.down, elapsed)]
        BY <1>4 DEF BeamRestarted
    <2>2. /\ page' \in PageType /\ page'.seq > page.seq /\ page'.event_head >= page.event_head
          /\ page'.incarnation >= page.incarnation /\ page'.count >= page.count
          /\ page'.down >= page.down
        <3>. DEFINE q == page.seq + 2
                    e == page.event_head + 1
                    i == page.incarnation + 1
                    c == page.count + 1
                    d == root_status_note_restart(page.down, elapsed)
        <3>d. d \in 0 .. DownMax /\ d >= page.down BY DownGrows DEF PageType
        <3>1. /\ page.seq \in Nat /\ page.event_head \in Nat /\ page.incarnation \in Nat
              /\ page.count \in Nat
            BY DEF PageType
        <3>2. q \in Nat /\ e \in Nat /\ i \in Nat /\ c \in Nat /\ q > page.seq
              /\ e >= page.event_head /\ i >= page.incarnation /\ c >= page.count
            BY <3>1
        <3>3. page' = [page EXCEPT !.seq = q, !.event_head = e, !.incarnation = i, !.count = c,
                                   !.down = d]
            BY <2>1
        <3>. HIDE DEF q, e, i, c, d
        <3>4. /\ page' \in PageType /\ page'.seq = q /\ page'.event_head = e
              /\ page'.incarnation = i /\ page'.count = c /\ page'.down = d
            BY <3>d, <3>2, <3>3 DEF PageType
        <3>. QED BY <3>d, <3>2, <3>4
    <2>3. UNCHANGED <<copy, prior, seen>> BY <1>4 DEF BeamRestarted, deviceVars
    <2>. QED BY <2>2, <2>3, PageMoves
<1>5. CASE Lives \/ CtlStep \/ UNCHANGED vars
    <2>1. UNCHANGED <<page, copy, prior, seen>>
        BY <1>5 DEF Lives, deviceVars, CtlStep, runtime_ctl_reply, ctl_open, ctl_write, ctl_read,
           ctl_close, vars
    <2>. QED BY <2>1 DEF StatusInv, CopyInv, PriorInv, StatusIsOneMoment
<1>. QED BY <1>1, <1>2, <1>3, <1>4, <1>5, NextSplit DEF BeamStep

(* A status read is of one moment, observers see no page older than the one *)
(* before and count exactly the events they missed, however often Root      *)
(* publishes under the copy (root_status_reader.c:30, :72, :79).            *)
THEOREM StatusConsistent == Spec => []StatusIsOneMoment
<1>1. StatusInv => StatusIsOneMoment BY DEF StatusInv
<1>. QED BY <1>1, StatusInvInit, StatusInvStep, PTL DEF Spec

-----------------------------------------------------------------------------
(* Data is the loader's until main runs, and the snapshot is a copy of it   *)
(* from before the magic is written.                                        *)
SegmentKept ==
    /\ snapshot \in [magic : BOOLEAN, generation : Nat, saved_sp : {0, image.sp},
                     data : {<<>>, image.data}, survivors : {snapshot.survivors}]
    /\ snapshot.magic => snapshot.data = image.data /\ snapshot.saved_sp = image.sp
    /\ pc \in {"_start", "capture_survivors", "capture_magic", "main"} =>
          data = image.data /\ sp = image.sp
    /\ pc \in {"capture_survivors", "capture_magic"} =>
          snapshot.data = image.data /\ snapshot.saved_sp = image.sp
    /\ pc \in {"zero", "replay"} => snapshot.magic /\ data = image.data

LEMMA SegmentInit == Init => SegmentKept
BY DEF Init, BeamInit, NoSnapshot, SegmentKept

LEMMA SegmentStep == SegmentKept /\ [Next]_vars => SegmentKept'
<1>. SUFFICES ASSUME SegmentKept, [Next]_vars PROVE SegmentKept' OBVIOUS
<1>1. CASE UNCHANGED beamVars BY <1>1 DEF beamVars, SegmentKept
<1>2. CASE beam_boot_capture
    <2>. image' = image /\ data' = data /\ sp' = sp /\ pc = "_start"
        BY <1>2 DEF beam_boot_capture
    <2>1. \/ UNCHANGED snapshot /\ pc' \in {"main", "trap"}
          \/ /\ snapshot' = [snapshot EXCEPT !.data = data, !.saved_sp = sp, !.survivors = <<>>]
             /\ pc' = "capture_survivors"
        BY <1>2 DEF beam_boot_capture, restart_fail
    <2>2. CASE UNCHANGED snapshot /\ pc' \in {"main", "trap"}
        BY <2>2 DEF SegmentKept
    <2>3. CASE /\ snapshot' = [snapshot EXCEPT !.data = data, !.saved_sp = sp, !.survivors = <<>>]
               /\ pc' = "capture_survivors"
        <3>1. data = image.data /\ sp = image.sp BY DEF SegmentKept
        <3>2. /\ snapshot' \in [magic : BOOLEAN, generation : Nat, saved_sp : {0, image.sp},
                                data : {<<>>, image.data}, survivors : {snapshot'.survivors}]
              /\ snapshot'.data = image.data /\ snapshot'.saved_sp = image.sp
            BY <2>3, <3>1 DEF SegmentKept
        <3>. QED BY <2>3, <3>1, <3>2 DEF SegmentKept
    <2>. QED BY <2>1, <2>2, <2>3
<1>3. CASE capture_survivors
    <2>. image' = image /\ data' = data /\ sp' = sp /\ pc = "capture_survivors"
        BY <1>3 DEF capture_survivors
    <2>1. /\ snapshot' = snapshot \/ \E x : snapshot' = [snapshot EXCEPT !.survivors = x]
          /\ pc' \in {"trap", "capture_survivors", "capture_magic"}
        BY <1>3 DEF capture_survivors, EncodeRun, EncodeTail, append_run, restart_fail
    <2>2. /\ snapshot' \in [magic : BOOLEAN, generation : Nat, saved_sp : {0, image.sp},
                            data : {<<>>, image.data}, survivors : {snapshot'.survivors}]
          /\ snapshot'.data = snapshot.data /\ snapshot'.saved_sp = snapshot.saved_sp
          /\ snapshot'.magic = snapshot.magic
        BY <2>1 DEF SegmentKept
    <2>. QED BY <2>1, <2>2 DEF SegmentKept
<1>4. CASE CaptureMagic
    <2>. image' = image /\ data' = data /\ sp' = sp /\ pc = "capture_magic" /\ pc' = "main"
        BY <1>4 DEF CaptureMagic
    <2>1. snapshot' = [snapshot EXCEPT !.generation = 1, !.magic = TRUE] BY <1>4 DEF CaptureMagic
    <2>2. /\ snapshot' \in [magic : BOOLEAN, generation : Nat, saved_sp : {0, image.sp},
                            data : {<<>>, image.data}, survivors : {snapshot'.survivors}]
          /\ snapshot'.data = snapshot.data /\ snapshot'.saved_sp = snapshot.saved_sp
        BY <2>1 DEF SegmentKept
    <2>. QED BY <2>2 DEF SegmentKept
<1>5. CASE beam_reset_restore
    <2>1. /\ UNCHANGED <<image, sp, snapshot>>
          /\ \/ pc' = "trap"
             \/ pc' = "zero" /\ data' = snapshot.data /\ snapshot.magic
        BY <1>5 DEF beam_reset_restore, restart_fail, beam_snapshot_validate
    <2>. QED BY <2>1 DEF SegmentKept
<1>6. CASE Zeroed \/ ReplaySurvivor
    <2>1. UNCHANGED <<image, data, sp, snapshot>> /\ pc \in {"zero", "replay"} /\ pc' = "replay"
        BY <1>6 DEF Zeroed, ZeroBss, ReplaySurvivor
    <2>. QED BY <2>1 DEF SegmentKept
<1>7. CASE RestoreDone
    <2>1. /\ UNCHANGED <<image, data>> /\ pc = "replay" /\ pc' = "main"
          /\ snapshot' = [snapshot EXCEPT !.generation = @ + 1] /\ sp' = snapshot.saved_sp
        BY <1>7 DEF RestoreDone
    <2>2. /\ snapshot' \in [magic : BOOLEAN, generation : Nat, saved_sp : {0, image.sp},
                            data : {<<>>, image.data}, survivors : {snapshot'.survivors}]
          /\ snapshot'.data = snapshot.data /\ snapshot'.saved_sp = snapshot.saved_sp
          /\ snapshot'.magic = snapshot.magic
        BY <2>1 DEF SegmentKept
    <2>. QED BY <2>1, <2>2 DEF SegmentKept
<1>8. CASE MainRuns \/ beam_request_restart \/ RootGivesUp \/ RootRestarts
    <2>1. UNCHANGED <<image, snapshot>> /\ pc' \in {"running", "trap", "gone", "_reset"}
        BY <1>8 DEF MainRuns, beam_request_restart, RootGivesUp, RootRestarts
    <2>. QED BY <2>1 DEF SegmentKept
<1>9. CASE CtlStep \/ Reads \/ root_status_publish \/ UNCHANGED vars
    <2>1. UNCHANGED beamVars
        BY <1>9 DEF CtlStep, runtime_ctl_reply, ctl_open, ctl_write, ctl_read, ctl_close, Reads,
           stat_read, root_status_copy_begin, CopyHeader, CopyRows, root_status_copy_finish,
           ReadGivesUp, root_status_publish, SameBeam, vars, beamVars
    <2>. QED BY <1>1, <2>1
<1>. QED BY <1>2, <1>3, <1>4, <1>5, <1>6, <1>7, <1>8, <1>9, NextSplit
     DEF BeamStep, Lives, BootSteps, BeamRestarted

-----------------------------------------------------------------------------
(* The survivors of .bss.                                                   *)

(* The encoder's records: bytes of .bss at their place.                     *)
Records == {Record(image.bss, o, n) : o \in Nat, n \in Nat}

(* A record of runs restores byte b.                                        *)
Saves(runs, b) == \E k \in DOMAIN runs : b - runs[k].offset \in DOMAIN runs[k].bytes

(* .bss is the loader's until main runs. The capture has saved every word   *)
(* it is past, a complete snapshot every byte, and a restore has put back   *)
(* all but the bytes of the records to come.                                *)
BssKept ==
    /\ image \in Images /\ bss \in [DOMAIN image.bss -> Nat]
    /\ scan \in Nat /\ snapshot.survivors \in Seq(Records) /\ replay \in Seq(Records)
    /\ pc \in {"_start", "capture_survivors", "capture_magic", "main"} => bss = image.bss
    /\ pc = "capture_survivors" => \A w \in NonZero(image.bss) : w < scan =>
          \A j \in 0 .. WordBytes - 1 : Saves(snapshot.survivors, w * WordBytes + j)
    /\ pc = "capture_magic" \/ snapshot.magic => \A b \in DOMAIN image.bss :
          image.bss[b] # 0 => Saves(snapshot.survivors, b)
    /\ pc = "replay" => \A b \in DOMAIN image.bss : bss[b] = image.bss[b] \/ Saves(replay, b)

LEMMA ImageFacts ==
    ASSUME NEW i \in Images
    PROVE  Length(i.bss) \in Nat /\ i.bss \in [0 .. Length(i.bss) - 1 -> Nat]
<1>1. IsFiniteSet(DOMAIN i.bss) /\ i.bss \in [0 .. Length(i.bss) - 1 -> Nat]
    BY RestartAssumption
<1>. QED BY <1>1, FS_CardinalityType DEF Length

(* A set of numbers has a least element, and a bounded one a greatest.      *)
LEMMA LeastOf ==
    ASSUME NEW S \in SUBSET Nat, S # {}
    PROVE  Min(S) \in S /\ \A y \in S : Min(S) <= y
<1>1. \E x \in S : \A y \in S : ~(<<y, x>> \in OpToRel(<, Nat))
    BY NatLessThanWellFounded, WFMin, Zenon
<1>2. PICK x \in S : \A y \in S : ~(<<y, x>> \in OpToRel(<, Nat))
    BY <1>1
<1>3. \A y \in S : x <= y
    <2>. SUFFICES ASSUME NEW y \in S, y < x PROVE FALSE OBVIOUS
    <2>1. <<y, x>> \in OpToRel(<, Nat) BY DEF OpToRel
    <2>. QED BY <1>2, <2>1
<1>. QED BY <1>3, Zenon DEF Min

LEMMA GreatestOf ==
    ASSUME NEW n \in Nat, NEW S \in SUBSET (0 .. n), S # {}
    PROVE  \E x \in S : \A y \in S : y <= x
<1>. DEFINE T == {n - y : y \in S}
<1>1. T \in SUBSET Nat /\ T # {} OBVIOUS
<1>2. Min(T) \in T /\ \A z \in T : Min(T) <= z BY <1>1, LeastOf
<1>3. PICK x \in S : Min(T) = n - x BY <1>2
<1>4. ASSUME NEW y \in S PROVE y <= x
    <2>1. n - y \in T OBVIOUS
    <2>2. n - x <= n - y BY <1>2, <1>3, <2>1
    <2>. QED BY <2>2
<1>. QED BY <1>4

(* Between two words of a run every byte is in it.                          *)
LEMMA WordInside ==
    ASSUME NEW s \in Nat, NEW l \in Nat, NEW w \in s .. l, NEW j \in 0 .. WordBytes - 1
    PROVE  (w * WordBytes + j) - s * WordBytes \in 0 .. (l - s + 1) * WordBytes - 1
<1>1. WordBytes \in Nat /\ WordBytes > 0 BY CodecAssumption
<1>. DEFINE d == w - s  e == l - s
<1>2. d \in Nat /\ e \in Nat /\ d <= e /\ w = s + d OBVIOUS
<1>3. (w * WordBytes + j) - s * WordBytes = d * WordBytes + j BY <1>1, <1>2
<1>. HIDE DEF d, e
<1>4. d * WordBytes \in Nat /\ d * WordBytes <= e * WordBytes BY <1>1, <1>2
<1>5. (e + 1) * WordBytes = e * WordBytes + WordBytes BY <1>1, <1>2
<1>6. d * WordBytes + j \in 0 .. (e + 1) * WordBytes - 1 BY <1>1, <1>2, <1>4, <1>5
<1>. QED BY <1>3, <1>6 DEF e

(* A byte is past the last whole word or in a word of its own.              *)
LEMMA WordOf ==
    ASSUME NEW n \in Nat, NEW b \in 0 .. n - 1, b < (n \div WordBytes) * WordBytes
    PROVE  \E w \in 0 .. (n \div WordBytes) - 1, j \in 0 .. WordBytes - 1 : b = w * WordBytes + j
<1>1. WordBytes \in Nat /\ WordBytes > 0 BY CodecAssumption
<1>. DEFINE w == b \div WordBytes  j == b % WordBytes  m == n \div WordBytes
<1>2. w \in Nat /\ j \in 0 .. WordBytes - 1 /\ b = w * WordBytes + j BY <1>1
<1>3. m \in Nat BY <1>1
<1>. HIDE DEF w, j, m
<1>4. ASSUME w >= m PROVE FALSE
    <2>1. w * WordBytes >= m * WordBytes BY <1>1, <1>2, <1>3, <1>4
    <2>. QED BY <1>1, <1>2, <1>3, <2>1 DEF m
<1>5. w \in 0 .. m - 1 BY <1>2, <1>3, <1>4
<1>. QED BY <1>2, <1>5 DEF m

LEMMA WordsOf ==
    ASSUME NEW i \in Images
    PROVE  /\ Length(i.bss) \div WordBytes \in Nat
           /\ NonZero(i.bss) \subseteq 0 .. (Length(i.bss) \div WordBytes) - 1
<1>1. Length(i.bss) \in Nat BY ImageFacts
<1>2. WordBytes \in Nat /\ WordBytes > 0 BY CodecAssumption
<1>. QED BY <1>1, <1>2 DEF NonZero

(* The word of a byte that is set is one the scan stops at.                 *)
LEMMA SetByte ==
    ASSUME NEW i \in Images, NEW b \in DOMAIN i.bss, i.bss[b] # 0, b < Tail0(i.bss)
    PROVE  \E w \in NonZero(i.bss), j \in 0 .. WordBytes - 1 : b = w * WordBytes + j
<1>1. Length(i.bss) \in Nat /\ b \in 0 .. Length(i.bss) - 1 BY ImageFacts
<1>2. PICK w \in 0 .. (Length(i.bss) \div WordBytes) - 1, j \in 0 .. WordBytes - 1 :
        b = w * WordBytes + j
    BY <1>1, WordOf DEF Tail0
<1>3. ~IsZero(load_word(i.bss, w)) BY <1>2 DEF IsZero, load_word
<1>. QED BY <1>2, <1>3 DEF NonZero

(* The next run begins at the first word left and ends where nothing        *)
(* follows within the gap.                                                  *)
LEMMA RunFacts ==
    ASSUME NEW i \in Images, NEW from \in Nat, \E w \in NonZero(i.bss) : w >= from,
           NEW start, start = RunStart(i.bss, from), NEW last, last = RunLast(i.bss, start)
    PROVE  /\ start \in Nat /\ last \in Nat /\ start <= last
           /\ \A w \in NonZero(i.bss) : w >= from => start <= w
           /\ \A w \in NonZero(i.bss) : w > last => w - last > GapWords
<1>. DEFINE N == NonZero(i.bss)
            A == {w \in N : w >= from}
            B == {w \in N : w >= start /\ \A v \in N : v > w => v - w > GapWords}
            m == Length(i.bss) \div WordBytes
<1>1. m \in Nat /\ N \subseteq 0 .. m - 1 BY WordsOf
<1>2. N \subseteq 0 .. m /\ N \subseteq Nat /\ N # {} BY <1>1
<1>3. GapWords \in Nat BY CodecAssumption
<1>. HIDE DEF m, N
<1>4. A \subseteq Nat /\ A # {} BY <1>2 DEF N
<1>5. start = Min(A) BY DEF RunStart, N
<1>6. start \in A /\ \A w \in A : start <= w BY <1>4, <1>5, LeastOf
<1>7. PICK x \in N : \A y \in N : y <= x BY <1>1, <1>2, GreatestOf
<1>8. x \in B
    <2>1. start <= x /\ start \in N BY <1>6, <1>7
    <2>. QED BY <1>2, <1>7, <2>1
<1>9. B \subseteq Nat /\ B # {} BY <1>2, <1>8
<1>10. last = Min(B) BY DEF RunLast, N
<1>11. last \in B BY <1>9, <1>10, LeastOf
<1>12. start \in Nat /\ last \in Nat /\ start <= last BY <1>2, <1>6, <1>11
<1>13. \A w \in N : w >= from => start <= w BY <1>6
<1>14. \A w \in N : w > last => w - last > GapWords BY <1>11
<1>. QED BY <1>12, <1>13, <1>14 DEF N

(* One record more loses none, and saves what it holds.                     *)
LEMMA AppendSaves ==
    ASSUME NEW R, NEW runs \in Seq(R), NEW r \in R
    PROVE  /\ Append(runs, r) \in Seq(R)
           /\ \A b : Saves(runs, b) => Saves(Append(runs, r), b)
           /\ \A b : b - r.offset \in DOMAIN r.bytes => Saves(Append(runs, r), b)
<1>1. Append(runs, r) \in Seq(R) OBVIOUS
<1>2. ASSUME NEW b, Saves(runs, b) PROVE Saves(Append(runs, r), b)
    <2>1. PICK k \in DOMAIN runs : b - runs[k].offset \in DOMAIN runs[k].bytes BY <1>2 DEF Saves
    <2>2. k \in DOMAIN Append(runs, r) /\ Append(runs, r)[k] = runs[k] BY <2>1
    <2>. QED BY <2>1, <2>2 DEF Saves
<1>3. ASSUME NEW b, b - r.offset \in DOMAIN r.bytes PROVE Saves(Append(runs, r), b)
    <2>1. Len(runs) + 1 \in DOMAIN Append(runs, r) /\ Append(runs, r)[Len(runs) + 1] = r OBVIOUS
    <2>. QED BY <1>3, <2>1 DEF Saves
<1>. QED BY <1>1, <1>2, <1>3

(* What the capture has saved once it is past a run.                        *)
LEMMA RunSaved ==
    ASSUME BssKept, SegmentKept, pc = "capture_survivors", EncodeRun, pc' = "capture_survivors"
    PROVE  /\ snapshot'.survivors \in Seq(Records)
           /\ \A b : Saves(snapshot.survivors, b) => Saves(snapshot'.survivors, b)
           /\ \A w \in NonZero(image.bss) : w < scan' =>
                \A j \in 0 .. WordBytes - 1 : Saves(snapshot'.survivors, w * WordBytes + j)
<1>. DEFINE start == RunStart(bss, scan)
            last == RunLast(bss, start)
            r == Run(bss, start, last)
            runs == snapshot.survivors
            N == NonZero(image.bss)
<1>1. /\ image \in Images /\ bss = image.bss /\ scan \in Nat /\ runs \in Seq(Records)
      /\ \A w \in N : w < scan => \A j \in 0 .. WordBytes - 1 : Saves(runs, w * WordBytes + j)
    BY DEF BssKept
<1>2. WordBytes \in Nat /\ WordBytes > 0 /\ GapWords \in Nat BY CodecAssumption
<1>3. \E w \in NonZero(image.bss) : w >= scan BY <1>1 DEF EncodeRun
<1>4. /\ start \in Nat /\ last \in Nat /\ start <= last
      /\ \A w \in N : w >= scan => start <= w
      /\ \A w \in N : w > last => w - last > GapWords
    <2>. HIDE DEF N
    <2>. QED BY <1>1, <1>3, RunFacts DEF N
<1>5. snapshot' = [snapshot EXCEPT !.survivors = Append(@, r)] /\ scan' = last + GapWords + 1
    BY DEF EncodeRun, append_run, restart_fail
<1>6. snapshot'.survivors = Append(runs, r) BY <1>5 DEF SegmentKept
<1>. HIDE DEF start, last, N
<1>7. start * WordBytes \in Nat /\ (last - start + 1) * WordBytes \in Nat BY <1>2, <1>4
<1>8. r = Record(image.bss, start * WordBytes, (last - start + 1) * WordBytes) BY <1>1 DEF Run
<1>9. r \in Records BY <1>7, <1>8 DEF Records
<1>10. r.offset = start * WordBytes /\ DOMAIN r.bytes = 0 .. (last - start + 1) * WordBytes - 1
    BY <1>8 DEF Record
<1>. HIDE DEF r, runs
<1>11. /\ Append(runs, r) \in Seq(Records) /\ \A b : Saves(runs, b) => Saves(Append(runs, r), b)
       /\ \A b : b - r.offset \in DOMAIN r.bytes => Saves(Append(runs, r), b)
    BY <1>1, <1>9, AppendSaves
<1>12. ASSUME NEW w \in N, w < scan', NEW j \in 0 .. WordBytes - 1
       PROVE  Saves(Append(runs, r), w * WordBytes + j)
    <2>1. w \in Nat BY <1>1, WordsOf DEF N
    <2>2. CASE w < scan BY <1>1, <1>11, <2>2
    <2>3. CASE w >= scan
        <3>1. w \in start .. last BY <1>2, <1>4, <1>5, <1>12, <2>1, <2>3
        <3>2. (w * WordBytes + j) - start * WordBytes \in 0 .. (last - start + 1) * WordBytes - 1
            BY <1>4, <3>1, WordInside
        <3>. QED BY <1>10, <1>11, <3>2
    <2>. QED BY <1>1, <2>1, <2>2, <2>3
<1>13. /\ snapshot'.survivors \in Seq(Records)
       /\ \A b : Saves(runs, b) => Saves(snapshot'.survivors, b)
       /\ \A w \in N : w < scan' => \A j \in 0 .. WordBytes - 1 : Saves(snapshot'.survivors, w * WordBytes + j)
    BY <1>6, <1>11, <1>12
<1>. QED BY <1>13 DEF runs, N

(* With the tail, the capture has saved every byte that is set.             *)
LEMMA TailSaved ==
    ASSUME BssKept, SegmentKept, pc = "capture_survivors", EncodeTail, pc' = "capture_magic"
    PROVE  /\ snapshot'.survivors \in Seq(Records)
           /\ \A b : Saves(snapshot.survivors, b) => Saves(snapshot'.survivors, b)
           /\ \A b \in DOMAIN image.bss : image.bss[b] # 0 => Saves(snapshot'.survivors, b)
<1>. DEFINE r == TailRun(image.bss)
            runs == snapshot.survivors
            n == Length(image.bss)
            t == Tail0(image.bss)
<1>1. /\ image \in Images /\ bss = image.bss /\ scan \in Nat /\ runs \in Seq(Records)
      /\ \A w \in NonZero(image.bss) : w < scan =>
            \A j \in 0 .. WordBytes - 1 : Saves(runs, w * WordBytes + j)
    BY DEF BssKept
<1>2. WordBytes \in Nat /\ WordBytes > 0 BY CodecAssumption
<1>3. n \in Nat /\ DOMAIN image.bss = 0 .. n - 1 BY <1>1, ImageFacts
<1>4. t \in Nat /\ t <= n
    <2>. HIDE DEF n
    <2>1. (n \div WordBytes) \in Nat /\ (n \div WordBytes) * WordBytes <= n
          /\ (n \div WordBytes) * WordBytes \in Nat BY <1>2, <1>3
    <2>. QED BY <2>1 DEF n, Tail0
<1>5. \/ snapshot' = snapshot /\ IsZero(r.bytes)
      \/ snapshot' = [snapshot EXCEPT !.survivors = Append(@, r)]
    BY <1>1 DEF EncodeTail, append_run, restart_fail
<1>6. /\ r.offset = t /\ r.bytes = [b \in 0 .. n - t - 1 |-> image.bss[t + b]]
    BY DEF TailRun, Record
<1>7. r \in Records
    <2>1. n - t \in Nat BY <1>3, <1>4
    <2>2. r = Record(image.bss, t, n - t) BY DEF TailRun
    <2>. HIDE DEF r, n, t
    <2>. QED BY <1>4, <2>1, <2>2 DEF Records
<1>8. ASSUME NEW b \in DOMAIN image.bss, image.bss[b] # 0, b < t
      PROVE  Saves(runs, b)
    <2>1. PICK w \in NonZero(image.bss), j \in 0 .. WordBytes - 1 : b = w * WordBytes + j
        BY <1>1, <1>8, SetByte
    <2>2. w < scan BY <1>1 DEF EncodeTail
    <2>. QED BY <1>1, <2>1, <2>2
<1>9. ASSUME NEW b \in DOMAIN image.bss, b >= t
      PROVE  b - t \in 0 .. n - t - 1 /\ b = t + (b - t)
    <2>. HIDE DEF n, t
    <2>. QED BY <1>3, <1>4, <1>9
<1>. HIDE DEF t, n, r
<1>10. CASE snapshot' = snapshot /\ IsZero(r.bytes)
    <2>1. ASSUME NEW b \in DOMAIN image.bss, image.bss[b] # 0 PROVE b < t
        <3>1. ASSUME b >= t PROVE FALSE
            <4>1. r.bytes[b - t] = image.bss[b] /\ b - t \in DOMAIN r.bytes BY <1>6, <1>9, <3>1
            <4>. QED BY <1>10, <2>1, <4>1 DEF IsZero
        <3>. QED BY <1>3, <1>4, <3>1
    <2>. QED BY <1>1, <1>8, <1>10, <2>1
<1>11. CASE snapshot' = [snapshot EXCEPT !.survivors = Append(@, r)]
    <2>1. snapshot'.survivors = Append(runs, r) BY <1>11 DEF SegmentKept
    <2>. HIDE DEF runs
    <2>2. /\ Append(runs, r) \in Seq(Records) /\ \A b : Saves(runs, b) => Saves(Append(runs, r), b)
          /\ \A b : b - r.offset \in DOMAIN r.bytes => Saves(Append(runs, r), b)
        BY <1>1, <1>7, AppendSaves
    <2>3. ASSUME NEW b \in DOMAIN image.bss, image.bss[b] # 0 PROVE Saves(Append(runs, r), b)
        <3>1. CASE b < t BY <1>8, <2>2, <2>3, <3>1
        <3>2. CASE b >= t BY <1>6, <1>9, <2>2, <3>2
        <3>. QED BY <1>3, <1>4, <3>1, <3>2
    <2>. QED BY <2>1, <2>2, <2>3 DEF runs
<1>. QED BY <1>5, <1>10, <1>11

(* A replayed record puts its own bytes back and no others.                 *)
LEMMA ReplayPutsBack ==
    ASSUME BssKept, ReplaySurvivor
    PROVE  /\ bss' \in [DOMAIN image.bss -> Nat] /\ replay' \in Seq(Records)
           /\ \A b \in DOMAIN image.bss : bss'[b] = image.bss[b] \/ Saves(replay', b)
<1>. DEFINE r == Head(replay)
<1>1. /\ image \in Images /\ bss \in [DOMAIN image.bss -> Nat] /\ replay \in Seq(Records) /\ replay # <<>>
      /\ \A b \in DOMAIN image.bss : bss[b] = image.bss[b] \/ Saves(replay, b)
    BY DEF BssKept, ReplaySurvivor
<1>2. bss' = Replayed(bss, r) /\ replay' = Tail(replay) BY DEF ReplaySurvivor
<1>3. r \in Records /\ replay' \in Seq(Records) /\ r = replay[1] BY <1>1, <1>2
<1>4. PICK o \in Nat, n \in Nat : r = Record(image.bss, o, n) BY <1>3 DEF Records
<1>5. r.offset = o /\ r.bytes = [b \in 0 .. n - 1 |-> image.bss[o + b]] BY <1>4 DEF Record
<1>. HIDE DEF r
<1>6. DOMAIN image.bss \subseteq Nat /\ image.bss \in [DOMAIN image.bss -> Nat]
    <2>1. Length(image.bss) \in Nat /\ image.bss \in [0 .. Length(image.bss) - 1 -> Nat]
        BY <1>1, ImageFacts
    <2>2. DOMAIN image.bss = 0 .. Length(image.bss) - 1 BY <2>1
    <2>. QED BY <2>1, <2>2
<1>7. ASSUME NEW b \in DOMAIN image.bss
      PROVE  bss'[b] = IF b - o \in DOMAIN r.bytes THEN image.bss[b] ELSE bss[b]
    <2>1. bss'[b] = IF b - o \in DOMAIN r.bytes THEN r.bytes[b - o] ELSE bss[b]
        BY <1>1, <1>2, <1>5 DEF Replayed
    <2>2. b - o \in DOMAIN r.bytes => r.bytes[b - o] = image.bss[b]
        <3>1. o + (b - o) = b BY <1>6
        <3>. QED BY <1>5, <3>1
    <2>. QED BY <2>1, <2>2
<1>8. bss' \in [DOMAIN image.bss -> Nat]
    <2>1. DOMAIN bss' = DOMAIN image.bss /\ bss' = [b \in DOMAIN bss' |-> bss'[b]]
        BY <1>1, <1>2 DEF Replayed
    <2>2. \A b \in DOMAIN image.bss : bss'[b] \in Nat BY <1>1, <1>6, <1>7
    <2>. QED BY <2>1, <2>2
<1>9. ASSUME NEW b \in DOMAIN image.bss, bss'[b] # image.bss[b] PROVE Saves(replay', b)
    <2>1. b - r.offset \notin DOMAIN r.bytes /\ bss[b] # image.bss[b] BY <1>5, <1>7, <1>9
    <2>2. PICK k \in DOMAIN replay : b - replay[k].offset \in DOMAIN replay[k].bytes
        BY <1>1, <2>1 DEF Saves
    <2>3. k # 1 BY <1>3, <2>1, <2>2
    <2>4. k - 1 \in DOMAIN Tail(replay) /\ Tail(replay)[k - 1] = replay[k] BY <1>1, <2>2, <2>3
    <2>. QED BY <1>2, <2>2, <2>4 DEF Saves
<1>. QED BY <1>3, <1>8, <1>9

LEMMA BssInit == Init => BssKept
<1>. SUFFICES ASSUME Init PROVE BssKept OBVIOUS
<1>1. image \in Images /\ bss = image.bss /\ pc = "_start" /\ scan = 0 /\ replay = <<>> BY DEF Init, BeamInit
<1>2. snapshot.survivors = <<>> /\ snapshot.magic = FALSE BY DEF Init, BeamInit, NoSnapshot
<1>3. bss \in [DOMAIN image.bss -> Nat]
    <2>1. bss \in [0 .. Length(image.bss) - 1 -> Nat] BY <1>1, ImageFacts
    <2>2. DOMAIN image.bss = 0 .. Length(image.bss) - 1 BY <1>1, <2>1
    <2>. QED BY <2>1, <2>2
<1>4. <<>> \in Seq(Records) /\ 0 \in Nat OBVIOUS
<1>. QED BY <1>1, <1>2, <1>3, <1>4 DEF BssKept

LEMMA BssStep == SegmentKept /\ BssKept /\ [Next]_vars => BssKept'
<1>. SUFFICES ASSUME SegmentKept, BssKept, [Next]_vars PROVE BssKept' OBVIOUS
<1>1. CASE UNCHANGED beamVars
    BY <1>1 DEF beamVars, BssKept, Records
<1>2. CASE beam_boot_capture
    <2>1. UNCHANGED <<image, bss, replay>> /\ scan' = 0 /\ pc = "_start"
        BY <1>2 DEF beam_boot_capture
    <2>2. CASE UNCHANGED snapshot /\ pc' \in {"main", "trap"}
        BY <2>1, <2>2 DEF BssKept, Records
    <2>3. CASE /\ snapshot' = [snapshot EXCEPT !.data = data, !.saved_sp = sp, !.survivors = <<>>]
               /\ pc' = "capture_survivors" /\ ~snapshot.magic
        <3>1. snapshot'.survivors = <<>> /\ ~snapshot'.magic BY <2>3 DEF SegmentKept
        <3>2. \A w \in NonZero(image.bss) : ~(w < scan')
            <4>1. image \in Images BY DEF BssKept
            <4>2. \A w \in NonZero(image.bss) : w \in Nat BY <4>1, WordsOf
            <4>. QED BY <2>1, <4>2
        <3>3. <<>> \in Seq(Records') OBVIOUS
        <3>. QED BY <2>1, <2>3, <3>1, <3>2, <3>3 DEF BssKept, Records
    <2>. QED BY <1>2, <2>2, <2>3 DEF beam_boot_capture, restart_fail
<1>3. CASE capture_survivors
    <2>1. UNCHANGED <<image, bss, replay>> /\ pc = "capture_survivors" /\ (EncodeRun \/ EncodeTail)
        BY <1>3 DEF capture_survivors
    <2>2. bss = image.bss /\ scan \in Nat BY <2>1 DEF BssKept
    <2>3. snapshot'.magic = snapshot.magic
        BY <2>1 DEF EncodeRun, EncodeTail, append_run, restart_fail, SegmentKept
    <2>4. scan' \in Nat
        <3>1. CASE EncodeTail BY <2>2, <3>1 DEF EncodeTail
        <3>2. CASE EncodeRun
            <4>. DEFINE last == RunLast(bss, RunStart(bss, scan))
            <4>1. last \in Nat BY <2>2, <3>2, RunFacts DEF EncodeRun, BssKept
            <4>2. GapWords \in Nat BY CodecAssumption
            <4>3. scan' = last + GapWords + 1 BY <3>2 DEF EncodeRun
            <4>. HIDE DEF last
            <4>. QED BY <4>1, <4>2, <4>3
        <3>. QED BY <2>1, <3>1, <3>2
    <2>5. CASE pc' = "trap"
        <3>1. snapshot' = snapshot BY <2>1, <2>5 DEF EncodeRun, EncodeTail, append_run
        <3>. QED BY <2>1, <2>4, <2>5, <3>1 DEF BssKept, Records
    <2>6. CASE EncodeRun /\ pc' = "capture_survivors"
        <3>1. /\ snapshot'.survivors \in Seq(Records)
              /\ \A b : Saves(snapshot.survivors, b) => Saves(snapshot'.survivors, b)
              /\ \A w \in NonZero(image.bss) : w < scan' =>
                   \A j \in 0 .. WordBytes - 1 : Saves(snapshot'.survivors, w * WordBytes + j)
            BY <2>1, <2>6, RunSaved
        <3>. QED BY <2>1, <2>2, <2>3, <2>4, <2>6, <3>1 DEF BssKept, Records
    <2>7. CASE EncodeTail /\ pc' = "capture_magic"
        <3>1. /\ snapshot'.survivors \in Seq(Records)
              /\ \A b \in DOMAIN image.bss : image.bss[b] # 0 => Saves(snapshot'.survivors, b)
            BY <2>1, <2>7, TailSaved
        <3>. QED BY <2>1, <2>2, <2>4, <2>7, <3>1 DEF BssKept, Records
    <2>8. pc' = "trap" \/ (EncodeRun /\ pc' = "capture_survivors") \/ (EncodeTail /\ pc' = "capture_magic")
        BY <2>1 DEF EncodeRun, EncodeTail, append_run, restart_fail
    <2>. QED BY <2>5, <2>6, <2>7, <2>8
<1>4. CASE CaptureMagic
    <2>1. UNCHANGED <<image, bss, replay>> /\ scan' = 0 /\ pc = "capture_magic" /\ pc' = "main"
        BY <1>4 DEF CaptureMagic
    <2>2. snapshot'.survivors = snapshot.survivors BY <1>4 DEF CaptureMagic, SegmentKept
    <2>. QED BY <2>1, <2>2 DEF BssKept, Records
<1>5. CASE beam_reset_restore
    <2>1. UNCHANGED <<image, bss, scan, snapshot, replay>> /\ pc' \in {"trap", "zero"}
        BY <1>5 DEF beam_reset_restore, restart_fail
    <2>. QED BY <2>1 DEF BssKept, Records
<1>6. CASE Zeroed
    <2>1. /\ UNCHANGED <<image, scan, snapshot>> /\ pc = "zero" /\ pc' = "replay"
          /\ replay' = snapshot.survivors /\ bss' = [b \in DOMAIN bss |-> 0]
        BY <1>6 DEF Zeroed, ZeroBss
    <2>2. snapshot.magic BY <2>1 DEF SegmentKept
    <2>3. DOMAIN bss = DOMAIN image.bss BY DEF BssKept
    <2>4. bss' \in [DOMAIN image.bss -> Nat] /\ \A b \in DOMAIN image.bss : bss'[b] = 0
        BY <2>1, <2>3
    <2>5. \A b \in DOMAIN image.bss : bss'[b] = image.bss[b] \/ Saves(replay', b)
        BY <2>1, <2>2, <2>4 DEF BssKept
    <2>. QED BY <2>1, <2>4, <2>5 DEF BssKept, Records
<1>7. CASE ReplaySurvivor
    <2>1. UNCHANGED <<image, scan, snapshot>> /\ pc = "replay" /\ pc' = "replay"
        BY <1>7 DEF ReplaySurvivor
    <2>2. /\ bss' \in [DOMAIN image.bss -> Nat] /\ replay' \in Seq(Records)
          /\ \A b \in DOMAIN image.bss : bss'[b] = image.bss[b] \/ Saves(replay', b)
        BY <1>7, ReplayPutsBack
    <2>. QED BY <2>1, <2>2 DEF BssKept, Records
<1>8. CASE RestoreDone
    <2>1. UNCHANGED <<image, bss, scan, replay>> /\ pc = "replay" /\ pc' = "main" /\ replay = <<>>
        BY <1>8 DEF RestoreDone
    <2>2. snapshot'.survivors = snapshot.survivors /\ snapshot'.magic = snapshot.magic
        BY <1>8 DEF RestoreDone, SegmentKept
    <2>3. bss = image.bss
        <3>1. \A b \in DOMAIN image.bss : bss[b] = image.bss[b] BY <2>1 DEF BssKept, Saves
        <3>2. bss \in [DOMAIN image.bss -> Nat] /\ image \in Images BY DEF BssKept
        <3>3. image.bss \in [0 .. Length(image.bss) - 1 -> Nat] BY <3>2, ImageFacts
        <3>. QED BY <3>1, <3>2, <3>3
    <2>. QED BY <2>1, <2>2, <2>3 DEF BssKept, Records
<1>9. CASE MainRuns
    <2>1. /\ UNCHANGED <<image, scan, snapshot, replay>> /\ pc' = "running"
          /\ bss' = [b \in DOMAIN bss |-> IF b < WordBytes THEN bss[b] ELSE 1]
        BY <1>9 DEF MainRuns
    <2>2. bss' \in [DOMAIN image.bss -> Nat] BY <2>1 DEF BssKept
    <2>. QED BY <2>1, <2>2 DEF BssKept, Records
<1>10. CASE beam_request_restart \/ RootGivesUp \/ RootRestarts
    <2>1. /\ UNCHANGED <<image, bss, snapshot>> /\ pc' \in {"trap", "gone", "_reset"}
          /\ scan' \in {scan, 0} /\ replay' \in {replay, <<>>}
        BY <1>10 DEF beam_request_restart, RootGivesUp, RootRestarts
    <2>2. scan' \in Nat /\ replay' \in Seq(Records)
        <3>1. scan \in Nat /\ replay \in Seq(Records) /\ <<>> \in Seq(Records) BY DEF BssKept
        <3>. HIDE DEF Records
        <3>2. scan' \in Nat BY <2>1, <3>1
        <3>3. CASE replay' = replay BY <3>1, <3>2, <3>3
        <3>4. CASE replay' = <<>> BY <3>1, <3>2, <3>4
        <3>. QED BY <2>1, <3>3, <3>4
    <2>. QED BY <2>1, <2>2 DEF BssKept, Records
<1>11. CASE CtlStep \/ Reads \/ root_status_publish \/ UNCHANGED vars
    <2>1. UNCHANGED beamVars
        BY <1>11 DEF CtlStep, runtime_ctl_reply, ctl_open, ctl_write, ctl_read, ctl_close, Reads,
           stat_read, root_status_copy_begin, CopyHeader, CopyRows, root_status_copy_finish,
           ReadGivesUp, root_status_publish, SameBeam, vars, beamVars
    <2>. QED BY <1>1, <2>1
<1>. QED BY <1>2, <1>3, <1>4, <1>5, <1>6, <1>7, <1>8, <1>9, <1>10, <1>11, NextSplit
     DEF BeamStep, Lives, BootSteps, BeamRestarted

(* Whenever main begins, cold or after resets that stopped the BEAM inside  *)
(* its capture or a restore, .bss, the data segment and the stack are the   *)
(* ones the loader left, for every image, word size and gap: the magic      *)
(* vouches for the copy and the records because it is written last          *)
(* (restart.c:296-319).                                                     *)
THEOREM StartsPristine == Spec => []MainStartsPristine
<1>1. SegmentKept /\ BssKept => MainStartsPristine
    BY DEF SegmentKept, BssKept, MainStartsPristine
<1>. QED BY <1>1, SegmentInit, SegmentStep, BssInit, BssStep, PTL DEF Spec
=============================================================================
