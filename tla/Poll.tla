--------------------------------- MODULE Poll ---------------------------------
(***************************************************************************)
(* The poll calls, the epoll tables and the wake pipes of the BEAM runtime  *)
(* over its idle wait: src/pd/beam/compat/poll and compat/fd. A poll call   *)
(* looks, parks for one pulse and looks again; a pipe keeps only how many   *)
(* bytes are unread.                                                        *)
(*                                                                         *)
(* A socket is what the poll calls see of it, its readiness; the console,   *)
(* which also has only that, is one that is never closed. A call that fails    *)
(* changes nothing; a timeout arms the timer, whose notification is one     *)
(* more pulse.                                                              *)
(***************************************************************************)
EXTENDS IdleWait, FiniteSets, FiniteSetsExt

CONSTANTS
    Programs,           \* which calls each cothread of the program makes
    Fd,                 \* descriptor numbers
    PipeSlot,           \* indices of pipes[]
    EpollSlot,          \* indices of epolls[]
    TableMax,           \* epoll_max_fds
    MaxReports,         \* the caller's maxevents
    PipeCapacity,       \* runtime_pipe_capacity
    WatchedKinds,       \* kinds of descriptor the program registers
    SockHandle,         \* indices of the socket layer
    SockRevents,        \* the condition sets socket_revents may return
    NoHandle, NoFd

CallName == {"pipe2", "socket", "epoll_create1", "close", "epoll_ctl", "write",
             "read", "epoll_pwait", "ppoll", "pselect6"}

ASSUME PollAssumption ==
    /\ Programs \subseteq [Thread -> SUBSET CallName]
    /\ Fd \subseteq Nat /\ PipeSlot \subseteq Nat
    /\ IsFiniteSet(Fd) /\ IsFiniteSet(PipeSlot)
    /\ NoFd \notin Fd /\ NoHandle \notin SockHandle
    /\ {TableMax, MaxReports, PipeCapacity} \subseteq Nat \ {0}
    /\ SockRevents \subseteq SUBSET {"in", "out", "err", "hup"}

VARIABLES
    program,    \* the calls each cothread makes, fixed from the start
    fds,        \* libc descriptor table: kind of entry, its flags and handle
    pipes,      \* pipes[]
    epolls,     \* epolls[]
    revents,    \* readiness of each socket
    call,       \* the blocking call each cothread is in
    late,       \* history: what was registered since each poller parked
    left        \* history: registrations of each table whose descriptor was
                \* closed and which were not made again since

pollVars == <<sem, at, moved, program, fds, pipes, epolls, revents, call, late, left>>

Closed == [kind |-> "free", nonblock |-> FALSE, handle |-> NoHandle]
FreePipe == [state |-> "free", read_open |-> FALSE, write_open |-> FALSE,
             read_fd |-> NoFd, write_fd |-> NoFd, pending |-> 0]
FreeEpoll == [epfd |-> NoFd, table |-> {}]
NoCall == [name |-> "none", fd |-> NoFd]

PollInit ==
    /\ IdleInit
    /\ program \in Programs
    /\ fds = [f \in Fd |-> Closed]
    /\ pipes = [i \in PipeSlot |-> FreePipe]
    /\ epolls = [i \in EpollSlot |-> FreeEpoll]
    /\ revents = [h \in SockHandle |-> {}]
    /\ call = [t \in Thread |-> NoCall]
    /\ late = [t \in Thread |-> {}]
    /\ left = [i \in EpollSlot |-> {}]

(***************************************************************************)
(* Descriptors. posix_fd_allocate hands out the lowest free number.         *)
(***************************************************************************)
FreeFds == {f \in Fd : fds[f].kind = "free"}

runtime_fd_alloc_ops(kind, nonblock, handle) ==
    [fds EXCEPT ![Min(FreeFds)] = [kind |-> kind, nonblock |-> nonblock, handle |-> handle]]

(***************************************************************************)
(* Wake pipes.                                                              *)
(***************************************************************************)
slot_of_read(f) == {i \in PipeSlot : pipes[i].state # "free" /\ pipes[i].read_open
                                      /\ pipes[i].read_fd = f}
slot_of_write(f) == {i \in PipeSlot : pipes[i].state # "free" /\ pipes[i].write_open
                                       /\ pipes[i].write_fd = f}

runtime_pipe_ready(f) ==
    \E i \in slot_of_read(f) : pipes[i].state = "readable" \/ ~pipes[i].write_open

runtime_pipe_open(read_fd, write_fd) ==
    [state |-> "empty", read_open |-> TRUE, write_open |-> TRUE,
     read_fd |-> read_fd, write_fd |-> write_fd, pending |-> 0]

(* Mutant: no free pipe slot, and the two descriptors are kept.             *)
pipe2_NoRollback(nonblock) ==
    LET first == Min(FreeFds)  second == Min(FreeFds \ {first})
        free == {i \in PipeSlot : pipes[i].state = "free"}
    IN  /\ Cardinality(FreeFds) >= 2
        /\ fds' = [fds EXCEPT ![first] = [Closed EXCEPT !.kind = "pipe_r", !.nonblock = nonblock],
                              ![second] = [Closed EXCEPT !.kind = "pipe_w", !.nonblock = nonblock]]
        /\ IF free = {} THEN UNCHANGED pipes
           ELSE pipes' = [pipes EXCEPT ![Min(free)] = runtime_pipe_open(first, second)]

(* pipe2: both descriptors and a pipe slot, or nothing: the first goes back *)
(* when there is no second, and both when there is no slot.                 *)
runtime_sys_pipe2(nonblock) ==
    LET first == Min(FreeFds)  second == Min(FreeFds \ {first})
        free == {i \in PipeSlot : pipes[i].state = "free"}
    IN  IF Cardinality(FreeFds) < 2 \/ free = {} THEN UNCHANGED <<fds, pipes>>
        ELSE /\ fds' = [fds EXCEPT
                   ![first] = [Closed EXCEPT !.kind = "pipe_r", !.nonblock = nonblock],
                   ![second] = [Closed EXCEPT !.kind = "pipe_w", !.nonblock = nonblock]]
             /\ pipes' = [pipes EXCEPT ![Min(free)] = runtime_pipe_open(first, second)]

(* runtime_pipe_write: as many of the bytes as fit.                         *)
runtime_pipe_write(f, bytes) ==
    pipes' = [i \in PipeSlot |->
        IF i \in slot_of_write(f) /\ pipes[i].read_open
        THEN LET pending == Min({pipes[i].pending + bytes, PipeCapacity})
             IN  [pipes[i] EXCEPT !.pending = pending,
                                  !.state = IF pending # 0 THEN "readable" ELSE @]
        ELSE pipes[i]]

(* Mutant: any read leaves the pipe empty, unread bytes or not.             *)
read_AlwaysEmpties(f, bytes) ==
    pipes' = [i \in PipeSlot |->
        IF i \in slot_of_read(f) /\ pipes[i].state # "empty"
        THEN LET pending == pipes[i].pending - Min({bytes, pipes[i].pending})
             IN  [pipes[i] EXCEPT !.pending = pending, !.state = "empty"]
        ELSE pipes[i]]

runtime_pipe_read(f, bytes) ==
    pipes' = [i \in PipeSlot |->
        IF i \in slot_of_read(f) /\ pipes[i].state # "empty"
        THEN LET pending == pipes[i].pending - Min({bytes, pipes[i].pending})
             IN  [pipes[i] EXCEPT !.pending = pending,
                                  !.state = IF pending = 0 THEN "empty" ELSE @]
        ELSE pipes[i]]

(* The read end would block: open, nothing unread, writer still there.      *)
PipeWouldBlock(f) ==
    \E i \in slot_of_read(f) : pipes[i].state = "empty" /\ pipes[i].write_open

(* runtime_pipe_close frees the slot with its last end.                     *)
runtime_pipe_close(f) ==
    pipes' = [i \in PipeSlot |->
        LET shut == IF i \in slot_of_read(f) THEN [pipes[i] EXCEPT !.read_open = FALSE]
                    ELSE IF slot_of_read(f) = {} /\ i \in slot_of_write(f)
                    THEN [pipes[i] EXCEPT !.write_open = FALSE] ELSE pipes[i]
        IN  IF shut.read_open \/ shut.write_open THEN shut ELSE FreePipe]

(***************************************************************************)
(* Readiness, as the three poll calls look at it. rv is revents[] after the *)
(* call pumped the network.                                                 *)
(***************************************************************************)
fd_is_socket(f) == fds[f].kind = "sock"

(* An epoll entry remembers what its descriptor was when it was registered. *)
epoll_readiness(rv, e) ==
    IF e.is_sock THEN rv[e.handle]
    ELSE IF runtime_pipe_ready(e.fd) THEN {"in"} ELSE {}

EntryReady(rv, e) ==
    e.armed /\ epoll_readiness(rv, e) \cap (e.events \cup {"err", "hup"}) # {}

(* runtime_epoll_table_scan: the entries it may report, the table it leaves.*)
ScanReports(rv, table) ==
    LET ready == {e \in table : EntryReady(rv, e)}
    IN  kSubset(Min({MaxReports, Cardinality(ready)}), ready)

Disarmed(table, reported) ==
    {IF e \in reported /\ e.oneshot THEN [e EXCEPT !.armed = FALSE] ELSE e : e \in table}

(* poll and select ask about the descriptor as it is now; poll reports a    *)
(* failed socket whatever was asked, select reports it as readable.         *)
poll_scan(rv, f) ==
    LET seen == IF fd_is_socket(f) THEN rv[fds[f].handle]
                ELSE IF runtime_pipe_ready(f) THEN {"in"} ELSE {}
    IN  seen \cap {"in", "err", "hup"} # {}

runtime_select_from_revents(conditions) ==
    "in" \in conditions \/ conditions \cap {"err", "hup"} # {}

select_scan(rv, f) ==
    \/ fd_is_socket(f) /\ runtime_select_from_revents(rv[fds[f].handle])
    \/ ~fd_is_socket(f) /\ runtime_pipe_ready(f)

(* beam_net_pump delivers what the network has queued; it wakes nobody.     *)
beam_net_pump ==
    {revents} \cup {[revents EXCEPT ![h] = c] : h \in SockHandle, c \in SockRevents}

(***************************************************************************)
(* The calls of a running cothread.                                         *)
(***************************************************************************)
Calls(t, name) == at[t] = "running" /\ call[t] = NoCall /\ name \in program[t]

OpenPipe(t) ==
    /\ Calls(t, "pipe2")
    /\ \E nonblock \in BOOLEAN : runtime_sys_pipe2(nonblock)
    /\ UNCHANGED <<sem, at, moved, epolls, revents, call, late, left>>

(* socket(): the socket layer and its handle are outside this module.       *)
OpenSocket(t) ==
    /\ Calls(t, "socket") /\ FreeFds # {}
    /\ \E h \in SockHandle :
          /\ \A f \in Fd : fds[f].handle # h
          /\ fds' = runtime_fd_alloc_ops("sock", FALSE, h)
          /\ revents' = [revents EXCEPT ![h] = {}]
    /\ UNCHANGED <<sem, at, moved, pipes, epolls, call, late, left>>

runtime_sys_epoll_create1(t) ==
    /\ Calls(t, "epoll_create1") /\ FreeFds # {}
    /\ \E i \in EpollSlot :
          /\ epolls[i].epfd = NoFd
          /\ fds' = runtime_fd_alloc_ops("epoll", FALSE, NoHandle)
          /\ epolls' = [epolls EXCEPT ![i] = [FreeEpoll EXCEPT !.epfd = Min(FreeFds)]]
    /\ UNCHANGED <<sem, at, moved, pipes, revents, call, late, left>>

epoll_close(f) == [i \in EpollSlot |-> IF epolls[i].epfd = f THEN FreeEpoll ELSE epolls[i]]

(* close() through the entry's own close operation. Nobody is woken, and    *)
(* epoll entries of a closed descriptor stay.                               *)
Close(t, f) ==
    /\ Calls(t, "close") /\ fds[f].kind # "free"
    /\ fds' = [fds EXCEPT ![f] = Closed]
    /\ runtime_pipe_close(f)
    /\ epolls' = epoll_close(f)
    /\ left' = [i \in EpollSlot |->
                   IF epolls[i].epfd = f THEN {}
                   ELSE left[i] \cup {e.fd : e \in {d \in epolls[i].table : d.fd = f}}]
    /\ UNCHANGED <<sem, at, moved, revents, call, late>>

runtime_epoll_table_remove(table, f) == {e \in table : e.fd # f}

(* Mutant: an entry found under the number is re-armed for what it was.     *)
table_set_KeepsKind(table, f, events, oneshot) ==
    IF \E e \in table : e.fd = f
    THEN {IF e.fd = f THEN [e EXCEPT !.events = events, !.oneshot = oneshot, !.armed = TRUE]
          ELSE e : e \in table}
    ELSE table \cup {[fd |-> f, events |-> events, oneshot |-> oneshot, armed |-> TRUE,
                      is_sock |-> fd_is_socket(f), handle |-> fds[f].handle]}

(* runtime_epoll_table_set: one entry per descriptor, armed.                *)
runtime_epoll_table_set(table, f, events, oneshot) ==
    runtime_epoll_table_remove(table, f) \cup
    {[fd |-> f, events |-> events, oneshot |-> oneshot, armed |-> TRUE,
      is_sock |-> fd_is_socket(f), handle |-> fds[f].handle]}

(* EPOLL_CTL_ADD, EPOLL_CTL_MOD and EPOLL_CTL_DEL.                          *)
runtime_sys_epoll_ctl(t, i, f) ==
    /\ Calls(t, "epoll_ctl") /\ epolls[i].epfd # NoFd
    /\ \/ /\ fds[f].kind # "free" /\ fds[f].kind \in WatchedKinds
          /\ \E oneshot \in BOOLEAN :
                LET table == runtime_epoll_table_set(epolls[i].table, f, {"in"}, oneshot)
                IN  /\ Cardinality(table) <= TableMax
                    /\ epolls' = [epolls EXCEPT ![i].table = table]
          /\ late' = [u \in Thread |-> IF call[u] = [name |-> "epoll", fd |-> i]
                                       THEN late[u] \cup {f} ELSE late[u]]
       \/ /\ epolls' = [epolls EXCEPT ![i].table = runtime_epoll_table_remove(@, f)]
          /\ UNCHANGED late
    /\ left' = [left EXCEPT ![i] = @ \ {f}]
    /\ UNCHANGED <<sem, at, moved, fds, pipes, revents, call>>

(* Mutant: a write that nobody is told of.                                  *)
pipe_write_NoWake(t, f) ==
    /\ Calls(t, "write") /\ fds[f].kind = "pipe_w"
    /\ \E bytes \in 1 .. PipeCapacity : runtime_pipe_write(f, bytes)
    /\ UNCHANGED <<sem, at, moved, fds, epolls, revents, call, late, left>>

(* write() on a pipe counts the bytes and wakes, accepted or not.           *)
pipe_write(t, f) ==
    /\ Calls(t, "write") /\ fds[f].kind = "pipe_w"
    /\ \E bytes \in 1 .. PipeCapacity : runtime_pipe_write(f, bytes)
    /\ thread_io_wake
    /\ UNCHANGED <<fds, epolls, revents, call, late, left>>

(* read() on a pipe: a blocking read end parks while nothing is unread, and *)
(* looks again by number after each pulse.                                  *)
pipe_read(t, f) ==
    /\ at[t] = "running"
    /\ \/ Calls(t, "read") /\ fds[f].kind = "pipe_r"
       \/ call[t] = [name |-> "read", fd |-> f]
    /\ IF PipeWouldBlock(f) /\ ~fds[f].nonblock
       THEN /\ thread_io_wait(t)
            /\ call' = [call EXCEPT ![t] = [name |-> "read", fd |-> f]]
            /\ UNCHANGED pipes
       ELSE /\ \E bytes \in 1 .. PipeCapacity : runtime_pipe_read(f, bytes)
            /\ call' = [call EXCEPT ![t] = NoCall]
            /\ UNCHANGED waitVars
    /\ UNCHANGED <<fds, epolls, revents, late, left>>

(* epoll_pwait: pump and scan; with nothing to report and a timeout other   *)
(* than zero, park for one pulse.                                           *)
runtime_sys_epoll_pwait(t, i) ==
    /\ Calls(t, "epoll_pwait") /\ epolls[i].epfd # NoFd
    /\ \E rv \in beam_net_pump : \E reported \in ScanReports(rv, epolls[i].table) :
          /\ revents' = rv
          /\ epolls' = [epolls EXCEPT ![i].table = Disarmed(@, reported)]
          /\ IF reported = {}
             THEN /\ thread_io_wait(t)
                  /\ call' = [call EXCEPT ![t] = [name |-> "epoll", fd |-> i]]
                  /\ late' = [late EXCEPT ![t] = {}]
             ELSE UNCHANGED <<sem, at, moved, call, late>>
    /\ UNCHANGED <<fds, pipes, left>>

(* The second look of epoll_pwait, at the table it was given: the instance  *)
(* may have been closed, and another opened in its place, since it parked.  *)
EpollRescan(t, i) ==
    /\ at[t] = "running" /\ call[t] = [name |-> "epoll", fd |-> i]
    /\ \E rv \in beam_net_pump : \E reported \in ScanReports(rv, epolls[i].table) :
          /\ revents' = rv
          /\ epolls' = [epolls EXCEPT ![i].table = Disarmed(@, reported)]
    /\ call' = [call EXCEPT ![t] = NoCall]
    /\ late' = [late EXCEPT ![t] = {}]
    /\ UNCHANGED <<sem, at, moved, fds, pipes, left>>

(* ppoll and pselect6 on one descriptor: look, park for one pulse, look.    *)
(* ready holds the readiness with which the scan would report it.           *)
PollOnce(t, f, name, ready) ==
    /\ at[t] = "running"
    /\ \E rv \in beam_net_pump :
          /\ revents' = rv
          /\ \/ /\ Calls(t, name) /\ rv \notin ready
                /\ thread_io_wait(t)
                /\ call' = [call EXCEPT ![t] = [name |-> name, fd |-> f]]
             \/ /\ call[t] = [name |-> name, fd |-> f]
                /\ call' = [call EXCEPT ![t] = NoCall]
                /\ UNCHANGED waitVars
    /\ UNCHANGED <<fds, pipes, epolls, late, left>>

runtime_sys_ppoll(t, f) == PollOnce(t, f, "ppoll", {rv \in beam_net_pump : poll_scan(rv, f)})

runtime_sys_pselect6(t, f) == 
    PollOnce(t, f, "pselect6", {rv \in beam_net_pump : select_scan(rv, f)})

(* A notification of the timer, the network or the console: every waiter    *)
(* looks again.                                                             *)
Notified ==
    /\ revents' \in beam_net_pump
    /\ thread_io_wake
    /\ UNCHANGED <<fds, pipes, epolls, call, late, left>>

ResumeWaiter(t) == Resume(t) /\ UNCHANGED <<fds, pipes, epolls, revents, call, late, left>>

Finish(t) ==
    \/ \E i \in EpollSlot : EpollRescan(t, i)
    \/ \E f \in Fd : /\ call[t].fd = f /\ call[t].name \in {"read", "ppoll", "pselect6"}
                     /\ (pipe_read(t, f) \/ runtime_sys_ppoll(t, f) \/ runtime_sys_pselect6(t, f))

Step(t) ==
    \/ ResumeWaiter(t) \/ OpenPipe(t) \/ OpenSocket(t) \/ runtime_sys_epoll_create1(t)
    \/ \E f \in Fd : \/ Close(t, f) \/ pipe_write(t, f) \/ pipe_read(t, f)
                     \/ runtime_sys_ppoll(t, f) \/ runtime_sys_pselect6(t, f)
    \/ \E i \in EpollSlot : \/ runtime_sys_epoll_pwait(t, i) \/ EpollRescan(t, i)
                            \/ \E f \in Fd : runtime_sys_epoll_ctl(t, i, f)

PollNext == (Notified \/ \E t \in Thread : Step(t)) /\ UNCHANGED program

(* Ready cothreads run and finish their calls; ERTS's poll thread polls     *)
(* again after each return; with the network up the timer is rearmed on     *)
(* every tick, so notifications keep coming.                                *)
Progress(t) ==
    ResumeWaiter(t) \/ Finish(t) \/ \E i \in EpollSlot : runtime_sys_epoll_pwait(t, i)

PollFairness ==
    /\ WF_pollVars(Notified /\ UNCHANGED program)
    /\ \A t \in Thread : WF_pollVars(Progress(t) /\ UNCHANGED program)

PollSpec == PollInit /\ [][PollNext]_pollVars /\ PollFairness

-----------------------------------------------------------------------------
(* Every pipe descriptor is an end of exactly one pipe, every open end of a *)
(* pipe is such a descriptor, whatever was closed, reused or refused a slot *)
(* in between (runtime_wake_pipe.c:93, runtime_sys_fd.c:145).               *)
PipeEndsOwned ==
    \A f \in Fd :
        /\ fds[f].kind = "pipe_r" <=> Cardinality(slot_of_read(f)) = 1
        /\ fds[f].kind = "pipe_w" <=> Cardinality(slot_of_write(f)) = 1
        /\ Cardinality(slot_of_read(f)) + Cardinality(slot_of_write(f)) <= 1

Unread(f) == \E i \in slot_of_read(f) : pipes[i].pending > 0

Asleep(t) == at[t] # "running" /\ ~moved[t]

(* No byte is missed by whoever sleeps for it: not by a cothread blocked in *)
(* read(), and not by the poller, unless the descriptor was registered      *)
(* after it parked, which wakes nobody (runtime_sys_poll.c:242).            *)
SleeperMissesNoByte ==
    \A t \in Thread : Asleep(t) =>
        /\ call[t].name \in {"read", "ppoll", "pselect6"} => ~Unread(call[t].fd)
        /\ call[t].name = "epoll" =>
              \A e \in epolls[call[t].fd].table :
                  e.armed /\ ~e.is_sock /\ Unread(e.fd) => e.fd \in late[t]

(* A table holds one entry per descriptor, and unless the descriptor was    *)
(* closed and not registered again since, the entry describes it as it is   *)
(* now: what ADD or MOD stores for a reused number owes nothing to the      *)
(* entry the close left behind (runtime_sys_poll.c:20-22: "a later ADD or   *)
(* MOD for the reused number overwrites it").                               *)
RegistrationIsCurrent ==
    \A i \in EpollSlot : \A e \in epolls[i].table :
        /\ \A d \in epolls[i].table : d.fd = e.fd => d = e
        /\ e.fd \notin left[i] =>
              /\ fds[e.fd].kind # "free"
              /\ e.is_sock = fd_is_socket(e.fd)
              /\ e.handle = fds[e.fd].handle

(* An unread byte on an armed, one-shot registration is reported to the     *)
(* poller in the end, unless it is read or the registration goes first      *)
(* (runtime_epoll_table.c:51).                                              *)
PipeByteIsReported ==
    \A i \in EpollSlot, f \in Fd :
        LET Due == Unread(f) /\ \E e \in epolls[i].table :
                      e.fd = f /\ e.armed /\ e.oneshot /\ ~e.is_sock
        IN  (Due /\ \E t \in Thread : "epoll_pwait" \in program[t]) ~> ~Due
=============================================================================
