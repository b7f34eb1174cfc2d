----------------------------- MODULE TcpSockets ------------------------------
(***************************************************************************)
(* The socket backend of the BEAM over lwIP: src/pd/beam/io/tcp.c with the  *)
(* lifecycle and the buffer arithmetic of io/network/runtime_tcp_state.h    *)
(* and runtime_tcp_logic.h.                                                 *)
(*                                                                         *)
(* lwIP runs its callbacks from the root cothread and the calls run to      *)
(* their next park, so each is one step. A PCB is what lwIP knows of it:    *)
(* its kind, the slot in its argument and how much of its peer's stream it  *)
(* has handed over. A byte is its position in that stream.                  *)
(***************************************************************************)
EXTENDS Naturals, Sequences, Functions, FiniteSetsExt

CONSTANTS
    MaxSockets,   \* slots of the largest table
    Pcb,          \* lwIP's pool of PCBs
    BufSize,      \* SOCKET_BUF_SIZE
    BacklogCap,   \* MAX_LISTEN_BACKLOG, one entry of which stays empty
    Programs,     \* the calls of an application, the slots of its table
                  \* (MAX_SOCKETS), the bytes a peer sends
    RefMax,       \* descriptors of one socket (bound)
    CloseFails,   \* whether tcp_close may run out of memory for its FIN
    None

Slot == 1 .. MaxSockets
CallName == {"socket", "bind", "listen", "connect", "accept", "dup", "recv", "send", "close"}

ASSUME SocketsAssumption ==
    /\ MaxSockets \in Nat /\ BufSize \in Nat \ {0} /\ BacklogCap \in Nat \ {0}
    /\ Programs \subseteq [calls : SUBSET CallName, slots : 0 .. MaxSockets, stream : Nat]
    /\ RefMax \in Nat \ {0} /\ CloseFails \subseteq BOOLEAN
    /\ None \notin Pcb \cup Slot

VARIABLES
    program,   \* the application at hand
    sockets,   \* the slots
    pcbs,      \* lwIP's PCBs
    parked,    \* the calls asleep on a semaphore of each slot
    woken      \* the calls signalled that have not run yet

vars == <<program, sockets, pcbs, parked, woken>>

FreeSlot == [state |-> "unallocated", tpcb |-> None,
             buf |-> [i \in 0 .. BufSize - 1 |-> 0], head |-> 0, len |-> 0,
             queue |-> <<>>, refs |-> 0, read |-> 0, odd |-> FALSE]
FreePcb == [kind |-> "free", arg |-> None, given |-> 0, full |-> FALSE]

Init ==
    /\ program \in Programs
    /\ sockets = [s \in Slot |-> FreeSlot]
    /\ pcbs = [p \in Pcb |-> FreePcb]
    /\ parked = [s \in Slot |-> {}] /\ woken = [s \in Slot |-> {}]

(***************************************************************************)
(* runtime_tcp_state.h                                                      *)
(***************************************************************************)
tcp_state_transition_allowed(from, to) ==
    \/ to = "error" /\ from \notin {"unallocated", "error"}
    \/ to \in CASE from = "unallocated" -> {"allocated"}
                [] from = "allocated" -> {"bound", "connecting", "connected",
                                          "listening", "unallocated"}
                [] from = "bound" -> {"connecting", "listening", "unallocated"}
                [] from = "connecting" -> {"connected", "unallocated"}
                [] from = "connected" -> {"closed_by_peer", "closing", "unallocated"}
                [] from = "listening" -> {"closing", "unallocated"}
                [] OTHER -> {"unallocated"}

tcp_connect_gate(state) ==
    IF state \in {"allocated", "bound"} THEN "start" ELSE "refused"

tcp_listen_allowed(state) == state \in {"allocated", "bound"}
tcp_bind_allowed(state) == state = "allocated"
tcp_accept_allowed(state) == state = "listening"

tcp_write_gate(state) ==
    IF state \in {"connected", "closed_by_peer"} THEN "send" ELSE "refused"

tcp_recv_gate(state, buffered, nonblock) ==
    CASE state \notin {"connected", "closed_by_peer"} -> "not_connected"
      [] OTHER -> CASE buffered -> "copy"
                    [] state = "closed_by_peer" -> "eof"
                    [] OTHER -> IF nonblock THEN "would_block" ELSE "block"

(* Mutant: a socket whose peer has closed begins a close of its own.        *)
close_action_PeerClosedBegins(state) ==
    CASE state \in {"listening", "connected", "closed_by_peer"} -> "begin"
      [] state = "connecting" -> "abort"
      [] state \in {"allocated", "bound", "error"} -> "release"
      [] OTHER -> "invalid"

(* Peer closed and idle differ only in that an idle slot may have no PCB.   *)
tcp_close_action(state) ==
    CASE state \in {"listening", "connected"} -> "begin"
      [] state = "connecting" -> "abort"
      [] state \in {"closed_by_peer", "allocated", "bound", "error"} -> "release"
      [] OTHER -> "invalid"

(***************************************************************************)
(* runtime_tcp_logic.h: the receive ring.                                   *)
(***************************************************************************)
(* Mutant: the tail forgets where the ring begins.                          *)
rx_tail_FromZero(head, len) == len % BufSize

tcp_rx_tail(head, len) == (head + len) % BufSize

tcp_rx_free_span(head, len) ==
    LET tail == tcp_rx_tail(head, len)
    IN  BufSize - (IF len > tail THEN len ELSE tail)

tcp_rx_read_span(head, len) == IF len < BufSize - head THEN len ELSE BufSize - head
tcp_rx_advance(head, count) == (head + count) % BufSize
tcp_rx_can_accept(len, incoming) == len <= BufSize /\ incoming <= BufSize - len

MinOf(a, b) == IF a < b THEN a ELSE b

(* One pass of the copy loop of socket_recv_callback: as much of what is    *)
(* left as fits in one span. c holds the ring and the stream's next bytes.  *)
CopyInPass(c) ==
    LET tail == tcp_rx_tail(c.head, c.len)
        n == MinOf(c.left, tcp_rx_free_span(c.head, c.len))
    IN  [c EXCEPT !.buf = [i \in DOMAIN @ |-> IF i \in tail .. tail + n - 1
                                              THEN c.next + i - tail ELSE @[i]],
                  !.len = @ + n, !.next = @ + n, !.left = @ - n]

(* One pass of the copy loop of tcp_socket_recv.                            *)
CopyOutPass(c) ==
    LET n == MinOf(c.left, tcp_rx_read_span(c.head, c.len))
    IN  [c EXCEPT !.head = tcp_rx_advance(@, n), !.len = @ - n, !.left = @ - n,
                  !.copied = @ + n]

(***************************************************************************)
(* Slots, PCBs and semaphores.                                              *)
(***************************************************************************)
(* The only writer of a slot's state: an edge the lifecycle does not define *)
(* is reported, then taken.                                                 *)
socket_set_state(S, s, next) ==
    [S EXCEPT ![s].state = next,
              ![s].odd = @ \/ ~tcp_state_transition_allowed(S[s].state, next)]

(* Back to the free pool, everything cleared that a later allocation could  *)
(* observe; the bytes left in the ring cannot be and are forgotten.         *)
socket_release(S, s) ==
    LET released == socket_set_state(S, s, "unallocated")
    IN  [released EXCEPT ![s] = [FreeSlot EXCEPT !.odd = released[s].odd]]

(* The first free slot, None when the table is full.                        *)
socket_allocate(S) ==
    LET free == {s \in 1 .. program.slots : S[s].state = "unallocated"}
    IN  IF free = {} THEN None ELSE Min(free)

(* A PCB the socket layer can neither reach nor be called back by. lwIP may *)
(* keep it for longer, in CLOSE_WAIT or TIME_WAIT; its pool is lwIP's own.  *)
Freed(P, p) == [P EXCEPT ![p] = FreePcb]

(* socket_close_pcb: detached first, so that whatever lwIP still does with  *)
(* the PCB reaches nobody.                                                  *)
socket_close_pcb(P, p) == Freed(P, p)

(* lwIP: a listening PCB, and one with bytes the application has not taken, *)
(* is freed at once; one with a connection reports its end later. Out of    *)
(* memory for the FIN it leaves the PCB as it is, marks it TF_CLOSEPEND and *)
(* tries again from its own timer.                                          *)
tcp_close(P, p, unread, fails) ==
    IF P[p].kind = "listen" \/ unread THEN Freed(P, p)
    ELSE IF fails THEN P ELSE [P EXCEPT ![p].kind = "closing"]

(* socket_wake: signal those calls that are parked.                         *)
socket_wake(s, calls) ==
    /\ parked' = [parked EXCEPT ![s] = @ \ calls]
    /\ woken' = [woken EXCEPT ![s] = @ \cup (parked[s] \cap calls)]

(* A call on s begins, or goes on after its wake; one caller of each kind.  *)
Makes(s, call) == call \in program.calls /\ sockets[s].refs > 0

Runs(s, call) ==
    \/ Makes(s, call) /\ call \notin parked[s] \cup woken[s] /\ UNCHANGED woken
    \/ call \in woken[s] /\ woken' = [woken EXCEPT ![s] = @ \ {call}]

Parks(s, call) == parked' = [parked EXCEPT ![s] = @ \cup {call}]

(***************************************************************************)
(* lwIP's callbacks.                                                        *)
(***************************************************************************)
HasPeer(p) == pcbs[p].kind \in {"connected", "closing"}

(* Mutant: the error callback keeps the pointer lwIP has just freed.        *)
err_func_KeepsPcb(p) ==
    LET s == pcbs[p].arg
    IN  /\ pcbs[p].kind \notin {"free", "listen"}
        /\ pcbs' = Freed(pcbs, p)
        /\ sockets' = socket_set_state(sockets, s, "error")
        /\ socket_wake(s, {"connect", "recv", "send"})

(* Mutant: the error callback wakes only connect.                           *)
err_func_WakesConnect(p) ==
    LET s == pcbs[p].arg
    IN  /\ pcbs[p].kind \notin {"free", "listen"}
        /\ pcbs' = Freed(pcbs, p)
        /\ sockets' = [socket_set_state(sockets, s, "error") EXCEPT ![s].tpcb = None]
        /\ socket_wake(s, {"connect"})

(* lwIP gives a PCB up: freed, then reported. A listening PCB has no error  *)
(* callback.                                                                *)
socket_err_func(p) ==
    LET s == pcbs[p].arg
    IN  /\ pcbs[p].kind \notin {"free", "listen"}
        /\ pcbs' = Freed(pcbs, p)
        /\ sockets' = [socket_set_state(sockets, s, "error") EXCEPT ![s].tpcb = None]
        /\ socket_wake(s, {"connect", "recv", "send"})

(* A segment of n bytes. One that does not fit is refused and comes again;  *)
(* on a socket being closed it is dropped.                                  *)
RecvData(p, n) ==
    LET s == pcbs[p].arg
        slot == sockets[s]
        copied == CopyInPass(CopyInPass([buf |-> slot.buf, head |-> slot.head, len |-> slot.len,
                                         next |-> pcbs[p].given + 1, left |-> n]))
    IN  /\ pcbs[p].kind = "connected" /\ pcbs[p].given + n <= program.stream
        /\ \/ /\ slot.state = "connected" /\ tcp_rx_can_accept(slot.len, n)
              /\ sockets' = [sockets EXCEPT ![s].buf = copied.buf, ![s].len = copied.len]
              /\ socket_wake(s, {"recv"})
           \/ slot.state = "closing" /\ UNCHANGED <<sockets, parked, woken>>
        /\ pcbs' = [pcbs EXCEPT ![p].given = @ + n]

(* The peer's FIN: a half close, or the end of a close begun here: detached *)
(* (tcp.c:374), the PCB is then lwIP's alone, also when its own FIN is      *)
(* still to be sent.                                                        *)
RecvFin(p) ==
    LET s == pcbs[p].arg
    IN  /\ HasPeer(p)
        /\ \/ /\ sockets[s].state = "connected"
              /\ sockets' = socket_set_state(sockets, s, "closed_by_peer")
              /\ socket_wake(s, {"recv"}) /\ UNCHANGED pcbs
           \/ /\ sockets[s].state = "closing"
              /\ pcbs' = Freed(pcbs, p)
              /\ sockets' = socket_release(sockets, s)
              /\ UNCHANGED <<parked, woken>>

socket_sent_callback(p) ==
    /\ pcbs[p].full
    /\ pcbs' = [pcbs EXCEPT ![p].full = FALSE]
    /\ socket_wake(pcbs[p].arg, {"send"})
    /\ UNCHANGED sockets

socket_connected(p) ==
    /\ pcbs[p].kind = "connecting"
    /\ pcbs' = [pcbs EXCEPT ![p].kind = "connected"]
    /\ sockets' = socket_set_state(sockets, pcbs[p].arg, "connected")
    /\ socket_wake(pcbs[p].arg, {"connect"})

Connected(P, p, s) == [P EXCEPT ![p] = [FreePcb EXCEPT !.kind = "connected", !.arg = s]]

(* A connection for the listening PCB l. A refused one is aborted by lwIP.  *)
tcp_socket_accept_cb(l) ==
    LET listener == pcbs[l].arg
        new == socket_allocate(sockets)
        wired(p) == [socket_set_state(socket_set_state(sockets, new, "allocated"),
                                      new, "connected") EXCEPT ![new].tpcb = p]
    IN  /\ pcbs[l].kind = "listen" /\ new # None
        /\ tcp_accept_allowed(sockets[listener].state)
        /\ \E p \in Pcb :
              /\ pcbs[p].kind = "free"
              /\ IF Len(sockets[listener].queue) < BacklogCap - 1
                 THEN /\ sockets' = [wired(p) EXCEPT ![listener].queue = Append(@, new)]
                      /\ pcbs' = Connected(pcbs, p, new)
                 ELSE /\ sockets' = socket_release(wired(p), new)
                      /\ UNCHANGED pcbs
        /\ LET w == IF "accept" \in parked[listener] THEN {"accept"} ELSE {}
           IN  /\ parked' = [parked EXCEPT ![new] = {}, ![listener] = @ \ w]
               /\ woken' = [woken EXCEPT ![listener] = @ \cup w]

(***************************************************************************)
(* The calls.                                                               *)
(***************************************************************************)
(* socket(): a slot, a PCB and the first reference.                         *)
tcp_socket_init ==
    LET s == socket_allocate(sockets)
    IN  /\ s # None /\ "socket" \in program.calls
        /\ \E p \in Pcb :
              /\ pcbs[p].kind = "free"
              /\ pcbs' = [pcbs EXCEPT ![p] = [FreePcb EXCEPT !.kind = "idle", !.arg = s]]
              /\ sockets' = [socket_set_state(sockets, s, "allocated")
                                EXCEPT ![s].tpcb = p, ![s].refs = 1]
        /\ parked' = [parked EXCEPT ![s] = {}]
        /\ UNCHANGED woken

(* lwIP has no PCB to give: the libc closes the slot, and the close, which  *)
(* finds no reference to drop, releases it all the same.                    *)
InitFails ==
    LET s == socket_allocate(sockets)
    IN  /\ s # None /\ "socket" \in program.calls
        /\ sockets' = socket_release(socket_set_state(sockets, s, "allocated"), s)
        /\ UNCHANGED <<pcbs, parked, woken>>

tcp_socket_bind(s) ==
    /\ Makes(s, "bind") /\ tcp_bind_allowed(sockets[s].state)
    /\ sockets' = socket_set_state(sockets, s, "bound")
    /\ UNCHANGED <<pcbs, parked, woken>>

(* lwIP trades the PCB for a listening one that keeps its argument.         *)
tcp_socket_listen(s) ==
    /\ Makes(s, "listen") /\ tcp_listen_allowed(sockets[s].state)
    /\ sockets' = socket_set_state(sockets, s, "listening")
    /\ pcbs' = [pcbs EXCEPT ![sockets[s].tpcb].kind = "listen"]
    /\ UNCHANGED <<parked, woken>>

(* Started and left to a poll, or waited for; the wait reads the state      *)
(* again whenever it is woken.                                              *)
tcp_socket_connect(s, nonblock) ==
    \/ /\ Makes(s, "connect") /\ tcp_connect_gate(sockets[s].state) = "start"
       /\ "connect" \notin parked[s] \cup woken[s]
       /\ sockets' = socket_set_state(sockets, s, "connecting")
       /\ pcbs' = [pcbs EXCEPT ![sockets[s].tpcb].kind = "connecting"]
       /\ IF nonblock THEN UNCHANGED parked ELSE Parks(s, "connect")
       /\ UNCHANGED woken
    \/ /\ "connect" \in woken[s] /\ Runs(s, "connect")
       /\ IF sockets[s].state = "connecting" THEN Parks(s, "connect") ELSE UNCHANGED parked
       /\ UNCHANGED <<sockets, pcbs>>

tcp_socket_accept(s, nonblock) ==
    LET queue == sockets[s].queue
    IN  /\ \/ /\ tcp_accept_allowed(sockets[s].state) /\ Runs(s, "accept")
           \/ "accept" \in woken[s] /\ Runs(s, "accept")
        /\ \/ /\ queue # <<>>
              /\ sockets' = [sockets EXCEPT ![s].queue = Tail(@), ![Head(queue)].refs = 1]
              /\ UNCHANGED parked
           \/ /\ queue = <<>>
              /\ IF "accept" \in woken[s] \/ nonblock THEN UNCHANGED parked
                 ELSE Parks(s, "accept")
              /\ UNCHANGED sockets
        /\ UNCHANGED pcbs

tcp_socket_dup(s) ==
    /\ Makes(s, "dup") /\ sockets[s].refs < RefMax
    /\ sockets' = [sockets EXCEPT ![s].refs = @ + 1]
    /\ UNCHANGED <<pcbs, parked, woken>>

(* Buffered bytes, then the end of the stream, then park.                   *)
tcp_socket_recv(s, n, nonblock) ==
    LET slot == sockets[s]
        gate == tcp_recv_gate(slot.state, slot.len # 0, nonblock)
        out == CopyOutPass(CopyOutPass([head |-> slot.head, len |-> slot.len,
                                        left |-> n, copied |-> 0]))
    IN  /\ Runs(s, "recv")
        /\ \/ /\ gate = "copy"
              /\ sockets' = [sockets EXCEPT ![s].head = out.head, ![s].len = out.len,
                                            ![s].read = @ + out.copied]
              /\ UNCHANGED parked
           \/ gate = "block" /\ Parks(s, "recv") /\ UNCHANGED sockets
           \/ gate \notin {"copy", "block"} /\ UNCHANGED <<sockets, parked>>
        /\ UNCHANGED pcbs

(* The gate is read before the PCB each time; a write may leave the send    *)
(* buffer full.                                                             *)
tcp_socket_write(s, nonblock) ==
    LET p == sockets[s].tpcb
    IN  /\ Runs(s, "send")
        /\ \/ tcp_write_gate(sockets[s].state) # "send" /\ UNCHANGED <<pcbs, parked>>
           \/ /\ tcp_write_gate(sockets[s].state) = "send"
              /\ IF pcbs[p].full
                 THEN IF nonblock THEN UNCHANGED <<pcbs, parked>>
                      ELSE Parks(s, "send") /\ UNCHANGED pcbs
                 ELSE /\ \E full \in BOOLEAN : pcbs' = [pcbs EXCEPT ![p].full = full]
                      /\ UNCHANGED parked
        /\ UNCHANGED sockets

(* Every socket the accept callback queued and no accept() claimed is       *)
(* released with its PCB, and the queue is empty. No socket is queued twice *)
(* (BacklogOwned), so the order of the releases makes no difference.        *)
socket_drain_backlog(st, s) ==
    LET pending == Range(st.S[s].queue)
    IN  [S |-> [q \in Slot |-> IF q \in pending THEN socket_release(st.S, q)[q]
                               ELSE IF q = s THEN [st.S[s] EXCEPT !.queue = <<>>]
                               ELSE st.S[q]],
         P |-> [p \in Pcb |-> IF \E q \in pending : st.S[q].tpcb = p
                              THEN socket_close_pcb(st.P, p)[p] ELSE st.P[p]]]

(* Mutant: a listening socket closes over its backlog.                      *)
close_int_NoDrain(st, s, fails) ==
    LET p == st.S[s].tpcb
    IN  IF tcp_close_action(st.S[s].state) = "begin"
        THEN [S |-> socket_set_state(st.S, s, "closing"),
              P |-> tcp_close(st.P, p, st.S[s].len # 0, fails)]
        ELSE [S |-> socket_release(st.S, s),
              P |-> IF p = None THEN st.P ELSE socket_close_pcb(st.P, p)]

(* The last reference is gone. A close that is begun leaves the slot to     *)
(* lwIP's report; a connecting PCB is aborted without its argument.         *)
tcp_socket_close_int(st, s, fails) ==
    LET p == st.S[s].tpcb
        empty == IF st.S[s].state = "listening" THEN socket_drain_backlog(st, s) ELSE st
    IN  IF tcp_close_action(st.S[s].state) = "begin"
        THEN [S |-> socket_set_state(empty.S, s, "closing"),
              P |-> tcp_close(empty.P, p, st.S[s].len # 0, fails)]
        ELSE [S |-> socket_release(st.S, s),
              P |-> IF p = None THEN st.P ELSE socket_close_pcb(st.P, p)]

tcp_socket_close(s, fails) ==
    /\ Makes(s, "close")
    /\ LET S == [sockets EXCEPT ![s].refs = @ - 1]
           closed == tcp_socket_close_int([S |-> S, P |-> pcbs], s, fails)
       IN  IF S[s].refs = 0 THEN sockets' = closed.S /\ pcbs' = closed.P
           ELSE sockets' = S /\ UNCHANGED pcbs
    /\ UNCHANGED <<parked, woken>>

-----------------------------------------------------------------------------
Callback(p) ==
    \/ socket_err_func(p) \/ RecvFin(p) \/ socket_sent_callback(p)
    \/ socket_connected(p) \/ tcp_socket_accept_cb(p)
    \/ \E n \in 1 .. BufSize : RecvData(p, n)

Call(s) ==
    \/ tcp_socket_bind(s) \/ tcp_socket_listen(s) \/ tcp_socket_dup(s)
    \/ \E nonblock \in BOOLEAN :
          \/ tcp_socket_connect(s, nonblock) \/ tcp_socket_accept(s, nonblock)
          \/ tcp_socket_write(s, nonblock)
          \/ \E n \in 1 .. BufSize : tcp_socket_recv(s, n, nonblock)
    \/ \E fails \in CloseFails : tcp_socket_close(s, fails)

Next ==
    /\ \/ tcp_socket_init \/ InitFails
       \/ (\E p \in Pcb : Callback(p)) \/ (\E s \in Slot : Call(s))
    /\ UNCHANGED program

Spec == Init /\ [][Next]_vars

(* lwIP sees every connection to an end: its peer closes or it times out.   *)
Ends(p) == (RecvFin(p) \/ socket_err_func(p)) /\ UNCHANGED program

FairSpec == Spec /\ \A p \in Pcb : WF_vars(Ends(p))

-----------------------------------------------------------------------------
(* A callback always finds its own slot: a live PCB's argument is a slot    *)
(* that holds that PCB, and a slot in a state in which a call would follow  *)
(* its PCB has a live one (tcp.c:192-199, :254).                            *)
NoDanglingPcb ==
    /\ \A p \in Pcb : pcbs[p].kind # "free" =>
          /\ pcbs[p].arg \in Slot /\ sockets[pcbs[p].arg].tpcb = p
          /\ sockets[pcbs[p].arg].state \notin {"unallocated", "error"}
    /\ \A s \in Slot : sockets[s].state \notin {"unallocated", "error", "closing"} =>
          sockets[s].tpcb # None /\ pcbs[sockets[s].tpcb].arg = s

(* The lifecycle table has every edge the calls and callbacks take, in      *)
(* whatever order they come (runtime_tcp_state.h:112-114).                  *)
NoUnexpectedEdge == \A s \in Slot : ~sockets[s].odd

(* A connection nobody has accepted is in exactly one backlog, that of a    *)
(* listening socket, without a reference; every other connection has one    *)
(* (tcp.c:209-216).                                                         *)
BacklogOwned ==
    LET Queued == {e \in Slot \X (1 .. BacklogCap) : e[2] \in DOMAIN sockets[e[1]].queue}
        At(e) == sockets[e[1]].queue[e[2]]
    IN  /\ \A e \in Queued :
              /\ sockets[e[1]].state = "listening"
              /\ sockets[At(e)].refs = 0
              /\ sockets[At(e)].state \in {"connected", "closed_by_peer", "error"}
        /\ \A e, f \in Queued : At(e) = At(f) => e = f
        /\ \A s \in Slot : sockets[s].state \in {"connected", "closed_by_peer"} /\ sockets[s].refs = 0 =>
              \E e \in Queued : At(e) = s

(* A call parked on an open socket has nothing to see: no byte, no end of   *)
(* stream, no error, no connection and no room came without its wake        *)
(* (tcp.c:309-316, :364, :405, :428, :890).                                 *)
SleeperMissesNoEvent ==
    \A s \in Slot : LET slot == sockets[s] IN slot.refs > 0 =>
        /\ "connect" \in parked[s] => slot.state = "connecting"
        /\ "recv" \in parked[s] => tcp_recv_gate(slot.state, slot.len # 0, FALSE) = "block"
        /\ "send" \in parked[s] => tcp_write_gate(slot.state) = "send" /\ pcbs[slot.tpcb].full
        /\ "accept" \in parked[s] => slot.state = "listening" /\ slot.queue = <<>>

(* The ring holds the stream from the first byte not yet read to the last   *)
(* one lwIP was told was taken, in order and without a gap, whatever was    *)
(* refused and came again (tcp.c:336-354, :755-764).                        *)
StreamInOrder ==
    \A s \in Slot : LET slot == sockets[s] IN slot.state \in {"connected", "closed_by_peer"} =>
        /\ slot.read + slot.len = pcbs[slot.tpcb].given
        /\ \A i \in 0 .. slot.len - 1 :
              slot.buf[(slot.head + i) % BufSize] = slot.read + i + 1

(* runtime_tcp_state.h:105: "closing -> unallocated: lwIP reports the close *)
(* done". What the code does for a listening socket does not keep it.       *)
ClosingEnds == \A s \in Slot : (sockets[s].state = "closing") ~> (sockets[s].state # "closing")
=============================================================================
