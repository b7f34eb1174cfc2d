-------------------------- MODULE TcpSocketsProofs ---------------------------
(***************************************************************************)
(* Proofs about module TcpSockets, for any number of slots, PCBs and        *)
(* backlog entries, any ring and any application. What a slot's state says  *)
(* of its record (SlotFacts), of its PCB and the stream (Fits), of the      *)
(* calls asleep on it (SleepsOn) and of the backlogs (Backlog) is           *)
(* inductive only together.                                                 *)
(***************************************************************************)
EXTENDS TcpSockets, WellFoundedInduction, TLAPS

States == {"unallocated", "allocated", "bound", "connecting", "connected", "listening",
           "closed_by_peer", "closing", "error"}
Kinds == {"free", "idle", "listen", "connecting", "connected", "closing"}

SlotType == [state : States, tpcb : Pcb \cup {None}, buf : [0 .. BufSize - 1 -> Nat],
             head : 0 .. BufSize - 1, len : 0 .. BufSize, queue : Seq(Slot), refs : Nat,
             read : Nat, odd : BOOLEAN]
PcbType == [kind : Kinds, arg : Slot \cup {None}, given : Nat, full : BOOLEAN]

SocketsTypeOK ==
    /\ program \in Programs
    /\ sockets \in [Slot -> SlotType]
    /\ pcbs \in [Pcb -> PcbType]
    /\ parked \in [Slot -> SUBSET CallName]
    /\ woken \in [Slot -> SUBSET CallName]

(* A slot whose calls follow its PCB without a look.                        *)
Attached(state) == state \notin {"unallocated", "error", "closing"}

(* What a slot's state says of its own record.                              *)
SlotFacts(r) ==
    /\ ~r.odd
    /\ r.state \in {"unallocated", "closing"} => r.refs = 0
    /\ r.state \in {"allocated", "bound", "connecting", "listening"} => r.refs > 0
    /\ r.state \in {"unallocated", "allocated", "bound", "connecting"} => r.len = 0 /\ r.read = 0
    /\ r.state = "error" => r.tpcb = None
    /\ r.queue # <<>> => r.state = "listening"
    /\ Len(r.queue) < BacklogCap

(* The ring of r holds the stream up to the byte given.                     *)
RingHolds(r, given) ==
    /\ r.read + r.len = given
    /\ \A i \in 0 .. r.len - 1 : r.buf[(r.head + i) % BufSize] = r.read + i + 1

(* A slot and the PCB it holds are at the same point of the connection.     *)
Fits(r, c) ==
    /\ c.kind = "idle" => r.state \in {"allocated", "bound"}
    /\ c.kind = "listen" => r.state = "listening"
    /\ c.kind = "connecting" => r.state = "connecting"
    /\ c.kind = "connected" => r.state \in {"connected", "closed_by_peer", "closing"}
    /\ c.kind = "closing" => r.state = "closing"
    /\ c.kind \in {"idle", "connecting"} => c.given = 0
    /\ r.state \in {"connected", "closed_by_peer"} => RingHolds(r, c.given)

(* The calls asleep on a slot r, whose PCB's send buffer may be full.       *)
SleepsOn(calls, r, full) ==
    r.state \notin {"unallocated", "closing"} =>
        /\ "connect" \in calls => r.state = "connecting"
        /\ "recv" \in calls => r.state = "connected" /\ r.len = 0
        /\ "send" \in calls => r.state \in {"connected", "closed_by_peer"} /\ full
        /\ "accept" \in calls => r.state = "listening" /\ r.queue = <<>>

(* Everything the invariant says of slot s: of its record, of any PCB that  *)
(* would call back on it, of the PCB its calls would follow, and of its     *)
(* sleepers.                                                                *)
Here(s) ==
    /\ SlotFacts(sockets[s])
    /\ \A p \in Pcb : pcbs[p].arg = s =>
          /\ sockets[s].tpcb = p /\ Fits(sockets[s], pcbs[p])
          /\ "accept" \in parked[s] => sockets[s].state = "listening"
    /\ Attached(sockets[s].state) => sockets[s].tpcb \in Pcb /\ pcbs[sockets[s].tpcb].arg = s
    /\ SleepsOn(parked[s], sockets[s], pcbs[sockets[s].tpcb].full)

(* A PCB calls back on a slot unless it is free.                            *)
PcbShape ==
    \A p \in Pcb : IF pcbs[p].kind = "free" THEN pcbs[p] = FreePcb ELSE pcbs[p].arg \in Slot

(* The backlogs, entry by entry.                                            *)
Backlog ==
    /\ \A l \in Slot : \A i \in DOMAIN sockets[l].queue :
          /\ sockets[sockets[l].queue[i]].refs = 0
          /\ sockets[sockets[l].queue[i]].state \in {"connected", "closed_by_peer", "error"}
    /\ \A l, m \in Slot : \A i \in DOMAIN sockets[l].queue, j \in DOMAIN sockets[m].queue :
          sockets[l].queue[i] = sockets[m].queue[j] => l = m /\ i = j
    /\ \A s \in Slot : sockets[s].state \in {"connected", "closed_by_peer"} /\ sockets[s].refs = 0 =>
          \E l \in Slot : \E i \in DOMAIN sockets[l].queue : sockets[l].queue[i] = s

SocketsInv == SocketsTypeOK /\ PcbShape /\ (\A s \in Slot : Here(s)) /\ Backlog

-----------------------------------------------------------------------------
(* The receive ring.                                                        *)

(* A position of the ring is wrapped at most once.                          *)
LEMMA WrapOnce ==
    ASSUME NEW x \in Nat, x < 2 * BufSize
    PROVE  x % BufSize = IF x < BufSize THEN x ELSE x - BufSize
  <1>1. BufSize \in Nat /\ BufSize > 0
    BY SocketsAssumption
  <1>2. CASE x < BufSize
    BY <1>1, <1>2
  <1>3. CASE ~(x < BufSize)
    <2> DEFINE y == x - BufSize
    <2>1. y \in 0 .. BufSize - 1 /\ x = y + BufSize
      BY <1>1, <1>3
    <2>2. (y + BufSize) % BufSize = y
      BY <1>1, <2>1
    <2> QED  BY <2>1, <2>2, <1>3
  <1> QED  BY <1>2, <1>3

(* Where a pass puts n of m bytes that are to follow the l bytes at h.      *)
Places(h, l, m, t, n) ==
    /\ t \in 0 .. BufSize - 1 /\ n \in 0 .. m /\ l + n \in 0 .. BufSize
    /\ n = m \/ h + (l + n) = BufSize
    /\ h + l >= BufSize => n = m
    /\ \A i \in 0 .. l - 1 : /\ (h + i) % BufSize \in 0 .. BufSize - 1
                             /\ (h + i) % BufSize \notin t .. t + n - 1
    /\ \A i \in l .. l + n - 1 : /\ (h + i) % BufSize \in 0 .. BufSize - 1
                                 /\ (h + i) % BufSize = t + (i - l)

LEMMA SpanFacts ==
    ASSUME NEW h \in 0 .. BufSize - 1, NEW l \in 0 .. BufSize, NEW m \in 0 .. BufSize,
           m <= BufSize - l
    PROVE  Places(h, l, m, tcp_rx_tail(h, l), MinOf(m, tcp_rx_free_span(h, l)))
  <1> DEFINE t == tcp_rx_tail(h, l)
             span == tcp_rx_free_span(h, l)
             n == MinOf(m, span)
  <1>1. BufSize \in Nat /\ BufSize > 0
    BY SocketsAssumption
  <1>2. t = IF h + l < BufSize THEN h + l ELSE (h + l) - BufSize
    <2> DEFINE y == h + l
    <2>1. y \in Nat /\ y < 2 * BufSize
      BY <1>1
    <2> HIDE DEF y
    <2>2. y % BufSize = IF y < BufSize THEN y ELSE y - BufSize
      BY <2>1, WrapOnce
    <2> QED  BY <2>2 DEF y, tcp_rx_tail
  <1>3. span = IF h + l < BufSize THEN BufSize - (h + l) ELSE BufSize - l
    <2>1. span = BufSize - (IF l > t THEN l ELSE t)
      BY DEF tcp_rx_free_span
    <2> HIDE DEF span, t
    <2> QED  BY <1>1, <1>2, <2>1
  <1>4. n = IF m < span THEN m ELSE span
    BY DEF MinOf
  <1> HIDE DEF t, span, n
  <1>5. /\ n \in 0 .. m /\ l + n \in 0 .. BufSize /\ n <= span
        /\ t \in 0 .. BufSize - 1
        /\ n = m \/ h + (l + n) = BufSize
        /\ h + l >= BufSize => n = m
    BY <1>1, <1>2, <1>3, <1>4
  <1>6. ASSUME NEW i \in 0 .. l + n - 1
        PROVE  (h + i) % BufSize = IF h + i < BufSize THEN h + i ELSE (h + i) - BufSize
    <2> DEFINE y == h + i
    <2>1. y \in Nat /\ y < 2 * BufSize
      BY <1>1, <1>5
    <2> HIDE DEF y
    <2>2. y % BufSize = IF y < BufSize THEN y ELSE y - BufSize
      BY <2>1, WrapOnce
    <2> QED  BY <2>2 DEF y
  <1>7. ASSUME NEW i \in 0 .. l - 1
        PROVE  /\ (h + i) % BufSize \in 0 .. BufSize - 1
               /\ (h + i) % BufSize \notin t .. t + n - 1
    <2>1. i \in 0 .. l + n - 1
      BY <1>1, <1>5
    <2> DEFINE x == (h + i) % BufSize
    <2>2. x = IF h + i < BufSize THEN h + i ELSE (h + i) - BufSize
      BY <2>1, <1>6
    <2> HIDE DEF x
    <2>3. x \in 0 .. BufSize - 1 /\ x \notin t .. t + n - 1
      BY <1>1, <1>2, <1>3, <1>5, <2>2
    <2> QED  BY <2>3 DEF x
  <1>8. ASSUME NEW i \in l .. l + n - 1
        PROVE  /\ (h + i) % BufSize \in 0 .. BufSize - 1
               /\ (h + i) % BufSize = t + (i - l)
    <2>1. i \in 0 .. l + n - 1
      BY <1>1, <1>5
    <2> DEFINE x == (h + i) % BufSize
    <2>2. x = IF h + i < BufSize THEN h + i ELSE (h + i) - BufSize
      BY <2>1, <1>6
    <2> HIDE DEF x
    <2>3. x \in 0 .. BufSize - 1 /\ x = t + (i - l)
      BY <1>1, <1>2, <1>3, <1>5, <2>2
    <2> QED  BY <2>3 DEF x
  <1>9. Places(h, l, m, t, n)
    BY <1>5, <1>7, <1>8 DEF Places
  <1> QED  BY <1>9 DEF t, n, span

(* The state of a copy into the ring: the ring holds the stream from byte   *)
(* first on, and what is left of the segment fits.                          *)
CopyType == [buf : [0 .. BufSize - 1 -> Nat], head : 0 .. BufSize - 1, len : 0 .. BufSize,
             next : Nat, left : 0 .. BufSize]

Carries(c, first) ==
    /\ c.next = first + c.len
    /\ \A i \in 0 .. c.len - 1 : c.buf[(c.head + i) % BufSize] = first + i

(* One pass keeps the stream in order; it leaves something for a second     *)
(* pass only at the end of the array, and a second pass leaves nothing.     *)
LEMMA PassIn ==
    ASSUME NEW c \in CopyType, NEW first \in Nat, Carries(c, first), c.left <= BufSize - c.len
    PROVE  /\ CopyInPass(c) \in CopyType /\ Carries(CopyInPass(c), first)
           /\ CopyInPass(c).head = c.head
           /\ CopyInPass(c).len + CopyInPass(c).left = c.len + c.left
           /\ CopyInPass(c).left = 0 \/ c.head + CopyInPass(c).len = BufSize
           /\ c.head + c.len >= BufSize \/ c.left = 0 => CopyInPass(c).left = 0
  <1> DEFINE h == c.head
             l == c.len
             m == c.left
             g == c.next
             t == tcp_rx_tail(h, l)
             n == MinOf(m, tcp_rx_free_span(h, l))
             buf == [i \in DOMAIN c.buf |-> IF i \in t .. t + n - 1 THEN g + i - t ELSE c.buf[i]]
             d == CopyInPass(c)
  <1>1. d = [c EXCEPT !.buf = buf, !.len = l + n, !.next = g + n, !.left = m - n]
    BY DEF CopyInPass
  <1>2. /\ BufSize \in Nat /\ h \in 0 .. BufSize - 1 /\ l \in 0 .. BufSize
        /\ m \in 0 .. BufSize /\ m <= BufSize - l /\ g \in Nat /\ g = first + l
        /\ c.buf \in [0 .. BufSize - 1 -> Nat]
    BY SocketsAssumption DEF CopyType, Carries
  <1>3. \A i \in 0 .. l - 1 : c.buf[(h + i) % BufSize] = first + i
    BY DEF Carries
  <1> HIDE DEF h, l, m, g
  <1>4. Places(h, l, m, t, n)
    BY <1>2, SpanFacts
  <1> HIDE DEF t, n
  <1>5. buf \in [0 .. BufSize - 1 -> Nat]
    <2>1. ASSUME NEW i \in t .. t + n - 1
          PROVE  g + i - t \in Nat
      BY <1>2, <1>4 DEF Places
    <2> QED  BY <1>2, <2>1
  <1>6. \A j \in 0 .. BufSize - 1 : buf[j] = IF j \in t .. t + n - 1 THEN g + j - t ELSE c.buf[j]
    BY <1>2
  <1> HIDE DEF buf
  <1>7. \A i \in 0 .. l + n - 1 : buf[(h + i) % BufSize] = first + i
    <2>1. ASSUME NEW i \in 0 .. l - 1
          PROVE  buf[(h + i) % BufSize] = first + i
      BY <1>3, <1>4, <1>6 DEF Places
    <2>2. ASSUME NEW i \in l .. l + n - 1
          PROVE  buf[(h + i) % BufSize] = first + i
      <3> DEFINE x == (h + i) % BufSize
      <3>1. x \in 0 .. BufSize - 1 /\ x = t + (i - l)
        BY <1>4 DEF Places
      <3> HIDE DEF x
      <3>2. x \in t .. t + n - 1 /\ g + x - t = first + i
        BY <1>2, <1>4, <3>1 DEF Places
      <3>3. buf[x] = first + i
        BY <1>6, <3>1, <3>2
      <3> QED  BY <3>3 DEF x
    <2>3. \A i \in 0 .. l + n - 1 : i \in 0 .. l - 1 \/ i \in l .. l + n - 1
      BY <1>2, <1>4 DEF Places
    <2> QED  BY <2>1, <2>2, <2>3
  <1>8. l + n \in 0 .. BufSize /\ g + n \in Nat /\ m - n \in 0 .. BufSize
    BY <1>2, <1>4 DEF Places
  <1> HIDE DEF d
  <1>9. /\ d.buf = buf /\ d.head = h /\ d.len = l + n /\ d.next = g + n /\ d.left = m - n
        /\ d \in CopyType
    BY <1>1, <1>5, <1>8 DEF CopyType, h
  <1>10. Carries(d, first)
    <2>1. g + n = first + (l + n)
      BY <1>2, <1>4 DEF Places
    <2>2. d.next = first + d.len
      BY <1>9, <2>1
    <2>3. \A i \in 0 .. d.len - 1 : d.buf[(d.head + i) % BufSize] = first + i
      <3> SUFFICES ASSUME NEW i \in 0 .. d.len - 1
                   PROVE  d.buf[(d.head + i) % BufSize] = first + i
        OBVIOUS
      <3>1. i \in 0 .. l + n - 1
        BY <1>2, <1>4, <1>9 DEF Places
      <3>2. d.buf[(d.head + i) % BufSize] = buf[(h + i) % BufSize]
        BY <1>9, Zenon
      <3> QED  BY <1>7, <3>1, <3>2
    <2> QED  BY <2>2, <2>3 DEF Carries
  <1>11. /\ (l + n) + (m - n) = l + m
         /\ m - n = 0 \/ h + (l + n) = BufSize
         /\ h + l >= BufSize \/ m = 0 => m - n = 0
    BY <1>2, <1>4 DEF Places
  <1> QED  BY <1>9, <1>10, <1>11 DEF d, h, l, m

(* A segment that fits is in the ring whole and in order.                   *)
LEMMA CopiedIn ==
    ASSUME NEW r \in SlotType, NEW given \in Nat, RingHolds(r, given),
           NEW n \in 1 .. BufSize, tcp_rx_can_accept(r.len, n),
           NEW c, c = CopyInPass(CopyInPass([buf |-> r.buf, head |-> r.head, len |-> r.len,
                                             next |-> given + 1, left |-> n]))
    PROVE  /\ c.buf \in [0 .. BufSize - 1 -> Nat] /\ c.len \in 1 .. BufSize
           /\ RingHolds([r EXCEPT !.buf = c.buf, !.len = c.len], given + n)
  <1> DEFINE a == [buf |-> r.buf, head |-> r.head, len |-> r.len, next |-> given + 1, left |-> n]
             b == CopyInPass(a)
             first == r.read + 1
  <1>1. /\ BufSize \in Nat /\ r.len \in 0 .. BufSize /\ r.head \in 0 .. BufSize - 1
        /\ r.read \in Nat /\ first \in Nat /\ given + 1 \in Nat /\ n \in 0 .. BufSize
        /\ n <= BufSize - r.len /\ given + 1 = first + r.len
    BY SocketsAssumption, SMTT(30) DEF SlotType, RingHolds, tcp_rx_can_accept
  <1>2. a \in CopyType /\ a.len = r.len /\ a.left = n /\ a.head = r.head
    BY <1>1 DEF CopyType, SlotType
  <1>3. Carries(a, first)
    <2>1. \A i \in 0 .. r.len - 1 : r.buf[(r.head + i) % BufSize] = first + i
      BY <1>1 DEF RingHolds
    <2> QED  BY <1>1, <2>1 DEF Carries
  <1> HIDE DEF a, first
  <1>4. /\ b \in CopyType /\ Carries(b, first) /\ b.head = a.head
        /\ b.len + b.left = a.len + a.left
        /\ b.left = 0 \/ a.head + b.len = BufSize
    BY <1>1, <1>2, <1>3, PassIn
  <1> HIDE DEF b
  <1>5. b.len \in 0 .. BufSize /\ b.left \in 0 .. BufSize /\ b.head \in 0 .. BufSize - 1
    BY <1>4 DEF CopyType
  <1>6. b.len + b.left = r.len + n /\ b.left <= BufSize - b.len
    BY <1>1, <1>2, <1>4, <1>5
  <1>7. b.head + b.len >= BufSize \/ b.left = 0
    BY <1>1, <1>4, <1>5
  <1>8. c = CopyInPass(b)
    BY DEF a, b
  <1>9. /\ c \in CopyType /\ Carries(c, first) /\ c.head = b.head
        /\ c.len + c.left = b.len + b.left
        /\ c.left = 0
    BY <1>1, <1>4, <1>6, <1>7, <1>8, PassIn
  <1>10. c.len \in 0 .. BufSize /\ c.buf \in [0 .. BufSize - 1 -> Nat] /\ c.head = r.head
    BY <1>2, <1>4, <1>9 DEF CopyType
  <1>11. c.len = r.len + n
    BY <1>1, <1>6, <1>9, <1>10
  <1> DEFINE q == [r EXCEPT !.buf = c.buf, !.len = c.len]
  <1>12. q.buf = c.buf /\ q.len = c.len /\ q.head = r.head /\ q.read = r.read
    BY DEF SlotType
  <1> HIDE DEF q
  <1>13. q.read + q.len = given + n
    BY <1>1, <1>11, <1>12 DEF RingHolds, first
  <1>14. ASSUME NEW i \in 0 .. q.len - 1
         PROVE  q.buf[(q.head + i) % BufSize] = q.read + i + 1
    <2>1. c.buf[(c.head + i) % BufSize] = first + i
      BY <1>9, <1>12 DEF Carries
    <2>2. first + i = q.read + i + 1
      BY <1>1, <1>10, <1>12 DEF first
    <2>3. q.buf[(q.head + i) % BufSize] = c.buf[(c.head + i) % BufSize]
      BY <1>10, <1>12, Zenon
    <2> QED  BY <2>1, <2>2, <2>3
  <1>15. RingHolds(q, given + n)
    BY <1>13, <1>14 DEF RingHolds
  <1>16. c.len \in 1 .. BufSize
    BY <1>1, <1>10, <1>11
  <1> QED  BY <1>10, <1>15, <1>16 DEF q

(* One pass of the copy out of the ring takes n bytes from its front.       *)
Takes(h, l, m, n) ==
    /\ n \in 0 .. m /\ n <= l
    /\ tcp_rx_advance(h, n) \in 0 .. BufSize - 1
    /\ \A i \in 0 .. (l - n) - 1 :
          (tcp_rx_advance(h, n) + i) % BufSize = (h + (n + i)) % BufSize

LEMMA ReadFacts ==
    ASSUME NEW h \in 0 .. BufSize - 1, NEW l \in 0 .. BufSize, NEW m \in 0 .. BufSize
    PROVE  Takes(h, l, m, MinOf(m, tcp_rx_read_span(h, l)))
  <1> DEFINE span == tcp_rx_read_span(h, l)
             n == MinOf(m, span)
             a == tcp_rx_advance(h, n)
  <1>1. BufSize \in Nat /\ BufSize > 0
    BY SocketsAssumption
  <1>2. span = IF l < BufSize - h THEN l ELSE BufSize - h
    BY DEF tcp_rx_read_span
  <1>3. n = IF m < span THEN m ELSE span
    BY DEF MinOf
  <1> HIDE DEF span, n
  <1>4. n \in 0 .. m /\ n <= l /\ h + n \in Nat /\ h + n <= BufSize
    BY <1>1, <1>2, <1>3
  <1>5. a = IF h + n < BufSize THEN h + n ELSE 0
    <2> DEFINE y == h + n
    <2>1. y \in Nat /\ y < 2 * BufSize
      BY <1>1, <1>4
    <2> HIDE DEF y
    <2>2. y % BufSize = IF y < BufSize THEN y ELSE y - BufSize
      BY <2>1, WrapOnce
    <2>3. a = y % BufSize
      BY DEF tcp_rx_advance, y
    <2> HIDE DEF a
    <2> QED  BY <1>1, <1>4, <2>1, <2>2, <2>3 DEF y
  <1> HIDE DEF a
  <1>6. a \in 0 .. BufSize - 1
    BY <1>1, <1>4, <1>5
  <1>7. ASSUME NEW i \in 0 .. (l - n) - 1
        PROVE  (a + i) % BufSize = (h + (n + i)) % BufSize
    <2> DEFINE x == a + i
               y == h + (n + i)
    <2>1. x \in Nat /\ x < 2 * BufSize /\ y \in Nat /\ y < 2 * BufSize
      BY <1>1, <1>4, <1>6
    <2>2. x = y \/ (x < BufSize /\ y >= BufSize /\ x = y - BufSize)
      BY <1>1, <1>4, <1>5
    <2> HIDE DEF x, y
    <2>3. /\ x % BufSize = IF x < BufSize THEN x ELSE x - BufSize
          /\ y % BufSize = IF y < BufSize THEN y ELSE y - BufSize
      BY <2>1, WrapOnce
    <2>4. x % BufSize = y % BufSize
      BY <1>1, <2>1, <2>2, <2>3
    <2> QED  BY <2>4 DEF x, y
  <1>8. Takes(h, l, m, n)
    BY <1>4, <1>6, <1>7 DEF Takes, a
  <1> QED  BY <1>8 DEF n, span

(* The bytes a recv takes leave the others in order.                        *)
OutType == [head : 0 .. BufSize - 1, len : 0 .. BufSize, left : 0 .. BufSize, copied : Nat]

Leaves(o, buf, read) ==
    \A i \in 0 .. o.len - 1 : buf[(o.head + i) % BufSize] = (read + o.copied) + i + 1

LEMMA PassOut ==
    ASSUME NEW o \in OutType, NEW buf, NEW read \in Nat, Leaves(o, buf, read)
    PROVE  /\ CopyOutPass(o) \in OutType /\ Leaves(CopyOutPass(o), buf, read)
           /\ CopyOutPass(o).len + CopyOutPass(o).copied = o.len + o.copied
  <1> DEFINE h == o.head
             l == o.len
             m == o.left
             n == MinOf(m, tcp_rx_read_span(h, l))
             d == CopyOutPass(o)
             a == tcp_rx_advance(h, n)
  <1>1. d = [o EXCEPT !.head = a, !.len = l - n, !.left = m - n, !.copied = o.copied + n]
    BY DEF CopyOutPass
  <1>2. /\ BufSize \in Nat /\ h \in 0 .. BufSize - 1 /\ l \in 0 .. BufSize
        /\ m \in 0 .. BufSize /\ o.copied \in Nat
    BY SocketsAssumption DEF OutType
  <1>3. \A i \in 0 .. l - 1 : buf[(h + i) % BufSize] = (read + o.copied) + i + 1
    BY DEF Leaves
  <1> HIDE DEF h, l, m
  <1>4. Takes(h, l, m, n)
    BY <1>2, ReadFacts
  <1> HIDE DEF n
  <1>5. /\ n \in 0 .. BufSize /\ n <= l /\ l - n \in 0 .. BufSize /\ m - n \in 0 .. BufSize
        /\ o.copied + n \in Nat /\ (l - n) + (o.copied + n) = l + o.copied
    BY <1>2, <1>4 DEF Takes
  <1>6. a \in 0 .. BufSize - 1
    BY <1>4 DEF Takes
  <1> HIDE DEF d
  <1>7. /\ d.head = a /\ d.len = l - n /\ d.copied = o.copied + n
        /\ d \in OutType
    BY <1>1, <1>5, <1>6 DEF OutType
  <1>8. ASSUME NEW i \in 0 .. d.len - 1
        PROVE  buf[(d.head + i) % BufSize] = (read + d.copied) + i + 1
    <2>1. i \in 0 .. (l - n) - 1
      BY <1>7
    <2> DEFINE j == n + i
    <2>2. j \in 0 .. l - 1 /\ (read + o.copied) + j + 1 = (read + (o.copied + n)) + i + 1
      BY <1>2, <1>5, <2>1
    <2>3. (a + i) % BufSize = (h + j) % BufSize
      BY <1>4, <2>1 DEF Takes
    <2> HIDE DEF j
    <2>4. buf[(h + j) % BufSize] = (read + o.copied) + j + 1
      BY <1>3, <2>2
    <2>5. (d.head + i) % BufSize = (h + j) % BufSize
      BY <1>7, <2>3
    <2>6. buf[(d.head + i) % BufSize] = buf[(h + j) % BufSize]
      BY <2>5, Zenon
    <2> QED  BY <1>7, <2>2, <2>4, <2>6
  <1>9. Leaves(d, buf, read)
    BY <1>8 DEF Leaves
  <1>10. d.len + d.copied = o.len + o.copied
    BY <1>5, <1>7 DEF l
  <1> QED  BY <1>7, <1>9, <1>10 DEF d

LEMMA CopiedOut ==
    ASSUME NEW r \in SlotType, NEW given \in Nat, RingHolds(r, given), NEW n \in 1 .. BufSize,
           NEW o, o = CopyOutPass(CopyOutPass([head |-> r.head, len |-> r.len,
                                               left |-> n, copied |-> 0]))
    PROVE  /\ o.head \in 0 .. BufSize - 1 /\ o.len \in 0 .. BufSize /\ r.read + o.copied \in Nat
           /\ RingHolds([r EXCEPT !.head = o.head, !.len = o.len, !.read = r.read + o.copied], given)
  <1> DEFINE a == [head |-> r.head, len |-> r.len, left |-> n, copied |-> 0]
             b == CopyOutPass(a)
             buf == r.buf
             read == r.read
  <1>1. /\ BufSize \in Nat /\ r.len \in 0 .. BufSize /\ r.head \in 0 .. BufSize - 1
        /\ read \in Nat /\ n \in 0 .. BufSize
        /\ read + r.len = given
    BY SocketsAssumption DEF SlotType, RingHolds
  <1>2. a \in OutType /\ a.len = r.len /\ a.copied = 0 /\ a.head = r.head
    BY <1>1 DEF OutType
  <1> HIDE DEF a
  <1>3. Leaves(a, buf, read)
    <2>1. \A i \in 0 .. r.len - 1 : buf[(r.head + i) % BufSize] = read + i + 1
      BY DEF RingHolds
    <2>2. read + 0 = read
      BY <1>1
    <2> HIDE DEF read, buf
    <2>3. \A i \in 0 .. a.len - 1 : buf[(a.head + i) % BufSize] = (read + a.copied) + i + 1
      BY <1>2, <2>1, <2>2
    <2> QED  BY <2>3 DEF Leaves
  <1> HIDE DEF read, buf
  <1>4. b \in OutType /\ Leaves(b, buf, read) /\ b.len + b.copied = a.len + a.copied
    BY <1>1, <1>2, <1>3, PassOut
  <1>5. o = CopyOutPass(b)
    BY DEF a, b
  <1> HIDE DEF b
  <1>6. o \in OutType /\ Leaves(o, buf, read) /\ o.len + o.copied = b.len + b.copied
    BY <1>1, <1>4, <1>5, PassOut
  <1>7. /\ o.head \in 0 .. BufSize - 1 /\ o.len \in 0 .. BufSize /\ o.copied \in Nat
        /\ o.len + o.copied = r.len
    BY <1>1, <1>2, <1>4, <1>6 DEF OutType
  <1> DEFINE q == [r EXCEPT !.head = o.head, !.len = o.len, !.read = read + o.copied]
  <1>8. q.buf = buf /\ q.len = o.len /\ q.head = o.head /\ q.read = read + o.copied
    BY DEF SlotType, buf, read
  <1> HIDE DEF q
  <1>9. q.read + q.len = given
    BY <1>1, <1>7, <1>8
  <1>10. \A i \in 0 .. q.len - 1 : q.buf[(q.head + i) % BufSize] = q.read + i + 1
    BY <1>6, <1>8 DEF Leaves
  <1>11. RingHolds(q, given)
    BY <1>9, <1>10 DEF RingHolds
  <1>12. read + o.copied \in Nat
    BY <1>1, <1>7
  <1> QED  BY <1>7, <1>11, <1>12 DEF q, read

-----------------------------------------------------------------------------
(* Slots: what a change of state, a release and a step at one slot keep.    *)
LEMMA FreshTypes == FreeSlot \in SlotType /\ FreePcb \in PcbType /\ SlotFacts(FreeSlot)
  <1>1. BufSize \in Nat /\ BufSize > 0 /\ BacklogCap \in Nat /\ BacklogCap > 0
    BY SocketsAssumption
  <1>2. [i \in 0 .. BufSize - 1 |-> 0] \in [0 .. BufSize - 1 -> Nat]
    OBVIOUS
  <1>3. 0 \in 0 .. BufSize - 1 /\ 0 \in 0 .. BufSize /\ <<>> \in Seq(Slot) /\ Len(<<>>) < BacklogCap
    BY <1>1
  <1> QED  BY <1>2, <1>3 DEF FreeSlot, FreePcb, SlotType, PcbType, States, Kinds, SlotFacts

(* Every edge the program takes is in the lifecycle's table.                *)
LEMMA Edges ==
    /\ \A from \in States : tcp_state_transition_allowed(from, "unallocated") <=> from # "unallocated"
    /\ \A from \in States : tcp_state_transition_allowed(from, "error") <=>
                               from \notin {"unallocated", "error"}
    /\ tcp_state_transition_allowed("unallocated", "allocated")
    /\ \A to \in {"bound", "connecting", "connected", "listening"} :
          tcp_state_transition_allowed("allocated", to)
    /\ \A to \in {"connecting", "listening"} : tcp_state_transition_allowed("bound", to)
    /\ tcp_state_transition_allowed("connecting", "connected")
    /\ \A to \in {"closed_by_peer", "closing"} : tcp_state_transition_allowed("connected", to)
    /\ tcp_state_transition_allowed("listening", "closing")
  BY DEF tcp_state_transition_allowed, States

LEMMA SetState ==
    ASSUME NEW S \in [Slot -> SlotType], NEW s \in Slot, NEW next \in States, ~S[s].odd,
           tcp_state_transition_allowed(S[s].state, next)
    PROVE  socket_set_state(S, s, next) = [S EXCEPT ![s] = [S[s] EXCEPT !.state = next]]
  <1>1. S[s] \in SlotType /\ S[s].odd = FALSE
    BY DEF SlotType
  <1>2. (S[s].odd \/ ~tcp_state_transition_allowed(S[s].state, next)) = FALSE
    BY <1>1
  <1>3. socket_set_state(S, s, next) =
          [S EXCEPT ![s] = [S[s] EXCEPT !.state = next, !.odd = FALSE]]
    BY <1>2 DEF socket_set_state
  <1>4. [S[s] EXCEPT !.state = next, !.odd = FALSE] = [S[s] EXCEPT !.state = next]
    BY <1>1 DEF SlotType
  <1> QED  BY <1>3, <1>4

LEMMA Release ==
    ASSUME NEW S \in [Slot -> SlotType], NEW s \in Slot, ~S[s].odd, S[s].state # "unallocated"
    PROVE  socket_release(S, s) = [S EXCEPT ![s] = FreeSlot]
  <1>1. S[s].state \in States
    BY DEF SlotType
  <1>2. tcp_state_transition_allowed(S[s].state, "unallocated") /\ "unallocated" \in States
    BY <1>1, Edges DEF States
  <1> DEFINE released == socket_set_state(S, s, "unallocated")
  <1>3. released = [S EXCEPT ![s] = [S[s] EXCEPT !.state = "unallocated"]]
    BY <1>2, SetState
  <1>4. released[s].odd = FALSE
    BY <1>3 DEF SlotType
  <1>5. [FreeSlot EXCEPT !.odd = FALSE] = FreeSlot
    <2>1. FreeSlot \in SlotType /\ FreeSlot.odd = FALSE
      BY FreshTypes DEF FreeSlot
    <2> HIDE DEF released
    <2> QED  BY <2>1 DEF SlotType
  <1>6. socket_release(S, s) = [released EXCEPT ![s] = FreeSlot]
    BY <1>4, <1>5 DEF socket_release
  <1> HIDE DEF released
  <1> QED  BY <1>3, <1>6

(* A slot that a step leaves alone, with the PCBs that know it.             *)
LEMMA Elsewhere ==
    ASSUME NEW t \in Slot, Here(t), sockets'[t] = sockets[t], parked'[t] = parked[t],
           \A x \in Pcb : pcbs[x].arg = t \/ pcbs'[x].arg = t => pcbs'[x] = pcbs[x]
    PROVE  Here(t)'
  <1>1. SlotFacts(sockets'[t])
    BY DEF Here
  <1>2. ASSUME NEW p \in Pcb, pcbs'[p].arg = t
        PROVE  /\ sockets'[t].tpcb = p /\ Fits(sockets'[t], pcbs'[p])
               /\ "accept" \in parked'[t] => sockets'[t].state = "listening"
    <2>1. pcbs'[p] = pcbs[p]
      BY <1>2
    <2> QED  BY <1>2, <2>1 DEF Here
  <1>3. Attached(sockets'[t].state) =>
          /\ sockets'[t].tpcb \in Pcb /\ pcbs'[sockets'[t].tpcb] = pcbs[sockets[t].tpcb]
          /\ pcbs'[sockets'[t].tpcb].arg = t
    BY DEF Here
  <1>4. SleepsOn(parked'[t], sockets'[t], pcbs'[sockets'[t].tpcb].full)
    <2>1. SleepsOn(parked[t], sockets[t], pcbs[sockets[t].tpcb].full)
      BY DEF Here
    <2>2. CASE Attached(sockets[t].state)
      BY <1>3, <2>1, <2>2
    <2>3. CASE ~Attached(sockets[t].state)
      BY <2>1, <2>3 DEF Attached, SleepsOn
    <2> QED  BY <2>2, <2>3
  <1> QED  BY <1>1, <1>2, <1>3, <1>4 DEF Here

(* The backlogs depend on a slot's queue, on whether it may be queued and   *)
(* on whether it must be.                                                   *)
Queueable(r) == r.refs = 0 /\ r.state \in {"connected", "closed_by_peer", "error"}
Unclaimed(r) == r.refs = 0 /\ r.state \in {"connected", "closed_by_peer"}
SameBacklog(r, q) ==
    /\ q.queue = r.queue
    /\ Queueable(r) => Queueable(q)
    /\ Unclaimed(q) => Unclaimed(r)

LEMMA BacklogKept ==
    ASSUME sockets \in [Slot -> SlotType], Backlog,
           \A t \in Slot : SameBacklog(sockets[t], sockets'[t])
    PROVE  Backlog'
  <1>1. \A l \in Slot : /\ sockets'[l].queue = sockets[l].queue
                        /\ \A i \in DOMAIN sockets[l].queue : sockets[l].queue[i] \in Slot
    BY DEF SameBacklog, SlotType
  <1>2. \A l \in Slot : \A i \in DOMAIN sockets'[l].queue :
          /\ sockets'[sockets'[l].queue[i]].refs = 0
          /\ sockets'[sockets'[l].queue[i]].state \in {"connected", "closed_by_peer", "error"}
    BY <1>1 DEF Backlog, SameBacklog, Queueable
  <1>3. \A l, m \in Slot : \A i \in DOMAIN sockets'[l].queue, j \in DOMAIN sockets'[m].queue :
          sockets'[l].queue[i] = sockets'[m].queue[j] => l = m /\ i = j
    BY <1>1 DEF Backlog
  <1>4. \A s \in Slot : sockets'[s].state \in {"connected", "closed_by_peer"} /\ sockets'[s].refs = 0 =>
          \E l \in Slot : \E i \in DOMAIN sockets'[l].queue : sockets'[l].queue[i] = s
    BY <1>1 DEF Backlog, SameBacklog, Unclaimed
  <1> QED  BY <1>2, <1>3, <1>4 DEF Backlog

(* A step at one slot s and at the PCB p that it holds, takes or lets go.   *)
LEMMA PairedStep ==
    ASSUME SocketsInv, UNCHANGED program, woken' \in [Slot -> SUBSET CallName],
           NEW s \in Slot, NEW r \in SlotType, NEW k \in SUBSET CallName,
           NEW p \in Pcb, NEW c \in PcbType,
           sockets' = [sockets EXCEPT ![s] = r], parked' = [parked EXCEPT ![s] = k],
           pcbs' = [pcbs EXCEPT ![p] = c],
           pcbs[p].arg \in {s, None}, \A x \in Pcb : pcbs[x].arg = s => x = p,
           \/ c = FreePcb /\ ~Attached(r.state)
           \/ /\ c.kind # "free" /\ c.arg = s /\ r.tpcb = p /\ Fits(r, c)
              /\ "accept" \in k => r.state = "listening",
           SlotFacts(r), SleepsOn(k, r, c.full), SameBacklog(sockets[s], r)
    PROVE  SocketsInv'
  <1> USE DEF SocketsInv
  <1>0. None \notin Slot /\ FreePcb.arg = None /\ FreePcb.kind = "free" /\ FreePcb.full = FALSE
    BY SocketsAssumption DEF FreePcb
  <1>1. /\ \A t \in Slot : t # s => sockets'[t] = sockets[t] /\ parked'[t] = parked[t]
        /\ \A x \in Pcb : x # p => pcbs'[x] = pcbs[x]
        /\ sockets'[s] = r /\ parked'[s] = k /\ pcbs'[p] = c
    BY DEF SocketsTypeOK
  <1>2. SocketsTypeOK'
    BY DEF SocketsTypeOK
  <1>3. PcbShape'
    <2>1. IF c.kind = "free" THEN c = FreePcb ELSE c.arg \in Slot
      BY <1>0
    <2>2. ASSUME NEW x \in Pcb
          PROVE  IF pcbs'[x].kind = "free" THEN pcbs'[x] = FreePcb ELSE pcbs'[x].arg \in Slot
      BY <1>1, <2>1 DEF PcbShape
    <2> QED  BY <2>2 DEF PcbShape
  <1>4. ASSUME NEW t \in Slot, t # s
        PROVE  Here(t)'
    <2>1. ASSUME NEW x \in Pcb, pcbs[x].arg = t \/ pcbs'[x].arg = t
          PROVE  x # p
      BY <1>0, <1>1, <1>4, <2>1
    <2>2. \A x \in Pcb : pcbs[x].arg = t \/ pcbs'[x].arg = t => pcbs'[x] = pcbs[x]
      BY <1>1, <2>1
    <2> QED  BY <1>1, <1>4, <2>2, Elsewhere
  <1>5. Here(s)'
    <2>1. ASSUME NEW x \in Pcb, pcbs'[x].arg = s
          PROVE  /\ r.tpcb = x /\ Fits(r, pcbs'[x])
                 /\ "accept" \in k => r.state = "listening"
      BY <1>0, <1>1, <2>1
    <2>2. Attached(r.state) => r.tpcb \in Pcb /\ pcbs'[r.tpcb].arg = s
      BY <1>1
    <2>3. SleepsOn(k, r, pcbs'[r.tpcb].full)
      <3>1. CASE r.tpcb = p
        BY <1>1, <3>1
      <3>2. CASE r.tpcb # p
        <4>1. c = FreePcb /\ ~Attached(r.state)
          BY <3>2
        <4> QED  BY <4>1 DEF Attached, SleepsOn
      <3> QED  BY <3>1, <3>2
    <2> QED  BY <1>1, <2>1, <2>2, <2>3 DEF Here
  <1>6. Backlog'
    <2>1. \A t \in Slot : SameBacklog(sockets[t], sockets'[t])
      BY <1>1 DEF SameBacklog
    <2> QED  BY <2>1, BacklogKept DEF SocketsTypeOK
  <1> QED  BY <1>2, <1>3, <1>4, <1>5, <1>6

(* A step at a slot without a PCB.                                          *)
LEMMA LoneStep ==
    ASSUME SocketsInv, UNCHANGED <<program, pcbs>>, woken' \in [Slot -> SUBSET CallName],
           NEW s \in Slot, NEW r \in SlotType, NEW k \in SUBSET CallName,
           sockets' = [sockets EXCEPT ![s] = r], parked' = [parked EXCEPT ![s] = k],
           \A x \in Pcb : pcbs[x].arg # s, ~Attached(r.state),
           SlotFacts(r), SleepsOn(k, r, FALSE), SameBacklog(sockets[s], r)
    PROVE  SocketsInv'
  <1> USE DEF SocketsInv
  <1>1. /\ \A t \in Slot : t # s => sockets'[t] = sockets[t] /\ parked'[t] = parked[t]
        /\ sockets'[s] = r /\ parked'[s] = k
    BY DEF SocketsTypeOK
  <1>2. SocketsTypeOK'
    BY DEF SocketsTypeOK
  <1>3. PcbShape'
    BY DEF PcbShape
  <1>4. ASSUME NEW t \in Slot, t # s
        PROVE  Here(t)'
    BY <1>1, <1>4, Elsewhere
  <1>5. Here(s)'
    <2>1. SleepsOn(k, r, pcbs'[r.tpcb].full)
      BY DEF Attached, SleepsOn
    <2> QED  BY <1>1, <2>1 DEF Here
  <1>6. Backlog'
    <2>1. \A t \in Slot : SameBacklog(sockets[t], sockets'[t])
      BY <1>1 DEF SameBacklog
    <2> QED  BY <2>1, BacklogKept DEF SocketsTypeOK
  <1> QED  BY <1>2, <1>3, <1>4, <1>5, <1>6

(* A step that only puts calls on a slot to sleep or wakes them.            *)
LEMMA CallsStep ==
    ASSUME SocketsInv, UNCHANGED <<program, sockets, pcbs>>, woken' \in [Slot -> SUBSET CallName],
           NEW s \in Slot, NEW k \in SUBSET CallName, parked' = [parked EXCEPT ![s] = k],
           "accept" \in k => "accept" \in parked[s] \/ sockets[s].state = "listening",
           SleepsOn(k, sockets[s], pcbs[sockets[s].tpcb].full)
    PROVE  SocketsInv'
  <1> USE DEF SocketsInv
  <1>1. /\ \A t \in Slot : t # s => parked'[t] = parked[t]
        /\ parked'[s] = k
    BY DEF SocketsTypeOK
  <1>2. SocketsTypeOK'
    BY DEF SocketsTypeOK
  <1>3. PcbShape'
    BY DEF PcbShape
  <1>4. ASSUME NEW t \in Slot, t # s
        PROVE  Here(t)'
    BY <1>1, <1>4, Elsewhere
  <1>5. Here(s)'
    <2>1. Here(s)
      OBVIOUS
    <2> QED  BY <1>1, <2>1 DEF Here
  <1>6. Backlog'
    BY DEF Backlog
  <1> QED  BY <1>2, <1>3, <1>4, <1>5, <1>6

-----------------------------------------------------------------------------
(* What a live PCB knows, and what a slot that follows its PCB finds.       *)
Bound(s, p) ==
    /\ s \in Slot /\ p \in Pcb
    /\ sockets[s] \in SlotType /\ pcbs[p] \in PcbType /\ parked[s] \in SUBSET CallName
    /\ pcbs[p].kind # "free" /\ pcbs[p].arg = s /\ sockets[s].tpcb = p
    /\ Fits(sockets[s], pcbs[p]) /\ SlotFacts(sockets[s])
    /\ SleepsOn(parked[s], sockets[s], pcbs[p].full)
    /\ "accept" \in parked[s] => sockets[s].state = "listening"
    /\ \A x \in Pcb : pcbs[x].arg = s => x = p
    /\ sockets[s].state \notin {"unallocated", "error"}
    /\ ~sockets[s].odd

LEMMA LivePcb ==
    ASSUME SocketsInv, NEW p \in Pcb, pcbs[p].kind # "free"
    PROVE  Bound(pcbs[p].arg, p)
  <1> DEFINE s == pcbs[p].arg
  <1>1. s \in Slot /\ pcbs[p] \in PcbType
    BY DEF SocketsInv, PcbShape, SocketsTypeOK
  <1>2. Here(s) /\ sockets[s] \in SlotType /\ parked[s] \in SUBSET CallName
    BY <1>1 DEF SocketsInv, SocketsTypeOK
  <1>3. sockets[s].tpcb = p /\ Fits(sockets[s], pcbs[p])
    BY <1>2 DEF Here
  <1>4. sockets[s].state \notin {"unallocated", "error"}
    BY <1>1, <1>3 DEF Fits, PcbType, Kinds
  <1>5. \A x \in Pcb : pcbs[x].arg = s => x = p
    BY <1>2, <1>3 DEF Here
  <1>6. /\ SlotFacts(sockets[s]) /\ SleepsOn(parked[s], sockets[s], pcbs[p].full)
        /\ "accept" \in parked[s] => sockets[s].state = "listening"
    BY <1>2, <1>3 DEF Here
  <1>7. ~sockets[s].odd
    BY <1>6 DEF SlotFacts
  <1> QED  BY <1>1, <1>2, <1>3, <1>4, <1>5, <1>6, <1>7 DEF Bound

LEMMA AttachedSlot ==
    ASSUME SocketsInv, NEW s \in Slot, Attached(sockets[s].state)
    PROVE  Bound(s, sockets[s].tpcb)
  <1> DEFINE p == sockets[s].tpcb
  <1>1. p \in Pcb /\ pcbs[p].arg = s
    BY DEF SocketsInv, Here
  <1>2. pcbs[p].kind # "free"
    BY <1>1, SocketsAssumption DEF SocketsInv, PcbShape, FreePcb
  <1> QED  BY <1>1, <1>2, LivePcb

(* The PCB of a slot is at the point its state says.                        *)
LEMMA KindOfState ==
    ASSUME NEW s, NEW p, Bound(s, p)
    PROVE  /\ sockets[s].state \in {"allocated", "bound"} => pcbs[p].kind = "idle"
           /\ sockets[s].state = "listening" => pcbs[p].kind = "listen"
           /\ sockets[s].state = "connecting" => pcbs[p].kind = "connecting"
           /\ sockets[s].state \in {"connected", "closed_by_peer"} => pcbs[p].kind = "connected"
           /\ sockets[s].state = "closing" => pcbs[p].kind \in {"connected", "closing"}
  BY DEF Bound, Fits, PcbType, Kinds

LEMMA Wakes ==
    ASSUME SocketsInv, NEW s \in Slot, NEW calls, socket_wake(s, calls)
    PROVE  /\ parked' = [parked EXCEPT ![s] = parked[s] \ calls]
           /\ parked[s] \ calls \in SUBSET CallName
           /\ woken' \in [Slot -> SUBSET CallName]
  BY DEF SocketsInv, SocketsTypeOK, socket_wake

(* A change of state along an edge of the table.                            *)
LEMMA Moves ==
    ASSUME SocketsInv, NEW s \in Slot, NEW next \in States,
           tcp_state_transition_allowed(sockets[s].state, next)
    PROVE  /\ socket_set_state(sockets, s, next) = [sockets EXCEPT ![s] = [sockets[s] EXCEPT !.state = next]]
           /\ [sockets[s] EXCEPT !.state = next] \in SlotType
  <1>1. sockets \in [Slot -> SlotType] /\ ~sockets[s].odd
    BY DEF SocketsInv, SocketsTypeOK, Here, SlotFacts
  <1>2. sockets[s] \in SlotType
    BY <1>1
  <1>3. [sockets[s] EXCEPT !.state = next] \in SlotType
    BY <1>2 DEF SlotType
  <1> QED  BY <1>1, <1>3, SetState

(* lwIP's callbacks.                                                        *)
LEMMA ErrStep ==
    ASSUME SocketsInv, UNCHANGED program, NEW p \in Pcb, socket_err_func(p)
    PROVE  SocketsInv'
  <1> DEFINE s == pcbs[p].arg
             r == [sockets[s] EXCEPT !.state = "error", !.tpcb = None]
             calls == {"connect", "recv", "send"}
  <1>1. Bound(s, p) /\ pcbs[p].kind # "listen"
    BY LivePcb DEF socket_err_func
  <1>2. sockets \in [Slot -> SlotType] /\ pcbs' = [pcbs EXCEPT ![p] = FreePcb] /\ socket_wake(s, calls)
    BY DEF SocketsInv, SocketsTypeOK, socket_err_func, Freed
  <1>3. socket_set_state(sockets, s, "error") = [sockets EXCEPT ![s] = [sockets[s] EXCEPT !.state = "error"]]
    <2>1. sockets[s].state \in States /\ "error" \in States /\ tcp_state_transition_allowed(sockets[s].state, "error")
      BY <1>1, Edges DEF Bound, SlotType, States
    <2>2. s \in Slot
      BY <1>1 DEF Bound
    <2> HIDE DEF s
    <2> QED  BY <2>1, <2>2, Moves
  <1>4. sockets' = [sockets EXCEPT ![s] = r]
    BY <1>1, <1>2, <1>3 DEF socket_err_func, Bound, SlotType
  <1>5. sockets[s].state # "listening" /\ "accept" \notin parked[s] /\ sockets[s].queue = <<>>
    BY <1>1 DEF Bound, Fits, SlotFacts, PcbType, Kinds
  <1>6. r \in SlotType /\ r.state = "error" /\ r.tpcb = None /\ r.queue = <<>>
        /\ r.refs = sockets[s].refs /\ ~r.odd
    BY <1>1, <1>5 DEF Bound, SlotType, States
  <1>7. SlotFacts(r)
    BY <1>5, <1>6, FreshTypes DEF SlotFacts, FreeSlot
  <1>8. SleepsOn(parked[s] \ calls, r, FreePcb.full)
    BY <1>5, <1>6 DEF SleepsOn
  <1>9. SameBacklog(sockets[s], r)
    BY <1>5, <1>6 DEF SameBacklog, Queueable, Unclaimed
  <1>10. pcbs[p].arg \in {s, None} /\ (\A x \in Pcb : pcbs[x].arg = s => x = p) /\ s \in Slot
    BY <1>1 DEF Bound
  <1>11. FreePcb = FreePcb /\ ~Attached(r.state)
    BY <1>6 DEF Attached
  <1>12. /\ parked' = [parked EXCEPT ![s] = parked[s] \ calls]
         /\ parked[s] \ calls \in SUBSET CallName /\ woken' \in [Slot -> SUBSET CallName]
    BY <1>2, <1>10, Wakes
  <1> HIDE DEF s, r, calls
  <1> QED  BY <1>2, <1>4, <1>6, <1>7, <1>8, <1>9, <1>10, <1>11, <1>12, FreshTypes, PairedStep

LEMMA DataStep ==
    ASSUME SocketsInv, UNCHANGED program, NEW p \in Pcb, NEW n \in 1 .. BufSize, RecvData(p, n)
    PROVE  SocketsInv'
  <1> DEFINE s == pcbs[p].arg
             slot == sockets[s]
             given == pcbs[p].given
             copied == CopyInPass(CopyInPass([buf |-> slot.buf, head |-> slot.head, len |-> slot.len,
                                              next |-> given + 1, left |-> n]))
             c == [pcbs[p] EXCEPT !.given = given + n]
  <1>1. pcbs[p].kind = "connected" /\ pcbs' = [pcbs EXCEPT ![p] = c]
    BY DEF RecvData, SocketsInv, SocketsTypeOK
  <1>2. Bound(s, p)
    BY <1>1, LivePcb
  <1>3. BufSize \in Nat /\ given \in Nat /\ given + n \in Nat
    BY <1>2, SocketsAssumption DEF Bound, PcbType
  <1>4. c \in PcbType /\ c.kind = "connected" /\ c.arg = s /\ c.given = given + n /\ c.full = pcbs[p].full
    BY <1>1, <1>2, <1>3 DEF Bound, PcbType
  <1>5. s \in Slot /\ (\A x \in Pcb : pcbs[x].arg = s => x = p) /\ pcbs[p].arg \in {s, None}
    BY <1>2 DEF Bound
  <1>6. CASE /\ slot.state = "connected" /\ tcp_rx_can_accept(slot.len, n)
             /\ sockets' = [sockets EXCEPT ![s].buf = copied.buf, ![s].len = copied.len]
             /\ socket_wake(s, {"recv"})
    <2> DEFINE r == [slot EXCEPT !.buf = copied.buf, !.len = copied.len]
               k == parked[s] \ {"recv"}
    <2>1. /\ copied.buf \in [0 .. BufSize - 1 -> Nat] /\ copied.len \in 1 .. BufSize
          /\ RingHolds(r, given + n)
      <3>1. slot \in SlotType /\ RingHolds(slot, given)
        BY <1>2, <1>6 DEF Bound, Fits
      <3> HIDE DEF slot, given
      <3> QED  BY <1>3, <1>6, <3>1, CopiedIn
    <2>2. sockets' = [sockets EXCEPT ![s] = r]
      BY <1>5, <1>6 DEF SocketsInv, SocketsTypeOK
    <2> HIDE DEF copied
    <2>3. slot \in SlotType /\ copied.len \in 0 .. BufSize
      BY <1>2, <1>3, <2>1 DEF Bound
    <2>4. /\ r \in SlotType /\ r.state = "connected" /\ r.tpcb = p /\ r.queue = slot.queue
          /\ r.refs = slot.refs /\ r.odd = slot.odd
      BY <1>2, <1>6, <2>1, <2>3 DEF Bound, SlotType
    <2>5. SlotFacts(r)
      BY <1>2, <1>6, <2>4 DEF Bound, SlotFacts
    <2>6. Fits(r, c)
      BY <1>4, <2>1, <2>4 DEF Fits
    <2>7. SleepsOn(k, r, c.full) /\ ("accept" \in k => r.state = "listening")
      BY <1>2, <1>4, <1>6, <2>4 DEF Bound, SleepsOn
    <2>8. SameBacklog(sockets[s], r)
      BY <1>6, <2>4 DEF SameBacklog, Queueable, Unclaimed
    <2>9. /\ parked' = [parked EXCEPT ![s] = k]
          /\ k \in SUBSET CallName /\ woken' \in [Slot -> SUBSET CallName]
      BY <1>5, <1>6, Wakes
    <2> HIDE DEF s, r, k, c
    <2>10. \/ c = FreePcb /\ ~Attached(r.state)
           \/ /\ c.kind # "free" /\ c.arg = s /\ r.tpcb = p /\ Fits(r, c)
              /\ "accept" \in k => r.state = "listening"
      BY <1>4, <2>4, <2>6, <2>7
    <2> QED  BY <1>1, <1>4, <1>5, <2>2, <2>4, <2>5, <2>7, <2>8, <2>9, <2>10, PairedStep
  <1>7. CASE slot.state = "closing" /\ UNCHANGED <<sockets, parked, woken>>
    <2> DEFINE k == parked[s]
    <2>1. Fits(slot, c) /\ slot.tpcb = p /\ SlotFacts(slot) /\ slot \in SlotType
      BY <1>2, <1>4, <1>7 DEF Fits, Bound
    <2>2. SleepsOn(k, slot, c.full) /\ ("accept" \in k => slot.state = "listening")
      BY <1>2, <1>7 DEF Bound, SleepsOn
    <2>3. /\ sockets' = [sockets EXCEPT ![s] = slot] /\ parked' = [parked EXCEPT ![s] = k]
          /\ k \in SUBSET CallName /\ woken' \in [Slot -> SUBSET CallName]
      BY <1>5, <1>7 DEF SocketsInv, SocketsTypeOK
    <2>4. SameBacklog(sockets[s], slot)
      BY DEF SameBacklog
    <2> HIDE DEF s, slot, c, k
    <2>5. \/ c = FreePcb /\ ~Attached(slot.state)
          \/ /\ c.kind # "free" /\ c.arg = s /\ slot.tpcb = p /\ Fits(slot, c)
             /\ "accept" \in k => slot.state = "listening"
      BY <1>4, <2>1, <2>2
    <2> QED  BY <1>1, <1>4, <1>5, <2>1, <2>2, <2>3, <2>4, <2>5, PairedStep
  <1> QED  BY <1>6, <1>7 DEF RecvData

LEMMA FinStep ==
    ASSUME SocketsInv, UNCHANGED program, NEW p \in Pcb, RecvFin(p)
    PROVE  SocketsInv'
  <1> DEFINE s == pcbs[p].arg
  <1>1. pcbs[p].kind \in {"connected", "closing"}
    BY DEF RecvFin, HasPeer
  <1>2. Bound(s, p)
    BY <1>1, LivePcb
  <1>3. /\ s \in Slot /\ (\A x \in Pcb : pcbs[x].arg = s => x = p) /\ pcbs[p].arg \in {s, None}
        /\ pcbs[p] \in PcbType /\ sockets \in [Slot -> SlotType]
    BY <1>2 DEF Bound, SocketsInv, SocketsTypeOK
  <1>4. CASE /\ sockets[s].state = "connected"
             /\ sockets' = socket_set_state(sockets, s, "closed_by_peer")
             /\ socket_wake(s, {"recv"}) /\ UNCHANGED pcbs
    <2> DEFINE r == [sockets[s] EXCEPT !.state = "closed_by_peer"]
               k == parked[s] \ {"recv"}
    <2>1. sockets' = [sockets EXCEPT ![s] = r] /\ r \in SlotType
      <3>1. "closed_by_peer" \in States /\ tcp_state_transition_allowed(sockets[s].state, "closed_by_peer")
        BY <1>4, Edges DEF States
      <3> HIDE DEF s
      <3> QED  BY <1>3, <1>4, <3>1, Moves
    <2>2. /\ r.state = "closed_by_peer" /\ r.tpcb = p /\ r.queue = sockets[s].queue /\ r.refs = sockets[s].refs
          /\ r.odd = sockets[s].odd /\ r.read = sockets[s].read /\ r.len = sockets[s].len
          /\ r.buf = sockets[s].buf /\ r.head = sockets[s].head
      BY <1>2, <1>4 DEF Bound, SlotType
    <2> HIDE DEF r
    <2>3. Fits(r, pcbs[p])
      BY <1>2, <1>4, <2>2 DEF Bound, Fits, RingHolds
    <2>4. SlotFacts(r)
      BY <1>2, <1>4, <2>2 DEF Bound, SlotFacts
    <2>5. SleepsOn(k, r, pcbs[p].full) /\ ("accept" \in k => r.state = "listening")
      BY <1>2, <1>4, <2>2 DEF Bound, SleepsOn
    <2>6. SameBacklog(sockets[s], r)
      BY <1>4, <2>2 DEF SameBacklog, Queueable, Unclaimed
    <2>7. /\ parked' = [parked EXCEPT ![s] = k]
          /\ k \in SUBSET CallName /\ woken' \in [Slot -> SUBSET CallName]
      BY <1>3, <1>4, Wakes
    <2>8. pcbs' = [pcbs EXCEPT ![p] = pcbs[p]]
      BY <1>4 DEF SocketsInv, SocketsTypeOK
    <2>9. pcbs[p].kind # "free" /\ pcbs[p].arg = s /\ r.tpcb = p
      BY <1>1, <2>2
    <2> HIDE DEF s, k
    <2> QED  BY <1>3, <2>1, <2>3, <2>4, <2>5, <2>6, <2>7, <2>8, <2>9, PairedStep
  <1>5. CASE /\ sockets[s].state = "closing" /\ pcbs' = Freed(pcbs, p)
             /\ sockets' = socket_release(sockets, s) /\ UNCHANGED <<parked, woken>>
    <2>1. sockets' = [sockets EXCEPT ![s] = FreeSlot]
      BY <1>2, <1>3, <1>5, Release DEF Bound
    <2>2. FreeSlot.state = "unallocated" /\ FreeSlot.queue = <<>> /\ ~Attached(FreeSlot.state)
      BY DEF FreeSlot, Attached
    <2>3. sockets[s].queue = <<>>
      BY <1>2, <1>5 DEF Bound, SlotFacts
    <2>4. SameBacklog(sockets[s], FreeSlot) /\ SleepsOn(parked[s], FreeSlot, FreePcb.full)
      BY <1>5, <2>2, <2>3 DEF SameBacklog, Queueable, Unclaimed, SleepsOn
    <2>5. /\ parked' = [parked EXCEPT ![s] = parked[s]] /\ parked[s] \in SUBSET CallName
          /\ woken' \in [Slot -> SUBSET CallName] /\ pcbs' = [pcbs EXCEPT ![p] = FreePcb]
      BY <1>3, <1>5 DEF SocketsInv, SocketsTypeOK, Freed
    <2> HIDE DEF s
    <2> QED  BY <1>3, <2>1, <2>2, <2>4, <2>5, FreshTypes, PairedStep
  <1> QED  BY <1>4, <1>5 DEF RecvFin

LEMMA SentStep ==
    ASSUME SocketsInv, UNCHANGED program, NEW p \in Pcb, socket_sent_callback(p)
    PROVE  SocketsInv'
  <1> DEFINE s == pcbs[p].arg
             c == [pcbs[p] EXCEPT !.full = FALSE]
             k == parked[s] \ {"send"}
             r == sockets[s]
  <1>1. /\ pcbs[p].full /\ pcbs' = [pcbs EXCEPT ![p] = c] /\ socket_wake(s, {"send"})
        /\ UNCHANGED sockets
    BY DEF socket_sent_callback, SocketsInv, SocketsTypeOK
  <1>2. pcbs[p].kind # "free"
    BY <1>1 DEF SocketsInv, PcbShape, FreePcb
  <1>3. Bound(s, p)
    BY <1>2, LivePcb
  <1>4. c \in PcbType /\ c.kind = pcbs[p].kind /\ c.arg = s /\ c.given = pcbs[p].given /\ c.full = FALSE
    BY <1>3 DEF Bound, PcbType
  <1>5. s \in Slot /\ (\A x \in Pcb : pcbs[x].arg = s => x = p) /\ pcbs[p].arg \in {s, None} /\ r \in SlotType
    BY <1>3 DEF Bound
  <1>6. Fits(r, c) /\ r.tpcb = p /\ SlotFacts(r)
    BY <1>3, <1>4 DEF Bound, Fits
  <1>7. SleepsOn(k, r, c.full) /\ ("accept" \in k => r.state = "listening")
    BY <1>3, <1>4 DEF Bound, SleepsOn
  <1>8. SameBacklog(sockets[s], r) /\ sockets' = [sockets EXCEPT ![s] = r]
    BY <1>1, <1>5 DEF SameBacklog, SocketsInv, SocketsTypeOK
  <1>9. /\ parked' = [parked EXCEPT ![s] = k]
        /\ k \in SUBSET CallName /\ woken' \in [Slot -> SUBSET CallName]
    BY <1>1, <1>5, Wakes
  <1> HIDE DEF s, c, k, r
  <1> QED  BY <1>1, <1>2, <1>4, <1>5, <1>6, <1>7, <1>8, <1>9, PairedStep, ZenonT(40)

LEMMA ConnectedStep ==
    ASSUME SocketsInv, UNCHANGED program, NEW p \in Pcb, socket_connected(p)
    PROVE  SocketsInv'
  <1> DEFINE s == pcbs[p].arg
             c == [pcbs[p] EXCEPT !.kind = "connected"]
             k == parked[s] \ {"connect"}
             r == [sockets[s] EXCEPT !.state = "connected"]
  <1>1. /\ pcbs[p].kind = "connecting" /\ pcbs' = [pcbs EXCEPT ![p] = c]
        /\ socket_wake(s, {"connect"}) /\ sockets' = socket_set_state(sockets, s, "connected")
    BY DEF socket_connected, SocketsInv, SocketsTypeOK
  <1>2. Bound(s, p)
    BY <1>1, LivePcb
  <1>3. sockets[s].state = "connecting" /\ pcbs[p].given = 0 /\ sockets[s].len = 0 /\ sockets[s].read = 0
    BY <1>1, <1>2 DEF Bound, Fits, SlotFacts
  <1>4. c \in PcbType /\ c.kind = "connected" /\ c.arg = s /\ c.given = 0 /\ c.full = pcbs[p].full
    BY <1>2, <1>3 DEF Bound, PcbType, Kinds
  <1>5. s \in Slot /\ (\A x \in Pcb : pcbs[x].arg = s => x = p) /\ pcbs[p].arg \in {s, None}
    BY <1>2 DEF Bound
  <1>6. sockets' = [sockets EXCEPT ![s] = r] /\ r \in SlotType
    <2>1. "connected" \in States /\ tcp_state_transition_allowed(sockets[s].state, "connected")
      BY <1>3, Edges DEF States
    <2> HIDE DEF s
    <2> QED  BY <1>1, <1>5, <2>1, Moves
  <1>7. /\ r.state = "connected" /\ r.tpcb = p /\ r.queue = sockets[s].queue /\ r.refs = sockets[s].refs
        /\ r.odd = sockets[s].odd /\ r.read = 0 /\ r.len = 0
    BY <1>2, <1>3 DEF Bound, SlotType
  <1> HIDE DEF r, c
  <1>8. Fits(r, c)
    BY <1>4, <1>7 DEF Fits, RingHolds
  <1>9. SlotFacts(r)
    BY <1>2, <1>3, <1>7 DEF Bound, SlotFacts
  <1>10. SleepsOn(k, r, c.full) /\ ("accept" \in k => r.state = "listening")
    BY <1>2, <1>3, <1>4, <1>7 DEF Bound, SleepsOn
  <1>11. SameBacklog(sockets[s], r)
    BY <1>2, <1>3, <1>7 DEF Bound, SlotFacts, SlotType, SameBacklog, Queueable, Unclaimed
  <1>12. /\ parked' = [parked EXCEPT ![s] = k]
         /\ k \in SUBSET CallName /\ woken' \in [Slot -> SUBSET CallName]
    BY <1>1, <1>5, Wakes
  <1> HIDE DEF s, k
  <1> QED  BY <1>1, <1>4, <1>5, <1>6, <1>7, <1>8, <1>9, <1>10, <1>11, <1>12, PairedStep

-----------------------------------------------------------------------------
(* The calls.                                                               *)
LEMMA LeastOf ==
    ASSUME NEW S \in SUBSET Nat, S # {}
    PROVE  Min(S) \in S
  <1>1. \E x \in S : \A y \in S : ~(<<y, x>> \in OpToRel(<, Nat))
    BY NatLessThanWellFounded, WFMin, Zenon
  <1>2. PICK x \in S : \A y \in S : ~(<<y, x>> \in OpToRel(<, Nat))
    BY <1>1
  <1>3. \A y \in S : x <= y
    <2> SUFFICES ASSUME NEW y \in S, y < x PROVE FALSE
      OBVIOUS
    <2>1. <<y, x>> \in OpToRel(<, Nat)
      BY DEF OpToRel
    <2> QED  BY <1>2, <2>1
  <1> QED  BY <1>3, Zenon DEF Min

(* The slot an allocation finds is known to no PCB.                         *)
LEMMA Allocates ==
    ASSUME SocketsInv, NEW s, s = socket_allocate(sockets), s # None
    PROVE  /\ s \in Slot /\ sockets[s] \in SlotType /\ SlotFacts(sockets[s])
           /\ sockets[s].state = "unallocated" /\ sockets[s].queue = <<>> /\ sockets[s].refs = 0
           /\ \A x \in Pcb : pcbs[x].arg # s
  <1> DEFINE free == {t \in 1 .. program.slots : sockets[t].state = "unallocated"}
  <1>1. program.slots \in 0 .. MaxSockets /\ MaxSockets \in Nat
    BY SocketsAssumption DEF SocketsInv, SocketsTypeOK
  <1>2. free \in SUBSET Nat
    BY <1>1
  <1>3. free # {} /\ s = Min(free)
    BY DEF socket_allocate
  <1>4. s \in free
    BY <1>2, <1>3, LeastOf
  <1>5. s \in Slot /\ sockets[s].state = "unallocated"
    BY <1>1, <1>4 DEF Slot
  <1>6. sockets[s] \in SlotType /\ Here(s)
    BY <1>5 DEF SocketsInv, SocketsTypeOK
  <1>7. SlotFacts(sockets[s]) /\ sockets[s].queue = <<>> /\ sockets[s].refs = 0
    BY <1>5, <1>6 DEF Here, SlotFacts
  <1>8. ASSUME NEW x \in Pcb, pcbs[x].arg = s
        PROVE  FALSE
    <2>1. pcbs[x].kind # "free"
      BY <1>5, <1>8, SocketsAssumption DEF SocketsInv, PcbShape, FreePcb
    <2>2. Bound(s, x)
      BY <1>8, <2>1, LivePcb
    <2> QED  BY <1>5, <2>2 DEF Bound
  <1> QED  BY <1>5, <1>6, <1>7, <1>8

LEMMA FreePcbArg ==
    ASSUME SocketsInv, NEW p \in Pcb, pcbs[p].kind = "free"
    PROVE  pcbs[p] = FreePcb /\ pcbs[p].arg = None
  <1>1. pcbs[p] = FreePcb
    BY DEF SocketsInv, PcbShape
  <1> QED  BY <1>1 DEF FreePcb

LEMMA InitStep ==
    ASSUME SocketsInv, UNCHANGED program, tcp_socket_init
    PROVE  SocketsInv'
  <1> DEFINE s == socket_allocate(sockets)
  <1>1. s # None /\ parked' = [parked EXCEPT ![s] = {}] /\ UNCHANGED woken
    BY DEF tcp_socket_init
  <1>2. PICK p \in Pcb :
          /\ pcbs[p].kind = "free"
          /\ pcbs' = [pcbs EXCEPT ![p] = [FreePcb EXCEPT !.kind = "idle", !.arg = s]]
          /\ sockets' = [socket_set_state(sockets, s, "allocated") EXCEPT ![s].tpcb = p, ![s].refs = 1]
    BY DEF tcp_socket_init
  <1> HIDE DEF s
  <1>3. /\ s \in Slot /\ sockets[s] \in SlotType /\ SlotFacts(sockets[s])
        /\ sockets[s].state = "unallocated" /\ sockets[s].queue = <<>> /\ sockets[s].refs = 0
        /\ \A x \in Pcb : pcbs[x].arg # s
    BY <1>1, Allocates DEF s
  <1> DEFINE r == [sockets[s] EXCEPT !.state = "allocated", !.tpcb = p, !.refs = 1]
             c == [FreePcb EXCEPT !.kind = "idle", !.arg = s]
  <1>4. sockets' = [sockets EXCEPT ![s] = r]
    <2>1. "allocated" \in States /\ tcp_state_transition_allowed(sockets[s].state, "allocated")
      BY <1>3, Edges DEF States
    <2>2. socket_set_state(sockets, s, "allocated") = [sockets EXCEPT ![s] = [sockets[s] EXCEPT !.state = "allocated"]]
      BY <1>3, <2>1, Moves
    <2>3. sockets \in [Slot -> SlotType]
      BY DEF SocketsInv, SocketsTypeOK
    <2> QED  BY <1>2, <1>3, <2>2, <2>3 DEF SlotType
  <1>5. /\ r \in SlotType /\ r.state = "allocated" /\ r.tpcb = p /\ r.refs = 1 /\ r.queue = <<>>
        /\ r.len = sockets[s].len /\ r.read = sockets[s].read /\ r.odd = sockets[s].odd
    BY <1>3 DEF SlotType, States
  <1>6. c \in PcbType /\ c.kind = "idle" /\ c.arg = s /\ c.given = 0
    BY <1>3 DEF PcbType, FreePcb, Kinds
  <1> HIDE DEF r
  <1>7. SlotFacts(r)
    BY <1>3, <1>5 DEF SlotFacts
  <1>8. Fits(r, c) /\ SleepsOn({}, r, c.full) /\ SameBacklog(sockets[s], r)
    <2> HIDE DEF c
    <2> QED  BY <1>3, <1>5, <1>6 DEF Fits, SleepsOn, SameBacklog, Queueable, Unclaimed
  <1>9. pcbs[p].arg \in {s, None}
    BY <1>2, FreePcbArg
  <1>10. woken' \in [Slot -> SUBSET CallName] /\ {} \in SUBSET CallName
    BY <1>1 DEF SocketsInv, SocketsTypeOK
  <1>11. pcbs' = [pcbs EXCEPT ![p] = c]
    BY <1>2
  <1> DEFINE k == {}
  <1>12. /\ c.kind # "free" /\ "accept" \notin k
         /\ \A x \in Pcb : pcbs[x].arg = s => x = p
    BY <1>3, <1>6
  <1>13. /\ parked' = [parked EXCEPT ![s] = k] /\ k \in SUBSET CallName /\ SleepsOn(k, r, c.full)
         /\ woken' \in [Slot -> SUBSET CallName] /\ Fits(r, c) /\ SameBacklog(sockets[s], r)
    BY <1>1, <1>8, <1>10
  <1>14. s \in Slot /\ r \in SlotType /\ r.tpcb = p /\ c \in PcbType /\ c.arg = s
    BY <1>3, <1>5, <1>6
  <1> HIDE DEF c, k
  <1> QED  BY <1>4, <1>7, <1>9, <1>11, <1>12, <1>13, <1>14, PairedStep

LEMMA InitFailsStep ==
    ASSUME SocketsInv, UNCHANGED program, InitFails
    PROVE  SocketsInv'
  <1> DEFINE s == socket_allocate(sockets)
             S == socket_set_state(sockets, s, "allocated")
  <1>1. s # None /\ sockets' = socket_release(S, s) /\ UNCHANGED <<pcbs, parked, woken>>
    BY DEF InitFails
  <1>2. /\ s \in Slot /\ sockets[s] \in SlotType /\ SlotFacts(sockets[s])
        /\ sockets[s].state = "unallocated" /\ sockets[s].queue = <<>> /\ sockets[s].refs = 0
        /\ \A x \in Pcb : pcbs[x].arg # s
    BY <1>1, Allocates
  <1>3. sockets \in [Slot -> SlotType] /\ parked \in [Slot -> SUBSET CallName]
        /\ woken \in [Slot -> SUBSET CallName]
    BY DEF SocketsInv, SocketsTypeOK
  <1> DEFINE r == [sockets[s] EXCEPT !.state = "allocated"]
  <1>4. S = [sockets EXCEPT ![s] = r]
    <2>1. "allocated" \in States /\ tcp_state_transition_allowed(sockets[s].state, "allocated")
      BY <1>2, Edges DEF States
    <2> HIDE DEF s
    <2> QED  BY <1>2, <2>1, Moves
  <1> HIDE DEF s, S
  <1>5. r \in SlotType /\ ~r.odd /\ r.state = "allocated"
    BY <1>2 DEF SlotType, States, SlotFacts
  <1> HIDE DEF r
  <1>6. /\ S \in [Slot -> SlotType] /\ ~S[s].odd /\ S[s].state # "unallocated"
        /\ [S EXCEPT ![s] = FreeSlot] = [sockets EXCEPT ![s] = FreeSlot]
    BY <1>2, <1>3, <1>4, <1>5
  <1>7. sockets' = [sockets EXCEPT ![s] = FreeSlot]
    BY <1>1, <1>2, <1>6, Release
  <1>8. FreeSlot.state = "unallocated" /\ FreeSlot.queue = <<>> /\ FreeSlot.refs = 0
    BY DEF FreeSlot
  <1> DEFINE k == parked[s]
  <1>9. k \in SUBSET CallName /\ parked' = [parked EXCEPT ![s] = k]
        /\ woken' \in [Slot -> SUBSET CallName]
    BY <1>1, <1>2, <1>3
  <1>10. SleepsOn(k, FreeSlot, FALSE) /\ ~Attached(FreeSlot.state) /\ SameBacklog(sockets[s], FreeSlot)
    BY <1>2, <1>8 DEF SleepsOn, Attached, SameBacklog, Queueable, Unclaimed
  <1> HIDE DEF k
  <1> QED  BY <1>1, <1>2, <1>7, <1>9, <1>10, FreshTypes, LoneStep

(* A call on a slot with a reference finds its PCB or an error.             *)
LEMMA Referenced ==
    ASSUME SocketsInv, NEW s \in Slot, sockets[s].refs > 0
    PROVE  \/ Attached(sockets[s].state) /\ Bound(s, sockets[s].tpcb)
           \/ sockets[s].state = "error" /\ \A x \in Pcb : pcbs[x].arg # s
  <1>1. Here(s) /\ sockets[s] \in SlotType
    BY DEF SocketsInv, SocketsTypeOK
  <1>2. sockets[s].state \notin {"unallocated", "closing"}
    BY <1>1 DEF Here, SlotFacts, SlotType
  <1>3. CASE Attached(sockets[s].state)
    BY <1>3, AttachedSlot
  <1>4. CASE ~Attached(sockets[s].state)
    <2>1. sockets[s].state = "error"
      BY <1>2, <1>4 DEF Attached
    <2>2. ASSUME NEW x \in Pcb, pcbs[x].arg = s
          PROVE  FALSE
      <3>1. pcbs[x].kind # "free"
        BY <2>2, SocketsAssumption DEF SocketsInv, PcbShape, FreePcb
      <3>2. Bound(s, x)
        BY <2>2, <3>1, LivePcb
      <3> QED  BY <2>1, <3>2 DEF Bound
    <2> QED  BY <2>1, <2>2
  <1> QED  BY <1>3, <1>4

LEMMA BindStep ==
    ASSUME SocketsInv, UNCHANGED program, NEW s \in Slot, tcp_socket_bind(s)
    PROVE  SocketsInv'
  <1> DEFINE p == sockets[s].tpcb
             r == [sockets[s] EXCEPT !.state = "bound"]
             k == parked[s]
             c == pcbs[p]
  <1>1. /\ sockets[s].state = "allocated" /\ UNCHANGED <<pcbs, parked, woken>>
        /\ sockets' = socket_set_state(sockets, s, "bound")
    BY DEF tcp_socket_bind, tcp_bind_allowed
  <1>2. Bound(s, p)
    BY <1>1, AttachedSlot DEF Attached
  <1>3. /\ (\A x \in Pcb : pcbs[x].arg = s => x = p) /\ pcbs[p].arg \in {s, None}
        /\ p \in Pcb /\ c \in PcbType /\ c.kind # "free" /\ c.arg = s
    BY <1>2 DEF Bound
  <1>4. sockets' = [sockets EXCEPT ![s] = r] /\ r \in SlotType
    BY <1>1, Moves, Edges DEF States
  <1>5. /\ r.state = "bound" /\ r.tpcb = p /\ r.queue = sockets[s].queue /\ r.refs = sockets[s].refs
        /\ r.odd = sockets[s].odd /\ r.read = sockets[s].read /\ r.len = sockets[s].len
    BY <1>2 DEF Bound, SlotType
  <1> HIDE DEF r
  <1>6. Fits(r, c)
    BY <1>1, <1>2, <1>5 DEF Bound, Fits
  <1>7. SlotFacts(r)
    BY <1>1, <1>2, <1>5 DEF Bound, SlotFacts
  <1>8. SleepsOn(k, r, c.full) /\ ("accept" \in k => r.state = "listening")
    BY <1>1, <1>2, <1>5 DEF Bound, SleepsOn
  <1>9. SameBacklog(sockets[s], r)
    BY <1>1, <1>5 DEF SameBacklog, Queueable, Unclaimed
  <1>10. /\ parked' = [parked EXCEPT ![s] = k] /\ k \in SUBSET CallName
         /\ woken' \in [Slot -> SUBSET CallName] /\ pcbs' = [pcbs EXCEPT ![p] = c]
    BY <1>1, <1>3 DEF SocketsInv, SocketsTypeOK
  <1> HIDE DEF p, k, c
  <1> QED  BY <1>3, <1>4, <1>5, <1>6, <1>7, <1>8, <1>9, <1>10, PairedStep

LEMMA ListenStep ==
    ASSUME SocketsInv, UNCHANGED program, NEW s \in Slot, tcp_socket_listen(s)
    PROVE  SocketsInv'
  <1> DEFINE p == sockets[s].tpcb
             r == [sockets[s] EXCEPT !.state = "listening"]
             k == parked[s]
             c == [pcbs[p] EXCEPT !.kind = "listen"]
  <1>1. /\ sockets[s].state \in {"allocated", "bound"} /\ UNCHANGED <<parked, woken>>
        /\ sockets' = socket_set_state(sockets, s, "listening")
    BY DEF tcp_socket_listen, tcp_listen_allowed
  <1>2. Bound(s, p)
    BY <1>1, AttachedSlot DEF Attached
  <1>3. /\ (\A x \in Pcb : pcbs[x].arg = s => x = p) /\ pcbs[p].arg \in {s, None}
        /\ p \in Pcb /\ c \in PcbType /\ c.kind = "listen" /\ c.arg = s
    BY <1>2 DEF Bound, PcbType, Kinds
  <1>4. sockets' = [sockets EXCEPT ![s] = r] /\ r \in SlotType
    BY <1>1, Moves, Edges DEF States
  <1>5. /\ r.state = "listening" /\ r.tpcb = p /\ r.queue = sockets[s].queue /\ r.refs = sockets[s].refs
        /\ r.odd = sockets[s].odd /\ r.read = sockets[s].read /\ r.len = sockets[s].len
    BY <1>2 DEF Bound, SlotType
  <1>6. /\ parked' = [parked EXCEPT ![s] = k] /\ k \in SUBSET CallName
        /\ woken' \in [Slot -> SUBSET CallName] /\ pcbs' = [pcbs EXCEPT ![p] = c]
    BY <1>1, <1>3 DEF SocketsInv, SocketsTypeOK, tcp_socket_listen
  <1> HIDE DEF r, c
  <1>7. Fits(r, c)
    BY <1>3, <1>5 DEF Fits
  <1>8. SlotFacts(r)
    BY <1>1, <1>2, <1>5 DEF Bound, SlotFacts
  <1>9. SleepsOn(k, r, c.full) /\ ("accept" \in k => r.state = "listening")
    BY <1>1, <1>2, <1>5 DEF Bound, SleepsOn
  <1>10. SameBacklog(sockets[s], r)
    BY <1>1, <1>5 DEF SameBacklog, Queueable, Unclaimed
  <1>11. c.kind # "free"
    BY <1>3
  <1> HIDE DEF p, k
  <1> QED  BY <1>3, <1>4, <1>5, <1>6, <1>7, <1>8, <1>9, <1>10, <1>11, PairedStep

LEMMA RunsTypes ==
    ASSUME SocketsInv, NEW s \in Slot, NEW call \in CallName, Runs(s, call)
    PROVE  woken' \in [Slot -> SUBSET CallName]
  BY DEF Runs, SocketsInv, SocketsTypeOK

LEMMA ParksTypes ==
    ASSUME SocketsInv, NEW s \in Slot, NEW call \in CallName, Parks(s, call)
    PROVE  /\ parked' = [parked EXCEPT ![s] = parked[s] \cup {call}]
           /\ parked[s] \cup {call} \in SUBSET CallName
  BY DEF Parks, SocketsInv, SocketsTypeOK

(* A call that changes neither slots nor PCBs nor sleepers.                 *)
LEMMA QuietStep ==
    ASSUME SocketsInv, UNCHANGED <<program, sockets, pcbs, parked>>,
           woken' \in [Slot -> SUBSET CallName]
    PROVE  SocketsInv'
  <1>1. SocketsTypeOK' /\ PcbShape' /\ Backlog'
    BY DEF SocketsInv, SocketsTypeOK, PcbShape, Backlog
  <1>2. ASSUME NEW t \in Slot
        PROVE  Here(t)'
    BY Elsewhere DEF SocketsInv
  <1> QED  BY <1>1, <1>2 DEF SocketsInv

(* A call that goes to sleep while what it waits for is not there.          *)
LEMMA ParkStep ==
    ASSUME SocketsInv, UNCHANGED <<program, sockets, pcbs>>, woken' \in [Slot -> SUBSET CallName],
           NEW s \in Slot, NEW call \in CallName, Parks(s, call),
           SleepsOn({call}, sockets[s], pcbs[sockets[s].tpcb].full),
           call = "accept" => sockets[s].state = "listening"
    PROVE  SocketsInv'
  <1> DEFINE k == parked[s] \cup {call}
  <1>1. parked' = [parked EXCEPT ![s] = k] /\ k \in SUBSET CallName
    BY ParksTypes
  <1>2. SleepsOn(k, sockets[s], pcbs[sockets[s].tpcb].full)
    <2>1. SleepsOn(parked[s], sockets[s], pcbs[sockets[s].tpcb].full)
      BY DEF SocketsInv, Here
    <2> QED  BY <2>1 DEF SleepsOn
  <1>3. "accept" \in k => "accept" \in parked[s] \/ sockets[s].state = "listening"
    OBVIOUS
  <1> HIDE DEF k
  <1> QED  BY <1>1, <1>2, <1>3, CallsStep

LEMMA ConnectStep ==
    ASSUME SocketsInv, UNCHANGED program, NEW s \in Slot, NEW nonblock \in BOOLEAN,
           tcp_socket_connect(s, nonblock)
    PROVE  SocketsInv'
  <1>1. CASE /\ tcp_connect_gate(sockets[s].state) = "start"
             /\ sockets' = socket_set_state(sockets, s, "connecting")
             /\ pcbs' = [pcbs EXCEPT ![sockets[s].tpcb].kind = "connecting"]
             /\ IF nonblock THEN UNCHANGED parked ELSE Parks(s, "connect")
             /\ UNCHANGED woken
    <2> DEFINE p == sockets[s].tpcb
               r == [sockets[s] EXCEPT !.state = "connecting"]
               c == [pcbs[p] EXCEPT !.kind = "connecting"]
               k == IF nonblock THEN parked[s] ELSE parked[s] \cup {"connect"}
    <2>1. sockets[s].state \in {"allocated", "bound"}
      BY <1>1 DEF tcp_connect_gate
    <2>2. Bound(s, p)
      BY <2>1, AttachedSlot DEF Attached
    <2>3. /\ (\A x \in Pcb : pcbs[x].arg = s => x = p) /\ pcbs[p].arg \in {s, None}
          /\ p \in Pcb /\ c \in PcbType /\ c.kind = "connecting" /\ c.arg = s /\ c.given = pcbs[p].given
      BY <2>2 DEF Bound, PcbType, Kinds
    <2>4. sockets' = [sockets EXCEPT ![s] = r] /\ r \in SlotType
      BY <1>1, <2>1, Moves, Edges DEF States
    <2>5. /\ r.state = "connecting" /\ r.tpcb = p /\ r.queue = sockets[s].queue /\ r.refs = sockets[s].refs
          /\ r.odd = sockets[s].odd /\ r.read = sockets[s].read /\ r.len = sockets[s].len
      BY <2>2 DEF Bound, SlotType
    <2>6. /\ woken' \in [Slot -> SUBSET CallName] /\ pcbs' = [pcbs EXCEPT ![p] = c]
      BY <1>1, <2>3 DEF SocketsInv, SocketsTypeOK
    <2>7. parked' = [parked EXCEPT ![s] = k] /\ k \in SUBSET CallName
      <3>1. CASE nonblock
        BY <1>1, <3>1 DEF SocketsInv, SocketsTypeOK
      <3>2. CASE ~nonblock
        BY <1>1, <3>2, ParksTypes DEF CallName
      <3> QED  BY <3>1, <3>2
    <2>8. pcbs[p].given = 0
      BY <2>1, <2>2, KindOfState DEF Bound, Fits
    <2> HIDE DEF r, c
    <2>9. Fits(r, c)
      BY <2>3, <2>5, <2>8 DEF Fits
    <2>10. SlotFacts(r)
      BY <2>1, <2>2, <2>5 DEF Bound, SlotFacts
    <2>11. SleepsOn(k, r, c.full) /\ ("accept" \in k => r.state = "listening")
      <3>1. \A call \in k : call \in parked[s] \/ call = "connect"
        OBVIOUS
      <3> HIDE DEF k
      <3> QED  BY <2>1, <2>2, <2>5, <3>1 DEF Bound, SleepsOn
    <2>12. SameBacklog(sockets[s], r)
      BY <2>1, <2>5 DEF SameBacklog, Queueable, Unclaimed
    <2>13. c.kind # "free"
      BY <2>3
    <2> HIDE DEF p, k
    <2> QED  BY <2>3, <2>4, <2>5, <2>6, <2>7, <2>9, <2>10, <2>11, <2>12, <2>13, PairedStep, ZenonT(40)
  <1>2. CASE /\ Runs(s, "connect")
             /\ IF sockets[s].state = "connecting" THEN Parks(s, "connect") ELSE UNCHANGED parked
             /\ UNCHANGED <<sockets, pcbs>>
    <2>1. woken' \in [Slot -> SUBSET CallName] /\ "connect" \in CallName
      BY <1>2, RunsTypes DEF CallName
    <2>2. CASE sockets[s].state = "connecting"
      <3>1. SleepsOn({"connect"}, sockets[s], pcbs[sockets[s].tpcb].full)
        BY <2>2 DEF SleepsOn
      <3> QED  BY <1>2, <2>1, <2>2, <3>1, ParkStep
    <2>3. CASE sockets[s].state # "connecting"
      BY <1>2, <2>1, <2>3, QuietStep
    <2> QED  BY <2>2, <2>3
  <1> QED  BY <1>1, <1>2 DEF tcp_socket_connect

LEMMA RecvStep ==
    ASSUME SocketsInv, UNCHANGED program, NEW s \in Slot, NEW n \in 1 .. BufSize,
           NEW nonblock \in BOOLEAN, tcp_socket_recv(s, n, nonblock)
    PROVE  SocketsInv'
  <1> DEFINE slot == sockets[s]
             gate == tcp_recv_gate(slot.state, slot.len # 0, nonblock)
             out == CopyOutPass(CopyOutPass([head |-> slot.head, len |-> slot.len,
                                             left |-> n, copied |-> 0]))
  <1>1. woken' \in [Slot -> SUBSET CallName] /\ UNCHANGED pcbs /\ "recv" \in CallName
    BY RunsTypes DEF tcp_socket_recv, CallName
  <1>2. CASE /\ gate = "copy" /\ UNCHANGED parked
             /\ sockets' = [sockets EXCEPT ![s].head = out.head, ![s].len = out.len,
                                           ![s].read = @ + out.copied]
    <2> DEFINE p == slot.tpcb
               r == [slot EXCEPT !.head = out.head, !.len = out.len, !.read = slot.read + out.copied]
               c == pcbs[p]
               k == parked[s]
    <2>1. slot.state \in {"connected", "closed_by_peer"} /\ slot.len # 0
      BY <1>2 DEF tcp_recv_gate
    <2>2. Bound(s, p)
      BY <2>1, AttachedSlot DEF Attached
    <2>3. /\ (\A x \in Pcb : pcbs[x].arg = s => x = p) /\ pcbs[p].arg \in {s, None} /\ slot \in SlotType
          /\ p \in Pcb /\ c \in PcbType /\ c.kind # "free" /\ c.arg = s /\ c.given \in Nat
      BY <2>2 DEF Bound, PcbType
    <2>4. c.kind = "connected" /\ RingHolds(slot, c.given)
      BY <2>1, <2>2, KindOfState DEF Bound, Fits
    <2>5. /\ out.head \in 0 .. BufSize - 1 /\ out.len \in 0 .. BufSize /\ slot.read + out.copied \in Nat
          /\ RingHolds(r, c.given)
      <3> HIDE DEF slot, c
      <3> QED  BY <2>3, <2>4, CopiedOut
    <2>6. sockets' = [sockets EXCEPT ![s] = r]
      BY <1>2 DEF SocketsInv, SocketsTypeOK
    <2> HIDE DEF out
    <2>7. /\ r \in SlotType /\ r.state = slot.state /\ r.tpcb = p /\ r.queue = slot.queue
          /\ r.refs = slot.refs /\ r.odd = slot.odd
      BY <2>3, <2>5 DEF SlotType
    <2>8. /\ woken' \in [Slot -> SUBSET CallName] /\ pcbs' = [pcbs EXCEPT ![p] = c]
          /\ parked' = [parked EXCEPT ![s] = k] /\ k \in SUBSET CallName
      BY <1>1, <1>2, <2>3 DEF SocketsInv, SocketsTypeOK
    <2> HIDE DEF r
    <2>9. Fits(r, c)
      BY <2>1, <2>4, <2>5, <2>7 DEF Fits
    <2>10. SlotFacts(r)
      BY <2>1, <2>2, <2>7 DEF Bound, SlotFacts
    <2>11. SleepsOn(k, r, c.full) /\ ("accept" \in k => r.state = "listening")
      BY <2>1, <2>2, <2>7 DEF Bound, SleepsOn
    <2>12. SameBacklog(sockets[s], r)
      BY <2>1, <2>7 DEF SameBacklog, Queueable, Unclaimed
    <2> HIDE DEF p, k, c, slot
    <2> QED  BY <2>3, <2>6, <2>7, <2>8, <2>9, <2>10, <2>11, <2>12, PairedStep, ZenonT(40)
  <1>3. CASE gate = "block" /\ Parks(s, "recv") /\ UNCHANGED sockets
    <2>1. slot.state = "connected" /\ slot.len = 0
      <3>1. gate # "copy" /\ gate # "not_connected" /\ gate # "eof"
        BY <1>3
      <3>2. slot.state \in {"connected", "closed_by_peer"}
        BY <3>1 DEF tcp_recv_gate
      <3> QED  BY <3>1, <3>2 DEF tcp_recv_gate
    <2>2. SleepsOn({"recv"}, sockets[s], pcbs[sockets[s].tpcb].full)
      BY <2>1 DEF SleepsOn
    <2> QED  BY <1>1, <1>3, <2>2, ParkStep
  <1>4. CASE UNCHANGED <<sockets, parked>>
    BY <1>1, <1>4, QuietStep
  <1> QED  BY <1>2, <1>3, <1>4 DEF tcp_socket_recv

LEMMA WriteStep ==
    ASSUME SocketsInv, UNCHANGED program, NEW s \in Slot, NEW nonblock \in BOOLEAN,
           tcp_socket_write(s, nonblock)
    PROVE  SocketsInv'
  <1> DEFINE p == sockets[s].tpcb
  <1>1. woken' \in [Slot -> SUBSET CallName] /\ UNCHANGED sockets /\ "send" \in CallName
    BY RunsTypes DEF tcp_socket_write, CallName
  <1>2. CASE UNCHANGED <<pcbs, parked>>
    BY <1>1, <1>2, QuietStep
  <1>3. CASE /\ tcp_write_gate(sockets[s].state) = "send"
             /\ pcbs[p].full /\ Parks(s, "send") /\ UNCHANGED pcbs
    <2>1. sockets[s].state \in {"connected", "closed_by_peer"}
      BY <1>3 DEF tcp_write_gate
    <2>2. SleepsOn({"send"}, sockets[s], pcbs[sockets[s].tpcb].full)
      BY <1>3, <2>1 DEF SleepsOn
    <2> QED  BY <1>1, <1>3, <2>2, ParkStep
  <1>4. ASSUME tcp_write_gate(sockets[s].state) = "send", ~pcbs[p].full, UNCHANGED parked,
               NEW full \in BOOLEAN, pcbs' = [pcbs EXCEPT ![p].full = full]
        PROVE  SocketsInv'
    <2> DEFINE r == sockets[s]
               c == [pcbs[p] EXCEPT !.full = full]
               k == parked[s]
    <2>1. r.state \in {"connected", "closed_by_peer"}
      BY <1>4 DEF tcp_write_gate
    <2>2. Bound(s, p)
      BY <2>1, AttachedSlot DEF Attached
    <2>3. /\ (\A x \in Pcb : pcbs[x].arg = s => x = p) /\ pcbs[p].arg \in {s, None} /\ r \in SlotType
          /\ p \in Pcb /\ c \in PcbType /\ c.kind = pcbs[p].kind /\ c.kind # "free" /\ c.arg = s
          /\ c.given = pcbs[p].given /\ r.tpcb = p
      BY <2>2 DEF Bound, PcbType
    <2>4. /\ sockets' = [sockets EXCEPT ![s] = r] /\ pcbs' = [pcbs EXCEPT ![p] = c]
          /\ parked' = [parked EXCEPT ![s] = k] /\ k \in SUBSET CallName
      BY <1>1, <1>4, <2>3 DEF SocketsInv, SocketsTypeOK
    <2> HIDE DEF c
    <2>5. Fits(r, c) /\ SlotFacts(r)
      BY <2>2, <2>3 DEF Bound, Fits
    <2>6. SleepsOn(k, r, c.full) /\ ("accept" \in k => r.state = "listening")
      BY <1>4, <2>1, <2>2 DEF Bound, SleepsOn
    <2>7. SameBacklog(sockets[s], r)
      BY DEF SameBacklog
    <2> HIDE DEF p, k, r
    <2> QED  BY <1>1, <2>3, <2>4, <2>5, <2>6, <2>7, PairedStep, ZenonT(40)
  <1> QED  BY <1>2, <1>3, <1>4 DEF tcp_socket_write

(* A change of the reference count that leaves a reference.                 *)
SetRefs(s, refs) ==
    /\ sockets' = [sockets EXCEPT ![s] = [sockets[s] EXCEPT !.refs = refs]]
    /\ UNCHANGED <<program, pcbs, parked, woken>>

LEMMA RefsStep ==
    ASSUME SocketsInv, NEW s \in Slot, NEW refs \in Nat, refs > 0, sockets[s].refs > 0,
           SetRefs(s, refs)
    PROVE  SocketsInv'
  <1> DEFINE r == [sockets[s] EXCEPT !.refs = refs]
             p == sockets[s].tpcb
             c == pcbs[p]
             k == parked[s]
  <1>1. /\ sockets[s] \in SlotType /\ Here(s) /\ k \in SUBSET CallName /\ woken' \in [Slot -> SUBSET CallName]
        /\ parked' = [parked EXCEPT ![s] = k]
    BY DEF SocketsInv, SocketsTypeOK, SetRefs
  <1>2. /\ r \in SlotType /\ r.state = sockets[s].state /\ r.tpcb = p /\ r.refs = refs
        /\ r.queue = sockets[s].queue /\ r.len = sockets[s].len /\ r.read = sockets[s].read
        /\ r.head = sockets[s].head /\ r.buf = sockets[s].buf /\ r.odd = sockets[s].odd
    BY <1>1 DEF SlotType
  <1> HIDE DEF r
  <1>3. SlotFacts(r)
    BY <1>1, <1>2 DEF Here, SlotFacts, SlotType
  <1>4. SameBacklog(sockets[s], r)
    BY <1>1, <1>2 DEF SameBacklog, Queueable, Unclaimed, SlotType
  <1>5. CASE Attached(sockets[s].state) /\ Bound(s, p)
    <2>1. /\ (\A x \in Pcb : pcbs[x].arg = s => x = p) /\ pcbs[p].arg \in {s, None}
          /\ p \in Pcb /\ c \in PcbType /\ c.kind # "free" /\ c.arg = s
      BY <1>5 DEF Bound
    <2>2. pcbs' = [pcbs EXCEPT ![p] = c]
      BY <2>1 DEF SocketsInv, SocketsTypeOK, SetRefs
    <2>3. Fits(r, c)
      BY <1>2, <1>5 DEF Bound, Fits, RingHolds
    <2>4. SleepsOn(k, r, c.full) /\ ("accept" \in k => r.state = "listening")
      BY <1>2, <1>5 DEF Bound, SleepsOn
    <2>5. sockets' = [sockets EXCEPT ![s] = r]
      BY DEF r, SetRefs
    <2>6. UNCHANGED program /\ r \in SlotType /\ r.tpcb = p
      BY <1>2 DEF SetRefs
    <2>7. k \in SUBSET CallName /\ woken' \in [Slot -> SUBSET CallName] /\ parked' = [parked EXCEPT ![s] = k]
      BY <1>1
    <2> HIDE DEF p, k, c
    <2> QED  BY <1>3, <1>4, <2>1, <2>2, <2>3, <2>4, <2>5, <2>6, <2>7, PairedStep, ZenonT(40)
  <1>6. CASE sockets[s].state = "error" /\ \A x \in Pcb : pcbs[x].arg # s
    <2>1. SleepsOn(k, r, FALSE) /\ ~Attached(r.state)
      BY <1>1, <1>2, <1>6 DEF Here, SleepsOn, Attached
    <2>2. sockets' = [sockets EXCEPT ![s] = r]
      BY DEF r, SetRefs
    <2>3. UNCHANGED <<program, pcbs>>
      BY DEF SetRefs
    <2> HIDE DEF k
    <2> QED  BY <2>3, <1>1, <1>2, <1>3, <1>4, <1>6, <2>1, <2>2, LoneStep
  <1> QED  BY <1>5, <1>6, Referenced

LEMMA DupStep ==
    ASSUME SocketsInv, UNCHANGED program, NEW s \in Slot, tcp_socket_dup(s)
    PROVE  SocketsInv'
  <1>1. sockets[s] \in SlotType
    BY DEF SocketsInv, SocketsTypeOK
  <1>2. /\ sockets[s].refs > 0 /\ sockets[s].refs \in Nat
        /\ sockets[s].refs + 1 \in Nat /\ sockets[s].refs + 1 > 0
    BY <1>1 DEF tcp_socket_dup, Makes, SlotType
  <1>3. sockets' = [sockets EXCEPT ![s] = [sockets[s] EXCEPT !.refs = sockets[s].refs + 1]]
    BY DEF tcp_socket_dup, SocketsInv, SocketsTypeOK
  <1>4. SetRefs(s, sockets[s].refs + 1)
    BY <1>3 DEF tcp_socket_dup, SetRefs
  <1> QED  BY <1>2, <1>4, RefsStep

(* An accept takes the first connection of its backlog.                     *)
LEMMA TakeStep ==
    ASSUME SocketsInv, NEW s \in Slot, sockets[s].queue # <<>>,
           UNCHANGED <<program, pcbs, parked>>, woken' \in [Slot -> SUBSET CallName],
           sockets' = [sockets EXCEPT ![s].queue = Tail(@), ![Head(sockets[s].queue)].refs = 1]
    PROVE  SocketsInv'
  <1> DEFINE queue == sockets[s].queue
  <1>1. sockets \in [Slot -> SlotType] /\ sockets[s] \in SlotType /\ Here(s)
    BY DEF SocketsInv, SocketsTypeOK
  <1>2. queue \in Seq(Slot) /\ queue # <<>> /\ sockets[s].state = "listening" /\ Len(queue) < BacklogCap
    BY <1>1 DEF SlotType, Here, SlotFacts
  <1>3. /\ Tail(queue) \in Seq(Slot) /\ Len(queue) \in Nat /\ Len(queue) > 0
        /\ Len(Tail(queue)) = Len(queue) - 1 /\ DOMAIN queue = 1 .. Len(queue)
        /\ DOMAIN Tail(queue) = 1 .. Len(queue) - 1
        /\ \A i \in DOMAIN Tail(queue) : Tail(queue)[i] = queue[i + 1]
        /\ Head(queue) = queue[1] /\ 1 \in DOMAIN queue /\ queue[1] \in Slot
    BY <1>2
  <1>4. PICK h \in Slot : h = Head(queue) /\ h = queue[1]
    BY <1>3
  <1>5. sockets[h].refs = 0 /\ sockets[h].state \in {"connected", "closed_by_peer", "error"}
    BY <1>3, <1>4 DEF SocketsInv, Backlog
  <1>6. h # s
    BY <1>2, <1>5
  <1> DEFINE a == [sockets[s] EXCEPT !.queue = Tail(queue)]
             b == [sockets[h] EXCEPT !.refs = 1]
  <1>7. /\ sockets'[s] = a /\ sockets'[h] = b
        /\ \A t \in Slot : t # s /\ t # h => sockets'[t] = sockets[t]
        /\ sockets' \in [Slot -> SlotType]
    <2>1. sockets' = [[sockets EXCEPT ![s] = a] EXCEPT ![h] = b]
      BY <1>1, <1>4, <1>6
    <2>2. a \in SlotType /\ b \in SlotType
      BY <1>1, <1>3, <1>4 DEF SlotType
    <2> HIDE DEF a, b
    <2> QED  BY <1>1, <1>4, <1>6, <2>1, <2>2, ZenonT(40)
  <1>8. /\ a.state = "listening" /\ a.tpcb = sockets[s].tpcb /\ a.refs = sockets[s].refs /\ a.odd = sockets[s].odd
        /\ a.queue = Tail(queue)
    BY <1>1, <1>2 DEF SlotType
  <1>9. /\ b.state = sockets[h].state /\ b.tpcb = sockets[h].tpcb /\ b.refs = 1 /\ b.odd = sockets[h].odd
        /\ b.queue = sockets[h].queue /\ b.read = sockets[h].read /\ b.len = sockets[h].len
        /\ b.buf = sockets[h].buf /\ b.head = sockets[h].head
    BY <1>1, <1>4 DEF SlotType
  <1> HIDE DEF a, b
  <1>10. Here(s)'
    <2>1. SlotFacts(a)
      <3>1. Len(Tail(queue)) < BacklogCap
        BY <1>2, <1>3, SocketsAssumption
      <3> QED  BY <1>1, <1>2, <1>8, <3>1 DEF Here, SlotFacts
    <2>2. ASSUME NEW p \in Pcb, pcbs[p].arg = s
          PROVE  a.tpcb = p /\ Fits(a, pcbs[p])
      BY <1>1, <1>2, <1>8, <2>2 DEF Here, Fits
    <2>3. SleepsOn(parked[s], a, pcbs[a.tpcb].full)
      BY <1>1, <1>2, <1>8 DEF Here, SleepsOn
    <2>4. Attached(a.state) => a.tpcb \in Pcb /\ pcbs[a.tpcb].arg = s
      BY <1>1, <1>2, <1>8 DEF Here
    <2> QED  BY <1>7, <1>8, <2>1, <2>2, <2>3, <2>4 DEF Here
  <1>11. Here(h)'
    <2>0. Here(h)
      BY <1>4 DEF SocketsInv
    <2>1. SlotFacts(b)
      BY <1>5, <1>9, <2>0 DEF Here, SlotFacts
    <2>2. ASSUME NEW p \in Pcb, pcbs[p].arg = h
          PROVE  /\ b.tpcb = p /\ Fits(b, pcbs[p])
                 /\ "accept" \in parked[h] => b.state = "listening"
      BY <1>9, <2>0, <2>2 DEF Here, Fits, RingHolds
    <2>3. SleepsOn(parked[h], b, pcbs[b.tpcb].full)
      BY <1>9, <2>0 DEF Here, SleepsOn
    <2>4. Attached(b.state) => b.tpcb \in Pcb /\ pcbs[b.tpcb].arg = h
      BY <1>9, <2>0 DEF Here
    <2> QED  BY <1>7, <2>1, <2>2, <2>3, <2>4 DEF Here
  <1>12. ASSUME NEW t \in Slot, t # s, t # h
         PROVE  Here(t)'
    BY <1>7, <1>12, Elsewhere DEF SocketsInv
  <1>13. Backlog'
    <2>1. /\ \A l \in Slot : l # s => sockets'[l].queue = sockets[l].queue
          /\ sockets'[s].queue = Tail(queue)
      BY <1>7, <1>8, <1>9
    <2> DEFINE Was(l, i) == IF l = s THEN i + 1 ELSE i
    <2>2. ASSUME NEW l \in Slot, NEW i \in DOMAIN sockets'[l].queue
          PROVE  /\ Was(l, i) \in DOMAIN sockets[l].queue
                 /\ sockets'[l].queue[i] = sockets[l].queue[Was(l, i)]
                 /\ sockets[l].queue[Was(l, i)] # h
                 /\ l = s => i \in Nat
      <3>1. CASE l = s
        <4>1. i \in DOMAIN Tail(queue)
          BY <2>1, <3>1
        <4>2. i \in Nat /\ i + 1 \in DOMAIN queue /\ i + 1 # 1
          BY <1>3, <4>1
        <4>3. sockets'[s].queue[i] = queue[i + 1]
          BY <1>3, <2>1, <4>1
        <4>4. queue[i + 1] # queue[1]
          BY <1>3, <4>2 DEF SocketsInv, Backlog
        <4> QED  BY <1>4, <3>1, <4>2, <4>3, <4>4
      <3>2. CASE l # s
        <4>1. i \in DOMAIN sockets[l].queue /\ sockets'[l].queue = sockets[l].queue
          BY <2>1, <3>2
        <4>2. sockets[l].queue[i] # queue[1]
          BY <1>3, <3>2, <4>1, SMTT(30) DEF SocketsInv, Backlog
        <4> QED  BY <1>4, <3>2, <4>1, <4>2
      <3> QED  BY <3>1, <3>2
    <2> HIDE DEF Was
    <2>3. \A l \in Slot : \A i \in DOMAIN sockets'[l].queue :
            /\ sockets'[sockets'[l].queue[i]].refs = 0
            /\ sockets'[sockets'[l].queue[i]].state \in {"connected", "closed_by_peer", "error"}
      <3> SUFFICES ASSUME NEW l \in Slot, NEW i \in DOMAIN sockets'[l].queue
                   PROVE  /\ sockets'[sockets'[l].queue[i]].refs = 0
                          /\ sockets'[sockets'[l].queue[i]].state \in {"connected", "closed_by_peer", "error"}
        OBVIOUS
      <3> DEFINE j == Was(l, i)
                 q == sockets[l].queue[j]
      <3>1. j \in DOMAIN sockets[l].queue /\ sockets'[l].queue[i] = q /\ q # h
        BY <2>2
      <3> HIDE DEF j
      <3>2. q \in Slot /\ sockets[q].refs = 0 /\ sockets[q].state \in {"connected", "closed_by_peer", "error"}
        <4>1. sockets[l].queue \in Seq(Slot)
          BY <1>1 DEF SlotType
        <4>2. q \in Slot
          BY <3>1, <4>1
        <4> QED  BY <3>1, <4>2, ZenonT(40) DEF SocketsInv, Backlog
      <3>3. q # s /\ q # h
        BY <1>2, <3>1, <3>2
      <3> HIDE DEF q
      <3>4. sockets'[q] = sockets[q]
        BY <1>7, <3>2, <3>3
      <3> QED  BY <3>1, <3>2, <3>4 DEF q
    <2>4. \A l, m \in Slot : \A i \in DOMAIN sockets'[l].queue, j \in DOMAIN sockets'[m].queue :
            sockets'[l].queue[i] = sockets'[m].queue[j] => l = m /\ i = j
      <3> SUFFICES ASSUME NEW l \in Slot, NEW m \in Slot, NEW i \in DOMAIN sockets'[l].queue,
                          NEW j \in DOMAIN sockets'[m].queue, sockets'[l].queue[i] = sockets'[m].queue[j]
                   PROVE  l = m /\ i = j
        OBVIOUS
      <3> DEFINE u == Was(l, i)
                 v == Was(m, j)
      <3>1. u \in DOMAIN sockets[l].queue /\ sockets'[l].queue[i] = sockets[l].queue[u] /\ (l = s => i \in Nat)
        BY <2>2
      <3>2. v \in DOMAIN sockets[m].queue /\ sockets'[m].queue[j] = sockets[m].queue[v] /\ (m = s => j \in Nat)
        BY <2>2
      <3> HIDE DEF u, v
      <3>3. l = m /\ u = v
        <4>1. sockets[l].queue[u] = sockets[m].queue[v]
          BY <3>1, <3>2
        <4>2. \A x, y \in Slot : \A e \in DOMAIN sockets[x].queue, f \in DOMAIN sockets[y].queue :
                sockets[x].queue[e] = sockets[y].queue[f] => x = y /\ e = f
          BY DEF SocketsInv, Backlog
        <4> QED  BY <3>1, <3>2, <4>1, <4>2, SMTT(30)
      <3> QED  BY <3>1, <3>2, <3>3, SMTT(30) DEF u, v, Was
    <2>5. \A t \in Slot : sockets'[t].state \in {"connected", "closed_by_peer"} /\ sockets'[t].refs = 0 =>
            \E l \in Slot : \E i \in DOMAIN sockets'[l].queue : sockets'[l].queue[i] = t
      <3> SUFFICES ASSUME NEW t \in Slot, sockets'[t].state \in {"connected", "closed_by_peer"},
                          sockets'[t].refs = 0
                   PROVE  \E l \in Slot : \E i \in DOMAIN sockets'[l].queue : sockets'[l].queue[i] = t
        OBVIOUS
      <3>1. t # h /\ t # s /\ sockets'[t] = sockets[t]
        BY <1>7, <1>8, <1>9
      <3>2. PICK l \in Slot : \E i \in DOMAIN sockets[l].queue : sockets[l].queue[i] = t
        BY <3>1 DEF SocketsInv, Backlog
      <3>3. PICK i \in DOMAIN sockets[l].queue : sockets[l].queue[i] = t
        BY <3>2
      <3>4. CASE l # s
        BY <2>1, <3>3, <3>4
      <3>5. CASE l = s
        <4>1. i # 1 /\ i \in 1 .. Len(queue)
          BY <1>3, <1>4, <3>1, <3>3, <3>5
        <4>2. i - 1 \in DOMAIN Tail(queue) /\ (i - 1) + 1 = i
          BY <1>3, <4>1
        <4>3. Tail(queue)[i - 1] = t
          BY <1>3, <3>3, <3>5, <4>2
        <4> QED  BY <2>1, <4>2, <4>3
      <3> QED  BY <3>4, <3>5
    <2> QED  BY <2>3, <2>4, <2>5 DEF Backlog
  <1>14. SocketsTypeOK' /\ PcbShape'
    BY <1>7 DEF SocketsInv, SocketsTypeOK, PcbShape
  <1> QED  BY <1>10, <1>11, <1>12, <1>13, <1>14 DEF SocketsInv

LEMMA AcceptStep ==
    ASSUME SocketsInv, UNCHANGED program, NEW s \in Slot, NEW nonblock \in BOOLEAN,
           tcp_socket_accept(s, nonblock)
    PROVE  SocketsInv'
  <1>1. /\ woken' \in [Slot -> SUBSET CallName] /\ UNCHANGED pcbs /\ "accept" \in CallName
        /\ Runs(s, "accept")
    BY RunsTypes DEF tcp_socket_accept, CallName
  <1>2. CASE /\ sockets[s].queue # <<>> /\ UNCHANGED parked
             /\ sockets' = [sockets EXCEPT ![s].queue = Tail(@), ![Head(sockets[s].queue)].refs = 1]
    BY <1>1, <1>2, TakeStep
  <1>3. CASE UNCHANGED <<sockets, parked>>
    BY <1>1, <1>3, QuietStep
  <1>4. CASE sockets[s].queue = <<>> /\ "accept" \notin woken[s] /\ Parks(s, "accept") /\ UNCHANGED sockets
    <2>1. sockets[s].state = "listening"
      BY <1>4 DEF tcp_socket_accept, tcp_accept_allowed
    <2>2. SleepsOn({"accept"}, sockets[s], pcbs[sockets[s].tpcb].full)
      BY <1>4, <2>1 DEF SleepsOn
    <2> QED  BY <1>1, <1>4, <2>1, <2>2, ParkStep
  <1> QED  BY <1>2, <1>3, <1>4 DEF tcp_socket_accept

(* A new connection: the slot n and the PCB p it gets, and the queue and    *)
(* the sleepers of the listening slot l. When the queue is full the         *)
(* connection is refused and n is free again.                               *)
LEMMA ArrivalStep ==
    ASSUME SocketsInv, UNCHANGED program, NEW l \in Pcb, tcp_socket_accept_cb(l)
    PROVE  SocketsInv'
  <1>1. PICK s \in Slot : s = pcbs[l].arg /\ Bound(s, l)
    BY LivePcb DEF tcp_socket_accept_cb, Bound
  <1>2. PICK n \in Slot :
          /\ n = socket_allocate(sockets) /\ n # None
          /\ sockets[n] \in SlotType /\ SlotFacts(sockets[n])
          /\ sockets[n].state = "unallocated" /\ sockets[n].queue = <<>> /\ sockets[n].refs = 0
          /\ \A x \in Pcb : pcbs[x].arg # n
    BY Allocates DEF tcp_socket_accept_cb
  <1>3. sockets[s].state = "listening" /\ n # s
    BY <1>1, <1>2 DEF tcp_socket_accept_cb, tcp_accept_allowed
  <1> DEFINE wired(p) == [socket_set_state(socket_set_state(sockets, n, "allocated"), n, "connected")
                            EXCEPT ![n].tpcb = p]
             queue == sockets[s].queue
             w == IF "accept" \in parked[s] THEN {"accept"} ELSE {}
  <1>4. PICK p \in Pcb :
          /\ pcbs[p].kind = "free"
          /\ IF Len(queue) < BacklogCap - 1
             THEN /\ sockets' = [wired(p) EXCEPT ![s].queue = Append(@, n)]
                  /\ pcbs' = Connected(pcbs, p, n)
             ELSE /\ sockets' = socket_release(wired(p), n)
                  /\ UNCHANGED pcbs
    BY <1>1, <1>2 DEF tcp_socket_accept_cb
  <1>5. /\ parked' = [parked EXCEPT ![n] = {}, ![s] = parked[s] \ w]
        /\ woken' = [woken EXCEPT ![s] = woken[s] \cup w]
    BY <1>1, <1>2, <1>3 DEF tcp_socket_accept_cb
  <1>6. /\ sockets \in [Slot -> SlotType] /\ pcbs \in [Pcb -> PcbType] /\ sockets[s] \in SlotType
        /\ queue \in Seq(Slot) /\ Len(queue) \in Nat
    BY DEF SocketsInv, SocketsTypeOK, SlotType
  <1> DEFINE r == [sockets[n] EXCEPT !.state = "connected", !.tpcb = p]
  <1>7. wired(p) = [sockets EXCEPT ![n] = r]
    <2> DEFINE one == [sockets EXCEPT ![n] = [sockets[n] EXCEPT !.state = "allocated"]]
    <2>1. socket_set_state(sockets, n, "allocated") = one /\ [sockets[n] EXCEPT !.state = "allocated"] \in SlotType
      BY <1>2, Moves, Edges DEF States
    <2>2. one \in [Slot -> SlotType] /\ one[n].state = "allocated" /\ ~one[n].odd
      BY <1>2, <1>6, <2>1 DEF SlotType, SlotFacts
    <2>3. one[n] = [sockets[n] EXCEPT !.state = "allocated"] /\ one = [sockets EXCEPT ![n] = one[n]]
      BY <1>6
    <2> HIDE DEF one
    <2>4. "connected" \in States /\ tcp_state_transition_allowed(one[n].state, "connected")
      BY <2>2, Edges DEF States
    <2>5. socket_set_state(one, n, "connected") = [one EXCEPT ![n] = [one[n] EXCEPT !.state = "connected"]]
      BY <2>2, <2>4, SetState
    <2>6. wired(p) = [one EXCEPT ![n] = [one[n] EXCEPT !.state = "connected", !.tpcb = p]]
      BY <1>2, <2>1, <2>2, <2>5 DEF SlotType
    <2>7. [one[n] EXCEPT !.state = "connected", !.tpcb = p] = r
      BY <1>2, <2>3 DEF SlotType
    <2>8. [one EXCEPT ![n] = r] = [sockets EXCEPT ![n] = r]
      BY <1>6, <2>2, <2>3
    <2> QED  BY <2>6, <2>7, <2>8
  <1>8. /\ r \in SlotType /\ r.state = "connected" /\ r.tpcb = p /\ r.queue = <<>> /\ r.refs = 0
        /\ r.len = 0 /\ r.read = 0 /\ r.odd = sockets[n].odd
    BY <1>2 DEF SlotType, SlotFacts, States

  <1>9. pcbs[p].arg = None /\ FreePcb.arg = None /\ None \notin Slot /\ p # l
    BY <1>1, <1>4, FreePcbArg, SocketsAssumption DEF FreePcb, Bound
  <1>10. /\ \A t \in Slot : t # n /\ t # s => parked'[t] = parked[t]
         /\ parked'[n] = {} /\ parked'[s] = parked[s] \ {"accept"}
         /\ parked' \in [Slot -> SUBSET CallName] /\ woken' \in [Slot -> SUBSET CallName]
    <2>1. parked[s] \ w = parked[s] \ {"accept"} /\ w \subseteq CallName
      BY DEF CallName
    <2> QED  BY <1>3, <1>5, <2>1 DEF SocketsInv, SocketsTypeOK
  <1>11. ASSUME NEW a \in SlotType, sockets'[s] = a, SlotFacts(a),
                a.state = "listening", a.tpcb = sockets[s].tpcb,
                \A x \in Pcb : pcbs[x].arg = s \/ pcbs'[x].arg = s => pcbs'[x] = pcbs[x]
         PROVE  Here(s)'
    <2>1. l \in Pcb /\ pcbs[l].arg = s /\ a.tpcb = l /\ pcbs'[l] = pcbs[l] /\ Fits(sockets[s], pcbs[l])
      BY <1>1, <1>11 DEF Bound
    <2>2. Fits(a, pcbs[l])
      BY <1>3, <1>11, <2>1 DEF Fits
    <2>3. ASSUME NEW x \in Pcb, pcbs'[x].arg = s
          PROVE  a.tpcb = x /\ Fits(a, pcbs'[x])
      <3>1. x = l
        BY <1>1, <1>11, <2>3 DEF Bound
      <3> QED  BY <2>1, <2>2, <3>1
    <2>4. SleepsOn(parked'[s], a, pcbs'[a.tpcb].full)
      BY <1>1, <1>3, <1>10, <1>11 DEF Bound, SleepsOn
    <2> QED  BY <1>11, <2>1, <2>3, <2>4 DEF Here
  <1>12. CASE Len(queue) < BacklogCap - 1
    <2> DEFINE c == [FreePcb EXCEPT !.kind = "connected", !.arg = n]
               a == [sockets[s] EXCEPT !.queue = Append(queue, n)]
    <2>1. pcbs' = [pcbs EXCEPT ![p] = c]
      BY <1>4, <1>12 DEF Connected
    <2>2. c \in PcbType /\ c.kind = "connected" /\ c.arg = n /\ c.given = 0
      BY DEF FreePcb, PcbType, Kinds
    <2>3. /\ Append(queue, n) \in Seq(Slot) /\ Len(Append(queue, n)) = Len(queue) + 1
          /\ DOMAIN Append(queue, n) = 1 .. Len(queue) + 1 /\ DOMAIN queue = 1 .. Len(queue)
          /\ \A i \in DOMAIN queue : Append(queue, n)[i] = queue[i]
          /\ Append(queue, n)[Len(queue) + 1] = n /\ Len(queue) + 1 < BacklogCap
      BY <1>6, <1>12, SocketsAssumption
    <2>4. /\ a \in SlotType /\ a.state = "listening" /\ a.tpcb = sockets[s].tpcb /\ a.refs = sockets[s].refs
          /\ a.odd = sockets[s].odd /\ a.queue = Append(queue, n)
      BY <1>3, <1>6, <2>3 DEF SlotType
    <2>5. sockets' = [[sockets EXCEPT ![n] = r] EXCEPT ![s] = a]
      <3>1. sockets' = [[sockets EXCEPT ![n] = r] EXCEPT ![s].queue = Append(@, n)]
        BY <1>4, <1>7, <1>12
      <3> HIDE DEF r
      <3> QED  BY <1>3, <1>6, <3>1
    <2> HIDE DEF a, c, r
    <2>6. /\ sockets'[n] = r /\ sockets'[s] = a /\ sockets' \in [Slot -> SlotType]
          /\ \A t \in Slot : t # n /\ t # s => sockets'[t] = sockets[t]
      BY <1>3, <1>6, <1>8, <2>4, <2>5
    <2>7. /\ \A x \in Pcb : x # p => pcbs'[x] = pcbs[x]
          /\ pcbs'[p] = c /\ pcbs' \in [Pcb -> PcbType]
      BY <1>6, <2>1, <2>2
    <2>8. PcbShape'
      BY <2>2, <2>7 DEF SocketsInv, PcbShape
    <2>9. ASSUME NEW t \in Slot, t # n, NEW x \in Pcb, pcbs[x].arg = t \/ pcbs'[x].arg = t
          PROVE  pcbs'[x] = pcbs[x]
      BY <1>9, <2>2, <2>7, <2>9
    <2>10. Here(s)'
      <3>1. SlotFacts(a)
        BY <1>1, <1>3, <2>3, <2>4 DEF Bound, SlotFacts
      <3> QED  BY <1>3, <1>11, <2>4, <2>6, <2>9, <3>1
    <2>11. Here(n)'
      <3>1. SlotFacts(r)
        BY <1>2, <1>8 DEF SlotFacts
      <3>2. ASSUME NEW x \in Pcb, pcbs'[x].arg = n
            PROVE  r.tpcb = x /\ Fits(r, pcbs'[x])
        <4>1. x = p
          BY <1>2, <2>7, <3>2
        <4>2. Fits(r, c)
          BY <1>8, <2>2 DEF Fits, RingHolds
        <4> QED  BY <1>8, <2>7, <4>1, <4>2
      <3>3. SleepsOn(parked'[n], r, pcbs'[r.tpcb].full)
        BY <1>10 DEF SleepsOn
      <3> QED  BY <1>8, <1>10, <2>2, <2>6, <2>7, <3>1, <3>2, <3>3 DEF Here
    <2>12. ASSUME NEW t \in Slot, t # n, t # s
           PROVE  Here(t)'
      BY <1>10, <2>6, <2>9, <2>12, Elsewhere DEF SocketsInv
    <2>13. Backlog'
      <3>1. /\ \A m \in Slot : m # s => sockets'[m].queue = sockets[m].queue
            /\ sockets'[s].queue = Append(queue, n)
        BY <1>2, <1>8, <2>4, <2>6
      <3>2. ASSUME NEW m \in Slot, NEW i \in DOMAIN sockets'[m].queue
            PROVE  \/ /\ i \in DOMAIN sockets[m].queue /\ sockets'[m].queue[i] = sockets[m].queue[i]
                      /\ sockets[m].queue[i] # n
                   \/ m = s /\ i = Len(queue) + 1 /\ sockets'[m].queue[i] = n
        <4>0. \A e \in DOMAIN sockets[m].queue : sockets[m].queue[e] # n
          BY <1>2 DEF SocketsInv, Backlog
        <4>1. CASE m = s
          <5>1. i \in 1 .. Len(queue) + 1
            BY <2>3, <3>1, <4>1
          <5>2. i \in DOMAIN queue \/ i = Len(queue) + 1
            BY <1>6, <2>3, <5>1
          <5> QED  BY <2>3, <3>1, <4>0, <4>1, <5>2
        <4>2. CASE m # s
          BY <3>1, <4>0, <4>2
        <4> QED  BY <4>1, <4>2
      <3>3. \A m \in Slot : \A i \in DOMAIN sockets'[m].queue :
              /\ sockets'[sockets'[m].queue[i]].refs = 0
              /\ sockets'[sockets'[m].queue[i]].state \in {"connected", "closed_by_peer", "error"}
        <4> SUFFICES ASSUME NEW m \in Slot, NEW i \in DOMAIN sockets'[m].queue
                     PROVE  /\ sockets'[sockets'[m].queue[i]].refs = 0
                            /\ sockets'[sockets'[m].queue[i]].state \in {"connected", "closed_by_peer", "error"}
          OBVIOUS
        <4>1. CASE sockets'[m].queue[i] = n
          BY <1>8, <2>6, <4>1
        <4>2. CASE sockets'[m].queue[i] # n
          <5> DEFINE q == sockets[m].queue[i]
          <5>1. i \in DOMAIN sockets[m].queue /\ sockets'[m].queue[i] = q /\ q # n
            BY <3>2, <4>2
          <5>2. sockets[m].queue \in Seq(Slot)
            BY <1>6 DEF SlotType
          <5>3. q \in Slot
            BY <5>1, <5>2
          <5>4. sockets[q].refs = 0 /\ sockets[q].state \in {"connected", "closed_by_peer", "error"}
            BY <5>1 DEF SocketsInv, Backlog
          <5> HIDE DEF q
          <5>5. q # s /\ sockets'[q] = sockets[q]
            BY <1>3, <2>6, <5>1, <5>3, <5>4
          <5> QED  BY <5>1, <5>4, <5>5
        <4> QED  BY <4>1, <4>2
      <3>4. \A m, o \in Slot : \A i \in DOMAIN sockets'[m].queue, j \in DOMAIN sockets'[o].queue :
              sockets'[m].queue[i] = sockets'[o].queue[j] => m = o /\ i = j
        <4> SUFFICES ASSUME NEW m \in Slot, NEW o \in Slot, NEW i \in DOMAIN sockets'[m].queue,
                            NEW j \in DOMAIN sockets'[o].queue, sockets'[m].queue[i] = sockets'[o].queue[j]
                     PROVE  m = o /\ i = j
          OBVIOUS
        <4>1. \A x, y \in Slot : \A e \in DOMAIN sockets[x].queue, f \in DOMAIN sockets[y].queue :
                sockets[x].queue[e] = sockets[y].queue[f] => x = y /\ e = f
          BY DEF SocketsInv, Backlog
        <4>2. CASE sockets'[m].queue[i] = n
          <5>1. m = s /\ i = Len(queue) + 1
            BY <3>2, <4>2
          <5>2. o = s /\ j = Len(queue) + 1
            BY <3>2, <4>2
          <5> QED  BY <5>1, <5>2
        <4>3. CASE sockets'[m].queue[i] # n
          <5>1. i \in DOMAIN sockets[m].queue /\ sockets'[m].queue[i] = sockets[m].queue[i]
            BY <3>2, <4>3
          <5>2. j \in DOMAIN sockets[o].queue /\ sockets'[o].queue[j] = sockets[o].queue[j]
            BY <3>2, <4>3
          <5>3. sockets[m].queue[i] = sockets[o].queue[j]
            BY <5>1, <5>2
          <5> QED  BY <4>1, <5>1, <5>2, <5>3
        <4> QED  BY <4>2, <4>3
      <3>5. \A t \in Slot : sockets'[t].state \in {"connected", "closed_by_peer"} /\ sockets'[t].refs = 0 =>
              \E m \in Slot : \E i \in DOMAIN sockets'[m].queue : sockets'[m].queue[i] = t
        <4> SUFFICES ASSUME NEW t \in Slot, sockets'[t].state \in {"connected", "closed_by_peer"},
                            sockets'[t].refs = 0
                     PROVE  \E m \in Slot : \E i \in DOMAIN sockets'[m].queue : sockets'[m].queue[i] = t
          OBVIOUS
        <4>1. CASE t = n
          <5>1. Len(queue) + 1 \in DOMAIN sockets'[s].queue /\ sockets'[s].queue[Len(queue) + 1] = n
            BY <1>6, <2>3, <3>1
          <5> QED  BY <4>1, <5>1
        <4>2. CASE t # n
          <5>1. t # s /\ sockets'[t] = sockets[t]
            BY <2>4, <2>6, <4>2
          <5>2. PICK m \in Slot : \E i \in DOMAIN sockets[m].queue : sockets[m].queue[i] = t
            BY <5>1 DEF SocketsInv, Backlog
          <5>3. PICK i \in DOMAIN sockets[m].queue : sockets[m].queue[i] = t
            BY <5>2
          <5>4. i \in DOMAIN sockets'[m].queue /\ sockets'[m].queue[i] = t
            <6>1. CASE m = s
              <7>1. i \in 1 .. Len(queue) + 1
                BY <1>6, <2>3, <5>3, <6>1
              <7> QED  BY <2>3, <3>1, <5>3, <6>1, <7>1
            <6>2. CASE m # s
              BY <3>1, <5>3, <6>2
            <6> QED  BY <6>1, <6>2
          <5> QED  BY <5>4
        <4> QED  BY <4>1, <4>2
      <3> QED  BY <3>3, <3>4, <3>5 DEF Backlog
    <2>14. SocketsTypeOK'
      BY <1>10, <2>6, <2>7 DEF SocketsInv, SocketsTypeOK
    <2> QED  BY <2>8, <2>10, <2>11, <2>12, <2>13, <2>14 DEF SocketsInv
  <1>13. CASE ~(Len(queue) < BacklogCap - 1)
    <2>1. sockets' = [sockets EXCEPT ![n] = FreeSlot] /\ UNCHANGED pcbs
      <3> DEFINE S == [sockets EXCEPT ![n] = r]
      <3>1. sockets' = socket_release(S, n) /\ UNCHANGED pcbs
        BY <1>4, <1>7, <1>13
      <3>2. S \in [Slot -> SlotType] /\ S[n] = r
        BY <1>6, <1>8
      <3>3. ~S[n].odd /\ S[n].state # "unallocated"
        BY <1>2, <1>8, <3>2 DEF SlotFacts
      <3> HIDE DEF S
      <3>4. socket_release(S, n) = [S EXCEPT ![n] = FreeSlot]
        BY <3>2, <3>3, Release
      <3>5. [S EXCEPT ![n] = FreeSlot] = [sockets EXCEPT ![n] = FreeSlot]
        BY <1>6 DEF S
      <3> QED  BY <3>1, <3>4, <3>5
    <2>2. /\ sockets'[n] = FreeSlot /\ sockets' \in [Slot -> SlotType]
          /\ \A t \in Slot : t # n => sockets'[t] = sockets[t]
      BY <1>6, <2>1, FreshTypes
    <2>3. Here(s)'
      BY <1>1, <1>3, <1>11, <2>1, <2>2 DEF Bound
    <2>4. Here(n)'
      <3>1. FreeSlot.state = "unallocated"
        BY DEF FreeSlot
      <3>2. SleepsOn(parked'[n], FreeSlot, pcbs'[FreeSlot.tpcb].full) /\ ~Attached(FreeSlot.state)
        BY <3>1 DEF SleepsOn, Attached
      <3> QED  BY <1>2, <2>1, <2>2, <3>2, FreshTypes DEF Here
    <2>5. ASSUME NEW t \in Slot, t # n, t # s
          PROVE  Here(t)'
      BY <1>10, <2>1, <2>2, <2>5, Elsewhere DEF SocketsInv
    <2>6. Backlog'
      <3>1. SameBacklog(sockets[n], FreeSlot)
        BY <1>2 DEF SameBacklog, Queueable, Unclaimed, FreeSlot
      <3>2. \A t \in Slot : SameBacklog(sockets[t], sockets'[t])
        BY <2>2, <3>1 DEF SameBacklog
      <3> QED  BY <1>6, <3>2, BacklogKept DEF SocketsInv
    <2>7. SocketsTypeOK' /\ PcbShape'
      BY <1>10, <2>1, <2>2 DEF SocketsInv, SocketsTypeOK, PcbShape
    <2> QED  BY <2>3, <2>4, <2>5, <2>6, <2>7 DEF SocketsInv
  <1> QED  BY <1>12, <1>13

(* The last close of a listening slot s with the PCB p: the connections in  *)
(* pending go with it, and s is left as a.                                  *)
Drained(s, p, a, pending) ==
    /\ sockets' = [t \in Slot |-> IF t = s THEN a ELSE IF t \in pending THEN FreeSlot ELSE sockets[t]]
    /\ pcbs' = [x \in Pcb |-> IF x = p \/ \E q \in pending : sockets[q].tpcb = x
                               THEN FreePcb ELSE pcbs[x]]

(* What a listening slot takes with it was its own and nobody else's.       *)
LEMMA DrainStep ==
    ASSUME SocketsInv, UNCHANGED <<program, parked, woken>>, NEW s \in Slot, NEW p \in Pcb,
           Bound(s, p), sockets[s].state = "listening",
           NEW pending, pending = Range(sockets[s].queue), NEW a \in SlotType,
           a = [sockets[s] EXCEPT !.state = "closing", !.refs = 0, !.queue = <<>>],
           Drained(s, p, a, pending)
    PROVE  SocketsInv'
  <1> USE DEF Drained
  <1> DEFINE queue == sockets[s].queue
  <1>1. sockets \in [Slot -> SlotType] /\ pcbs \in [Pcb -> PcbType] /\ queue \in Seq(Slot)
    BY DEF SocketsInv, SocketsTypeOK, SlotType
  <1>2. \A t : t \in pending <=> \E i \in DOMAIN queue : queue[i] = t
    BY DEF Range
  <1>3. \A q \in pending : /\ q \in Slot /\ q # s /\ sockets[q].refs = 0
                           /\ sockets[q].state \in {"connected", "closed_by_peer", "error"}
    <2> SUFFICES ASSUME NEW q \in pending
                 PROVE  /\ q \in Slot /\ q # s /\ sockets[q].refs = 0
                        /\ sockets[q].state \in {"connected", "closed_by_peer", "error"}
      OBVIOUS
    <2>1. PICK i \in DOMAIN queue : queue[i] = q
      BY <1>2
    <2>2. q \in Slot
      BY <1>1, <2>1
    <2>3. sockets[q].refs = 0 /\ sockets[q].state \in {"connected", "closed_by_peer", "error"}
      BY <2>1 DEF SocketsInv, Backlog
    <2> QED  BY <2>2, <2>3
  <1>4. /\ sockets'[s] = a /\ \A q \in pending : sockets'[q] = FreeSlot
        /\ \A t \in Slot : t # s /\ t \notin pending => sockets'[t] = sockets[t]
        /\ sockets' \in [Slot -> SlotType]
    BY <1>1, <1>3, FreshTypes
  <1>5. /\ a.state = "closing" /\ a.refs = 0 /\ a.queue = <<>> /\ a.odd = sockets[s].odd
    BY <1>1 DEF SlotType
  <1>6. None \notin Slot /\ None \notin Pcb /\ FreePcb.arg = None /\ FreePcb.kind = "free"
    BY SocketsAssumption DEF FreePcb
  (* The PCB of a pending connection is its own.                            *)
  <1>7. ASSUME NEW q \in pending, sockets[q].tpcb \in Pcb
        PROVE  pcbs[sockets[q].tpcb].arg = q
    <2>1. q \in Slot /\ Here(q) /\ sockets[q].state \in {"connected", "closed_by_peer", "error"}
      BY <1>3 DEF SocketsInv
    <2>2. sockets[q].state # "error"
      BY <1>6, <1>7, <2>1 DEF Here, SlotFacts
    <2> QED  BY <2>1, <2>2 DEF Here, Attached
  <1>8. ASSUME NEW x \in Pcb
        PROVE  \/ pcbs'[x] = pcbs[x] /\ pcbs[x].arg # s /\ pcbs[x].arg \notin pending
               \/ pcbs'[x] = FreePcb /\ (pcbs[x].arg = s \/ pcbs[x].arg \in pending)
    <2>1. CASE x = p
      BY <2>1 DEF Bound
    <2>2. CASE x # p /\ \E q \in pending : sockets[q].tpcb = x
      <3>1. PICK q \in pending : sockets[q].tpcb = x
        BY <2>2
      <3>2. pcbs[x].arg = q
        BY <1>7, <3>1
      <3> QED  BY <2>2, <3>2
    <2>3. CASE x # p /\ ~\E q \in pending : sockets[q].tpcb = x
      <3>1. pcbs'[x] = pcbs[x] /\ pcbs[x].arg # s
        BY <2>3 DEF Bound
      <3>2. ASSUME pcbs[x].arg \in pending
            PROVE  FALSE
        <4>1. Here(pcbs[x].arg)
          BY <1>3, <3>2 DEF SocketsInv
        <4>2. sockets[pcbs[x].arg].tpcb = x
          BY <4>1 DEF Here
        <4> QED  BY <2>3, <3>2, <4>2
      <3> QED  BY <3>1, <3>2
    <2> QED  BY <2>1, <2>2, <2>3
  <1>9. SocketsTypeOK'
    <2>1. pcbs' \in [Pcb -> PcbType]
      BY <1>1, FreshTypes
    <2> QED  BY <1>4, <2>1 DEF SocketsInv, SocketsTypeOK
  <1>10. PcbShape'
    <2> SUFFICES ASSUME NEW x \in Pcb
                 PROVE  IF pcbs'[x].kind = "free" THEN pcbs'[x] = FreePcb ELSE pcbs'[x].arg \in Slot
      BY DEF PcbShape
    <2>1. pcbs'[x] = pcbs[x] \/ pcbs'[x] = FreePcb
      BY <1>8
    <2> QED  BY <1>6, <2>1 DEF SocketsInv, PcbShape
  <1>11. ASSUME NEW t \in Slot
         PROVE  Here(t)'
    <2>1. CASE t # s /\ t \notin pending
      <3>1. \A x \in Pcb : pcbs[x].arg = t \/ pcbs'[x].arg = t => pcbs'[x] = pcbs[x]
        BY <1>6, <1>8, <2>1
      <3> QED  BY <1>4, <2>1, <3>1, Elsewhere DEF SocketsInv
    <2>2. ASSUME NEW x \in Pcb, t = s \/ t \in pending
          PROVE  pcbs'[x].arg # t
      BY <1>6, <1>8, <2>2
    <2>3. CASE t = s
      <3>1. SlotFacts(a)
        BY <1>5, FreshTypes DEF Bound, SlotFacts, FreeSlot
      <3>2. SleepsOn(parked'[s], a, pcbs'[a.tpcb].full) /\ ~Attached(a.state)
        BY <1>5 DEF SleepsOn, Attached
      <3> QED  BY <1>4, <2>2, <2>3, <3>1, <3>2 DEF Here
    <2>4. CASE t \in pending
      <3>1. FreeSlot.state = "unallocated"
        BY DEF FreeSlot
      <3>2. SleepsOn(parked'[t], FreeSlot, pcbs'[FreeSlot.tpcb].full) /\ ~Attached(FreeSlot.state)
        BY <3>1 DEF SleepsOn, Attached
      <3> QED  BY <1>4, <2>2, <2>4, <3>2, FreshTypes DEF Here
    <2> QED  BY <2>1, <2>3, <2>4
  <1>12. Backlog'
    <2>1. ASSUME NEW l \in Slot, NEW i \in DOMAIN sockets'[l].queue
          PROVE  /\ l # s /\ l \notin pending /\ sockets'[l] = sockets[l]
                 /\ i \in DOMAIN sockets[l].queue
      <3>1. sockets'[l].queue # <<>>
        OBVIOUS
      <3>2. l # s /\ l \notin pending
        BY <1>4, <1>5, <3>1 DEF FreeSlot
      <3>3. sockets'[l] = sockets[l]
        BY <1>4, <3>2
      <3> QED  BY <3>2, <3>3
    <2>2. \A x, y \in Slot : \A e \in DOMAIN sockets[x].queue, f \in DOMAIN sockets[y].queue :
            sockets[x].queue[e] = sockets[y].queue[f] => x = y /\ e = f
      BY DEF SocketsInv, Backlog
    <2>3. \A l \in Slot : \A i \in DOMAIN sockets'[l].queue :
            /\ sockets'[sockets'[l].queue[i]].refs = 0
            /\ sockets'[sockets'[l].queue[i]].state \in {"connected", "closed_by_peer", "error"}
      <3> SUFFICES ASSUME NEW l \in Slot, NEW i \in DOMAIN sockets'[l].queue
                   PROVE  /\ sockets'[sockets'[l].queue[i]].refs = 0
                          /\ sockets'[sockets'[l].queue[i]].state \in {"connected", "closed_by_peer", "error"}
        OBVIOUS
      <3> DEFINE q == sockets[l].queue[i]
      <3>1. l # s /\ sockets'[l] = sockets[l] /\ i \in DOMAIN sockets[l].queue
        BY <2>1
      <3>2. sockets[l].queue \in Seq(Slot)
        BY <1>1 DEF SlotType
      <3>3. q \in Slot /\ sockets'[l].queue[i] = q
        BY <3>1, <3>2
      <3>4. sockets[q].refs = 0 /\ sockets[q].state \in {"connected", "closed_by_peer", "error"}
        BY <3>1 DEF SocketsInv, Backlog
      <3>5. q \notin pending
        BY <1>2, <2>2, <3>1
      <3> HIDE DEF q
      <3>6. sockets'[q] = sockets[q]
        BY <1>4, <3>3, <3>4, <3>5
      <3> QED  BY <3>3, <3>4, <3>6
    <2>4. \A l, m \in Slot : \A i \in DOMAIN sockets'[l].queue, j \in DOMAIN sockets'[m].queue :
            sockets'[l].queue[i] = sockets'[m].queue[j] => l = m /\ i = j
      <3> SUFFICES ASSUME NEW l \in Slot, NEW m \in Slot, NEW i \in DOMAIN sockets'[l].queue,
                          NEW j \in DOMAIN sockets'[m].queue, sockets'[l].queue[i] = sockets'[m].queue[j]
                   PROVE  l = m /\ i = j
        OBVIOUS
      <3>1. sockets'[l] = sockets[l] /\ i \in DOMAIN sockets[l].queue
        BY <2>1
      <3>2. sockets'[m] = sockets[m] /\ j \in DOMAIN sockets[m].queue
        BY <2>1
      <3>3. sockets[l].queue[i] = sockets[m].queue[j]
        BY <3>1, <3>2
      <3> QED  BY <2>2, <3>1, <3>2, <3>3
    <2>5. \A t \in Slot : sockets'[t].state \in {"connected", "closed_by_peer"} /\ sockets'[t].refs = 0 =>
            \E l \in Slot : \E i \in DOMAIN sockets'[l].queue : sockets'[l].queue[i] = t
      <3> SUFFICES ASSUME NEW t \in Slot, sockets'[t].state \in {"connected", "closed_by_peer"},
                          sockets'[t].refs = 0
                   PROVE  \E l \in Slot : \E i \in DOMAIN sockets'[l].queue : sockets'[l].queue[i] = t
        OBVIOUS
      <3>1. t # s /\ t \notin pending /\ sockets'[t] = sockets[t]
        BY <1>4, <1>5 DEF FreeSlot
      <3>2. PICK l \in Slot : \E i \in DOMAIN sockets[l].queue : sockets[l].queue[i] = t
        BY <3>1 DEF SocketsInv, Backlog
      <3>3. PICK i \in DOMAIN sockets[l].queue : sockets[l].queue[i] = t
        BY <3>2
      <3>4. l # s
        BY <1>2, <3>1, <3>3
      <3>5. l \notin pending
        <4>1. sockets[l].queue # <<>>
          BY <3>3
        <4>2. sockets[l].state = "listening"
          BY <4>1 DEF SocketsInv, Here, SlotFacts
        <4> QED  BY <1>3, <4>2
      <3>6. sockets'[l] = sockets[l]
        BY <1>4, <3>4, <3>5
      <3> QED  BY <3>3, <3>6
    <2> QED  BY <2>3, <2>4, <2>5 DEF Backlog
  <1> QED  BY <1>9, <1>10, <1>11, <1>12 DEF SocketsInv

(* What the last close of a slot leaves, by the state it finds.             *)
LEMMA CloseStep ==
    ASSUME SocketsInv, UNCHANGED program, NEW s \in Slot, NEW fails \in BOOLEAN,
           tcp_socket_close(s, fails)
    PROVE  SocketsInv'
  <1> DEFINE refs == sockets[s].refs - 1
             p == sockets[s].tpcb
             g == [sockets[s] EXCEPT !.refs = refs]
             S == [sockets EXCEPT ![s] = g]
             closed == tcp_socket_close_int([S |-> S, P |-> pcbs], s, fails)
             k == parked[s]
  <1>1. /\ sockets \in [Slot -> SlotType] /\ sockets[s] \in SlotType /\ Here(s)
        /\ pcbs \in [Pcb -> PcbType] /\ k \in SUBSET CallName
    BY DEF SocketsInv, SocketsTypeOK
  <1>2. sockets[s].refs > 0 /\ sockets[s].refs \in Nat /\ refs \in Nat
    BY <1>1 DEF tcp_socket_close, Makes, SlotType
  <1>3. /\ g \in SlotType /\ g.state = sockets[s].state /\ g.refs = refs /\ g.tpcb = p /\ g.len = sockets[s].len
        /\ g.queue = sockets[s].queue /\ g.odd = sockets[s].odd
    BY <1>1, <1>2 DEF SlotType
  <1>4. S \in [Slot -> SlotType] /\ S[s] = g /\ [sockets EXCEPT ![s].refs = @ - 1] = S
    BY <1>1, <1>3
  <1>5. /\ IF refs = 0 THEN sockets' = closed.S /\ pcbs' = closed.P
           ELSE sockets' = S /\ UNCHANGED pcbs
        /\ UNCHANGED <<parked, woken>>
    BY <1>3, <1>4 DEF tcp_socket_close
  <1>6. CASE refs # 0
    <2>1. SetRefs(s, refs)
      BY <1>5, <1>6 DEF SetRefs
    <2> HIDE DEF refs
    <2>2. refs > 0
      BY <1>2, <1>6
    <2> QED  BY <1>2, <2>1, <2>2, RefsStep
  <1>7. parked' = [parked EXCEPT ![s] = k] /\ woken' \in [Slot -> SUBSET CallName]
    BY <1>1, <1>5 DEF SocketsInv, SocketsTypeOK
  <1>8. \/ Attached(sockets[s].state) /\ Bound(s, p)
        \/ sockets[s].state = "error" /\ \A x \in Pcb : pcbs[x].arg # s
    BY <1>2, Referenced
  <1>9. ~sockets[s].odd /\ sockets[s].state \in States /\ sockets[s].state \notin {"unallocated", "closing"}
    BY <1>1, <1>2 DEF Here, SlotFacts, SlotType
  <1>10. CASE refs = 0 /\ sockets[s].state = "connected"
    <2> DEFINE r == [g EXCEPT !.state = "closing"]
    <2>1. closed = [S |-> socket_set_state(S, s, "closing"), P |-> tcp_close(pcbs, p, g.len # 0, fails)]
      BY <1>3, <1>4, <1>10 DEF tcp_socket_close_int, tcp_close_action
    <2>2. socket_set_state(S, s, "closing") = [S EXCEPT ![s] = r]
      <3>1. ~S[s].odd /\ "closing" \in States /\ tcp_state_transition_allowed(S[s].state, "closing")
        BY <1>3, <1>4, <1>9, <1>10, Edges DEF States
      <3> HIDE DEF S
      <3> QED  BY <1>4, <3>1, SetState
    <2>3. sockets' = [sockets EXCEPT ![s] = r]
      <3>1. [S EXCEPT ![s] = r] = [sockets EXCEPT ![s] = r]
        BY <1>1
      <3> QED  BY <1>5, <1>10, <2>1, <2>2, <3>1
    <2>4. /\ r \in SlotType /\ r.state = "closing" /\ r.refs = 0 /\ r.tpcb = p
          /\ r.queue = sockets[s].queue /\ r.odd = sockets[s].odd
      BY <1>3, <1>10 DEF SlotType, States
    <2>5. Bound(s, p)
      BY <1>8, <1>10
    <2>6. /\ (\A x \in Pcb : pcbs[x].arg = s => x = p) /\ pcbs[p].arg \in {s, None}
          /\ p \in Pcb /\ pcbs[p] \in PcbType /\ pcbs[p].arg = s /\ pcbs[p].kind = "connected"
      BY <1>10, <2>5, KindOfState DEF Bound
    <2>7. PICK c \in PcbType :
            /\ pcbs' = [pcbs EXCEPT ![p] = c]
            /\ \/ c = FreePcb
               \/ c.kind \in {"connected", "closing"} /\ c.arg = s
      <3>1. pcbs' = tcp_close(pcbs, p, g.len # 0, fails)
        BY <1>5, <1>10, <2>1
      <3>2. CASE pcbs' = Freed(pcbs, p)
        BY <3>2, FreshTypes DEF Freed
      <3>3. CASE pcbs' = pcbs
        <4>1. pcbs' = [pcbs EXCEPT ![p] = pcbs[p]]
          BY <1>1, <2>6, <3>3
        <4> QED  BY <2>6, <4>1
      <3>4. CASE pcbs' = [pcbs EXCEPT ![p].kind = "closing"]
        <4> DEFINE d == [pcbs[p] EXCEPT !.kind = "closing"]
        <4>1. d \in PcbType /\ d.kind = "closing" /\ d.arg = s
          BY <2>6 DEF PcbType, Kinds
        <4>2. pcbs' = [pcbs EXCEPT ![p] = d]
          BY <1>1, <2>6, <3>4
        <4> HIDE DEF d
        <4> QED  BY <4>1, <4>2
      <3> QED  BY <3>1, <3>2, <3>3, <3>4 DEF tcp_close
    <2> HIDE DEF r
    <2>8. SlotFacts(r)
      BY <1>1, <1>10, <2>4 DEF Here, SlotFacts
    <2>9. SleepsOn(k, r, c.full) /\ "accept" \notin k /\ ~Attached(r.state)
      BY <1>10, <2>4, <2>5 DEF SleepsOn, Bound, Attached
    <2>10. SameBacklog(sockets[s], r)
      BY <1>2, <2>4 DEF SameBacklog, Queueable, Unclaimed
    <2>11. c # FreePcb => c.kind # "free" /\ c.arg = s /\ Fits(r, c)
      BY <2>4, <2>7 DEF Fits
    <2>12. \/ c = FreePcb /\ ~Attached(r.state)
           \/ /\ c.kind # "free" /\ c.arg = s /\ r.tpcb = p /\ Fits(r, c)
              /\ "accept" \in k => r.state = "listening"
      BY <2>4, <2>9, <2>11
    <2>13. r \in SlotType /\ k \in SUBSET CallName /\ p \in Pcb /\ SleepsOn(k, r, c.full)
      BY <1>1, <2>4, <2>6, <2>9
    <2>14. pcbs' = [pcbs EXCEPT ![p] = c]
      BY <2>7
    <2>15. (\A x \in Pcb : pcbs[x].arg = s => x = p) /\ pcbs[p].arg \in {s, None}
      BY <2>6
    <2> HIDE DEF p, k
    <2> QED  BY <1>7, <2>3, <2>8, <2>10, <2>12, <2>13, <2>14, <2>15, PairedStep
  <1>11. CASE refs = 0 /\ sockets[s].state = "listening"
    <2> DEFINE st == [S |-> S, P |-> pcbs]
               pending == Range(sockets[s].queue)
               empty == socket_drain_backlog(st, s)
               a == [sockets[s] EXCEPT !.state = "closing", !.refs = 0, !.queue = <<>>]
               b == [g EXCEPT !.queue = <<>>]
    <2>1. Bound(s, p)
      BY <1>8, <1>11 DEF Attached
    <2>2. /\ p \in Pcb /\ pcbs[p].kind = "listen" /\ pcbs[p].arg = s
      BY <1>11, <2>1, KindOfState DEF Bound
    <2>3. closed = [S |-> socket_set_state(empty.S, s, "closing"), P |-> tcp_close(empty.P, p, g.len # 0, fails)]
      BY <1>3, <1>4, <1>11 DEF tcp_socket_close_int, tcp_close_action
    <2>4. \A q \in pending : /\ q \in Slot /\ q # s
                             /\ sockets[q].state \in {"connected", "closed_by_peer", "error"}
      <3> SUFFICES ASSUME NEW q \in pending
                   PROVE  q \in Slot /\ q # s /\ sockets[q].state \in {"connected", "closed_by_peer", "error"}
        OBVIOUS
      <3>1. PICK i \in DOMAIN sockets[s].queue : sockets[s].queue[i] = q
        BY DEF Range
      <3>2. sockets[s].queue \in Seq(Slot)
        BY <1>1 DEF SlotType
      <3>3. q \in Slot
        BY <3>1, <3>2
      <3>4. sockets[q].state \in {"connected", "closed_by_peer", "error"}
        BY <3>1 DEF SocketsInv, Backlog
      <3> QED  BY <1>11, <3>3, <3>4
    <2>5. ASSUME NEW q \in pending
          PROVE  socket_release(S, q)[q] = FreeSlot
      <3>1. q \in Slot /\ S[q] = sockets[q] /\ sockets[q].state # "unallocated"
        BY <1>1, <2>4
      <3>2. ~sockets[q].odd
        BY <3>1 DEF SocketsInv, Here, SlotFacts
      <3> HIDE DEF S
      <3>3. socket_release(S, q) = [S EXCEPT ![q] = FreeSlot]
        BY <1>4, <3>1, <3>2, Release
      <3> QED  BY <1>4, <3>1, <3>3
    <2> DEFINE E == [t \in Slot |-> IF t \in pending THEN FreeSlot ELSE IF t = s THEN b ELSE sockets[t]]
               F == [x \in Pcb |-> IF \E q \in pending : sockets[q].tpcb = x THEN FreePcb ELSE pcbs[x]]
    <2>6. empty.S = E
      <3>1. empty.S = [q \in Slot |-> IF q \in pending THEN socket_release(S, q)[q]
                                      ELSE IF q = s THEN [S[s] EXCEPT !.queue = <<>>] ELSE S[q]]
        BY <1>3, <1>4 DEF socket_drain_backlog
      <3>2. \A q \in Slot : q # s => S[q] = sockets[q]
        BY <1>1
      <3> HIDE DEF S, empty, b
      <3>3. [S[s] EXCEPT !.queue = <<>>] = b
        BY <1>4 DEF b
      <3> HIDE DEF pending, g
      <3>4. \A q \in Slot :
              (IF q \in pending THEN socket_release(S, q)[q]
               ELSE IF q = s THEN [S[s] EXCEPT !.queue = <<>>] ELSE S[q]) = E[q]
        BY <2>5, <3>2, <3>3
      <3> QED  BY <3>1, <3>4
    <2>7. empty.P = F
      <3>1. empty.P = [x \in Pcb |-> IF \E q \in pending : S[q].tpcb = x
                                     THEN socket_close_pcb(pcbs, x)[x] ELSE pcbs[x]]
        BY <1>3, <1>4 DEF socket_drain_backlog
      <3>2. \A x \in Pcb : socket_close_pcb(pcbs, x)[x] = FreePcb
        BY <1>1 DEF socket_close_pcb, Freed
      <3>3. \A q \in pending : S[q] = sockets[q]
        BY <1>1, <2>4
      <3> HIDE DEF S, empty, pending
      <3> QED  BY <3>1, <3>2, <3>3
    <2>8. /\ b \in SlotType /\ b.state = "listening" /\ ~b.odd
          /\ [b EXCEPT !.state = "closing"] = a /\ a \in SlotType
      <3>1. <<>> \in Seq(Slot) /\ "closing" \in States /\ 0 \in Nat
        BY DEF States
      <3>2. a \in SlotType
        BY <1>1, <3>1 DEF SlotType
      <3>3. b = [sockets[s] EXCEPT !.refs = 0, !.queue = <<>>]
        BY <1>1, <1>11 DEF SlotType
      <3>4. [b EXCEPT !.state = "closing"] = a
        BY <1>1, <3>3 DEF SlotType
      <3> HIDE DEF g
      <3>5. b \in SlotType /\ b.state = g.state /\ b.odd = g.odd
        BY <1>3, <3>1 DEF SlotType
      <3> HIDE DEF a, b
      <3> QED  BY <1>3, <1>9, <1>11, <3>2, <3>4, <3>5
    <2>9. sockets' = [t \in Slot |-> IF t = s THEN a ELSE IF t \in pending THEN FreeSlot ELSE sockets[t]]
      <3> HIDE DEF b, a, pending
      <3>1. s \notin pending
        BY <2>4
      <3>2. E \in [Slot -> SlotType] /\ E[s] = b
        BY <1>1, <2>8, <3>1, FreshTypes
      <3>3. ~E[s].odd /\ "closing" \in States /\ tcp_state_transition_allowed(E[s].state, "closing")
        BY <2>8, <3>2, Edges DEF States
      <3> DEFINE G == E
      <3>4. G \in [Slot -> SlotType] /\ G[s] = b /\ ~G[s].odd /\ "closing" \in States
            /\ tcp_state_transition_allowed(G[s].state, "closing")
        BY <3>2, <3>3
      <3> HIDE DEF G
      <3>5. socket_set_state(G, s, "closing") = [G EXCEPT ![s] = a]
        BY <2>8, <3>4, SetState
      <3>6. sockets' = [E EXCEPT ![s] = a]
        BY <1>5, <1>11, <2>3, <2>6, <3>5 DEF G
      <3> QED  BY <3>6
    <2>10. pcbs' = [x \in Pcb |-> IF x = p \/ \E q \in pending : sockets[q].tpcb = x
                                  THEN FreePcb ELSE pcbs[x]]
      <3>1. ~\E q \in pending : sockets[q].tpcb = p
        <4> SUFFICES ASSUME NEW q \in pending, sockets[q].tpcb = p
                     PROVE  FALSE
          OBVIOUS
        <4>1. Here(q) /\ q # s /\ sockets[q].state \in {"connected", "closed_by_peer", "error"}
          BY <2>4 DEF SocketsInv
        <4>2. sockets[q].state # "error"
          BY <2>2, <4>1, SocketsAssumption DEF Here, SlotFacts
        <4>3. pcbs[p].arg = q
          BY <4>1, <4>2 DEF Here, Attached
        <4> QED  BY <2>2, <4>1, <4>3
      <3>2. F[p].kind = "listen"
        BY <2>2, <3>1
      <3>3. pcbs' = tcp_close(empty.P, p, g.len # 0, fails)
        <4> HIDE DEF closed, empty
        <4> QED  BY <1>5, <1>11, <2>3
      <3>4. pcbs' = [F EXCEPT ![p] = FreePcb]
        <4> HIDE DEF empty, F, g
        <4> QED  BY <2>7, <3>2, <3>3 DEF tcp_close, Freed
      <3> QED  BY <2>2, <3>4
    <2>11. UNCHANGED <<program, parked, woken>>
      BY <1>5
    <2>12. sockets[s].state = "listening"
      BY <1>11
    <2>13. Drained(s, p, a, pending)
      BY <2>9, <2>10 DEF Drained
    <2>14. a = [sockets[s] EXCEPT !.state = "closing", !.refs = 0, !.queue = <<>>]
           /\ pending = Range(sockets[s].queue) /\ a \in SlotType /\ p \in Pcb
      BY <2>2, <2>8
    <2> HIDE DEF p, a, pending
    <2> QED  BY <2>1, <2>11, <2>12, <2>13, <2>14, DrainStep
  <1>12. CASE refs = 0 /\ sockets[s].state \notin {"connected", "listening"}
    <2>1. closed = [S |-> socket_release(S, s), P |-> IF p = None THEN pcbs ELSE socket_close_pcb(pcbs, p)]
      BY <1>3, <1>4, <1>12 DEF tcp_socket_close_int, tcp_close_action
    <2>2. sockets' = [sockets EXCEPT ![s] = FreeSlot]
      <3>1. ~S[s].odd /\ S[s].state # "unallocated"
        BY <1>3, <1>4, <1>9
      <3>2. [S EXCEPT ![s] = FreeSlot] = [sockets EXCEPT ![s] = FreeSlot]
        BY <1>1
      <3>3. socket_release(S, s) = [S EXCEPT ![s] = FreeSlot]
        <4> HIDE DEF S
        <4> QED  BY <1>4, <3>1, Release
      <3> HIDE DEF closed, S
      <3>4. closed.S = socket_release(S, s)
        BY <2>1
      <3> QED  BY <1>5, <1>12, <3>2, <3>3, <3>4
    <2>3. FreeSlot.state = "unallocated" /\ FreeSlot.queue = <<>> /\ FreeSlot.refs = 0
      BY DEF FreeSlot
    <2>4. sockets[s].queue = <<>>
      BY <1>1, <1>12 DEF Here, SlotFacts
    <2>5. SameBacklog(sockets[s], FreeSlot)
      BY <1>2, <2>3, <2>4 DEF SameBacklog, Queueable, Unclaimed
    <2>6. SleepsOn(k, FreeSlot, FALSE) /\ SleepsOn(k, FreeSlot, FreePcb.full) /\ ~Attached(FreeSlot.state)
      BY <2>3 DEF SleepsOn, Attached
    <2>7. CASE Attached(sockets[s].state) /\ Bound(s, p)
      <3>1. /\ (\A x \in Pcb : pcbs[x].arg = s => x = p) /\ pcbs[p].arg \in {s, None} /\ p \in Pcb /\ p # None
        BY <2>7, SocketsAssumption DEF Bound
      <3>2. pcbs' = [pcbs EXCEPT ![p] = FreePcb]
        BY <1>5, <1>12, <2>1, <3>1 DEF socket_close_pcb, Freed
      <3> HIDE DEF p, k
      <3> QED  BY <1>1, <1>7, <2>2, <2>5, <2>6, <3>1, <3>2, FreshTypes, PairedStep
    <2>8. CASE sockets[s].state = "error" /\ \A x \in Pcb : pcbs[x].arg # s
      <3>1. p = None
        BY <1>1, <2>8 DEF Here, SlotFacts
      <3>2. pcbs' = pcbs
        BY <1>5, <1>12, <2>1, <3>1
      <3> HIDE DEF p, k
      <3> QED  BY <1>1, <1>7, <2>2, <2>5, <2>6, <2>8, <3>2, FreshTypes, LoneStep
    <2> QED  BY <1>8, <2>7, <2>8
  <1> QED  BY <1>6, <1>10, <1>11, <1>12

-----------------------------------------------------------------------------
(* The specification.                                                       *)

LEMMA InitInv == Init => SocketsInv
  <1> SUFFICES ASSUME Init
               PROVE  SocketsInv
    OBVIOUS
  <1>1. /\ \A s \in Slot : sockets[s] = FreeSlot /\ parked[s] = {}
        /\ \A p \in Pcb : pcbs[p] = FreePcb
    BY DEF Init
  <1>2. FreeSlot.state = "unallocated" /\ FreeSlot.queue = <<>> /\ FreePcb.arg = None /\ FreePcb.kind = "free"
    BY DEF FreeSlot, FreePcb
  <1>3. SocketsTypeOK
    <2>1. sockets \in [Slot -> SlotType] /\ pcbs \in [Pcb -> PcbType]
      BY FreshTypes DEF Init
    <2> QED  BY <2>1 DEF Init, SocketsTypeOK
  <1>4. PcbShape
    BY <1>1, <1>2 DEF PcbShape
  <1>5. ASSUME NEW s \in Slot
        PROVE  Here(s)
    <2>1. \A p \in Pcb : pcbs[p].arg # s
      BY <1>1, <1>2, SocketsAssumption
    <2>2. SlotFacts(sockets[s]) /\ sockets[s].state = "unallocated"
      BY <1>1, <1>2, FreshTypes
    <2> QED  BY <2>1, <2>2 DEF Here, Attached, SleepsOn
  <1>6. Backlog
    BY <1>1, <1>2 DEF Backlog
  <1> QED  BY <1>3, <1>4, <1>5, <1>6 DEF SocketsInv

LEMMA StepInv == SocketsInv /\ [Next]_vars => SocketsInv'
  <1> SUFFICES ASSUME SocketsInv, [Next]_vars
               PROVE  SocketsInv'
    OBVIOUS
  <1>1. CASE UNCHANGED vars
    <2>1. UNCHANGED <<program, sockets, pcbs, parked>> /\ woken' \in [Slot -> SUBSET CallName]
      BY <1>1 DEF vars, SocketsInv, SocketsTypeOK
    <2> QED  BY <2>1, QuietStep
  <1>2. CASE (tcp_socket_init \/ InitFails) /\ UNCHANGED program
    BY <1>2, InitStep, InitFailsStep
  <1>3. ASSUME NEW p \in Pcb, Callback(p), UNCHANGED program
        PROVE  SocketsInv'
    BY <1>3, ErrStep, FinStep, SentStep, ConnectedStep, ArrivalStep, DataStep DEF Callback
  <1>4. ASSUME NEW s \in Slot, Call(s), UNCHANGED program
        PROVE  SocketsInv'
    <2>1. CASE tcp_socket_bind(s) \/ tcp_socket_listen(s) \/ tcp_socket_dup(s)
      BY <1>4, <2>1, BindStep, ListenStep, DupStep
    <2>2. ASSUME NEW nonblock \in BOOLEAN,
                 tcp_socket_connect(s, nonblock) \/ tcp_socket_accept(s, nonblock) \/ tcp_socket_write(s, nonblock)
          PROVE  SocketsInv'
      BY <1>4, <2>2, ConnectStep, AcceptStep, WriteStep
    <2>3. ASSUME NEW nonblock \in BOOLEAN, NEW n \in 1 .. BufSize, tcp_socket_recv(s, n, nonblock)
          PROVE  SocketsInv'
      BY <1>4, <2>3, RecvStep
    <2>4. ASSUME NEW fails \in CloseFails, tcp_socket_close(s, fails)
          PROVE  SocketsInv'
      <3>1. fails \in BOOLEAN
        BY SocketsAssumption
      <3> QED  BY <1>4, <2>4, <3>1, CloseStep
    <2> QED  BY <1>4, <2>1, <2>2, <2>3, <2>4 DEF Call
  <1> QED  BY <1>1, <1>2, <1>3, <1>4 DEF Next

LEMMA Invariance == Spec => []SocketsInv
  BY InitInv, StepInv, PTL DEF Spec

(* tcp.c follows the PCB argument of every callback, and the PCB of every   *)
(* slot a call may act on, without looking: neither ever dangles.           *)
THEOREM NeverDangles == Spec => []NoDanglingPcb
  <1>1. ASSUME SocketsInv
        PROVE  NoDanglingPcb
    <2>1. ASSUME NEW p \in Pcb, pcbs[p].kind # "free"
          PROVE  /\ pcbs[p].arg \in Slot /\ sockets[pcbs[p].arg].tpcb = p
                 /\ sockets[pcbs[p].arg].state \notin {"unallocated", "error"}
      <3>1. pcbs[p].arg \in Slot /\ pcbs[p].kind \in Kinds
        BY <1>1, <2>1 DEF SocketsInv, PcbShape, SocketsTypeOK, PcbType
      <3>2. sockets[pcbs[p].arg].tpcb = p /\ Fits(sockets[pcbs[p].arg], pcbs[p])
        BY <1>1, <3>1 DEF SocketsInv, Here
      <3> QED  BY <2>1, <3>1, <3>2 DEF Fits, Kinds
    <2>2. ASSUME NEW s \in Slot, sockets[s].state \notin {"unallocated", "error", "closing"}
          PROVE  sockets[s].tpcb # None /\ pcbs[sockets[s].tpcb].arg = s
      <3>1. sockets[s].tpcb \in Pcb /\ pcbs[sockets[s].tpcb].arg = s
        BY <1>1, <2>2 DEF SocketsInv, Here, Attached
      <3> QED  BY <3>1, SocketsAssumption
    <2> QED  BY <2>1, <2>2 DEF NoDanglingPcb
  <1> QED  BY <1>1, Invariance, PTL

(* socket_set_state never has to report an edge: in whatever order calls    *)
(* and callbacks come, the lifecycle table has the edge they take.          *)
THEOREM EdgesDefined == Spec => []NoUnexpectedEdge
  <1>1. ASSUME SocketsInv
        PROVE  NoUnexpectedEdge
    BY <1>1 DEF SocketsInv, Here, SlotFacts, NoUnexpectedEdge
  <1> QED  BY <1>1, Invariance, PTL

(* A connection accept() has not claimed is in exactly one backlog, of a    *)
(* listening socket and without a reference, so that closing that socket    *)
(* releases it, once.                                                       *)
THEOREM BacklogsOwned == Spec => []BacklogOwned
  <1>1. ASSUME SocketsInv
        PROVE  BacklogOwned
    <2> DEFINE Queued == {e \in Slot \X (1 .. BacklogCap) : e[2] \in DOMAIN sockets[e[1]].queue}
               At(e) == sockets[e[1]].queue[e[2]]
    <2>1. ASSUME NEW l \in Slot, NEW i \in DOMAIN sockets[l].queue
          PROVE  <<l, i>> \in Queued /\ sockets[l].state = "listening"
      <3>1. sockets[l].queue \in Seq(Slot) /\ SlotFacts(sockets[l])
        BY <1>1 DEF SocketsInv, SocketsTypeOK, SlotType, Here
      <3>2. i \in 1 .. Len(sockets[l].queue) /\ sockets[l].queue # <<>> /\ Len(sockets[l].queue) \in Nat
        BY <2>1, <3>1
      <3>3. i \in 1 .. BacklogCap
        BY <3>1, <3>2, SocketsAssumption DEF SlotFacts
      <3> QED  BY <2>1, <3>1, <3>2, <3>3 DEF SlotFacts
    <2>2. ASSUME NEW e \in Queued
          PROVE  e[1] \in Slot /\ e[2] \in DOMAIN sockets[e[1]].queue /\ e = <<e[1], e[2]>>
      OBVIOUS
    <2> HIDE DEF Queued
    <2>3. ASSUME NEW e \in Queued
          PROVE  /\ sockets[e[1]].state = "listening" /\ sockets[At(e)].refs = 0
                 /\ sockets[At(e)].state \in {"connected", "closed_by_peer", "error"}
      BY <1>1, <2>1, <2>2 DEF SocketsInv, Backlog
    <2>4. ASSUME NEW e \in Queued, NEW f \in Queued, At(e) = At(f)
          PROVE  e = f
      <3>1. e[1] = f[1] /\ e[2] = f[2]
        BY <1>1, <2>2, <2>4 DEF SocketsInv, Backlog
      <3> QED  BY <2>2, <3>1
    <2>5. ASSUME NEW s \in Slot, sockets[s].state \in {"connected", "closed_by_peer"}, sockets[s].refs = 0
          PROVE  \E e \in Queued : At(e) = s
      <3>1. PICK l \in Slot : \E i \in DOMAIN sockets[l].queue : sockets[l].queue[i] = s
        BY <1>1, <2>5 DEF SocketsInv, Backlog
      <3>2. PICK i \in DOMAIN sockets[l].queue : sockets[l].queue[i] = s
        BY <3>1
      <3>3. <<l, i>> \in Queued /\ At(<<l, i>>) = s
        BY <2>1, <3>2
      <3> QED  BY <3>3
    <2> QED  BY <2>3, <2>4, <2>5 DEF BacklogOwned, Queued
  <1> QED  BY <1>1, Invariance, PTL

(* No call sleeps on an open socket while there is something for it to see: *)
(* whatever makes a call runnable is followed by its wake.                  *)
THEOREM NoEventMissed == Spec => []SleeperMissesNoEvent
  <1>1. ASSUME SocketsInv
        PROVE  SleeperMissesNoEvent
    <2> SUFFICES ASSUME NEW s \in Slot, sockets[s].refs > 0
                 PROVE  LET slot == sockets[s]
                        IN  /\ "connect" \in parked[s] => slot.state = "connecting"
                            /\ "recv" \in parked[s] => tcp_recv_gate(slot.state, slot.len # 0, FALSE) = "block"
                            /\ "send" \in parked[s] => tcp_write_gate(slot.state) = "send" /\ pcbs[slot.tpcb].full
                            /\ "accept" \in parked[s] => slot.state = "listening" /\ slot.queue = <<>>
      BY DEF SleeperMissesNoEvent
    <2>1. SleepsOn(parked[s], sockets[s], pcbs[sockets[s].tpcb].full) /\ SlotFacts(sockets[s])
      BY <1>1 DEF SocketsInv, Here
    <2>2. sockets[s].state \notin {"unallocated", "closing"}
      BY <2>1 DEF SlotFacts
    <2> QED  BY <2>1, <2>2 DEF SleepsOn, tcp_recv_gate, tcp_write_gate
  <1> QED  BY <1>1, Invariance, PTL

(* What recv() will return is the peer's stream, from the first byte not    *)
(* yet read to the last one taken from lwIP, in order and without a gap,    *)
(* wherever the ring wraps.                                                 *)
THEOREM StreamsInOrder == Spec => []StreamInOrder
  <1>1. ASSUME SocketsInv
        PROVE  StreamInOrder
    <2> SUFFICES ASSUME NEW s \in Slot, sockets[s].state \in {"connected", "closed_by_peer"}
                 PROVE  RingHolds(sockets[s], pcbs[sockets[s].tpcb].given)
      BY DEF StreamInOrder, RingHolds
    <2>1. sockets[s].tpcb \in Pcb /\ pcbs[sockets[s].tpcb].arg = s
      BY <1>1 DEF SocketsInv, Here, Attached
    <2>2. Fits(sockets[s], pcbs[sockets[s].tpcb])
      BY <1>1, <2>1 DEF SocketsInv, Here
    <2> QED  BY <2>2 DEF Fits
  <1> QED  BY <1>1, Invariance, PTL
=============================================================================
