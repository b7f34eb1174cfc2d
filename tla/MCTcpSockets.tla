----------------------------- MODULE MCTcpSockets ----------------------------
EXTENDS TcpSockets, TLC

CONSTANTS p1, p2, p3

MCPcb == {p1, p2, p3}
PcbSymmetry == Permutations(MCPcb)

Does(calls, slots, stream) ==
    [calls |-> {"socket", "close"} \cup calls, slots |-> slots, stream |-> stream]

(* Servers with and without traffic, a client with a stream longer than its *)
(* ring, and clients that send and share their sockets.                     *)
MCPrograms ==
    {Does({"bind", "listen", "accept"}, 3, 0),
     Does({"listen", "accept", "recv"}, 3, 1),
     Does({"connect", "recv"}, 2, 3),
     Does({"connect", "send", "dup"}, 2, 0),
     Does({"connect", "listen", "accept"}, 3, 0)}

(* A server that opens and closes its listening socket.                     *)
MCListener == {Does({"listen"}, 3, 0)}
=============================================================================
