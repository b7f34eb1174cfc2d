-------------------------------- MODULE MCPoll --------------------------------
EXTENDS Poll, TLC

CONSTANTS p, r, s

MCThread == {p, r, s}
MCFd == 1 .. 3
MCRevents == {{}, {"in"}}

(* ERTS's wake pipe; a pollset whose descriptor numbers are closed and      *)
(* reused, of pipes and of sockets; the fallback poll and select paths.     *)
MCPrograms ==
    {(p :> {"epoll_pwait"} @@ r :> {"read"} @@
      s :> {"pipe2", "epoll_create1", "epoll_ctl", "write"}),
     (p :> {"epoll_pwait"} @@ r :> {} @@
      s :> {"pipe2", "epoll_create1", "epoll_ctl", "write", "close"}),
     (p :> {"epoll_pwait"} @@ r :> {} @@
      s :> {"pipe2", "socket", "epoll_create1", "epoll_ctl", "close"}),
     (p :> {"ppoll", "pselect6"} @@ r :> {"read"} @@
      s :> {"pipe2", "socket", "write", "close"})}
=============================================================================
