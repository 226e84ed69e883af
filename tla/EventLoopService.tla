--------------------------- MODULE EventLoopService ---------------------------
(***************************************************************************)
(* The event loop keeps the promise of Service, whatever stale events a    *)
(* batch holds and whichever numbers are closed twice.                     *)
(***************************************************************************)
EXTENDS EventLoop

\* How far a connection has got: an entry of the clients map that a later
\* connection overwrites is gone, like one that was erased.
PhaseOf(c) ==
  IF net[c].peer = "away" THEN "away"
  ELSE IF \E l \in Listener : c \in backlog[l] THEN "waiting"
  ELSE IF ~InTable(c) THEN "gone"
  ELSE IF cl[c].complete THEN "answering" ELSE "reading"

Promise == INSTANCE Service WITH phase <- [c \in Conn |-> PhaseOf(c)]

\* Every connection is accepted at most once and never comes back.  A stale EPOLLOUT
\* may have it sent something before it has asked, but only once; nothing is sent to
\* it before it is accepted or after it has left the clients map; and who is in the
\* map leaves it, unless the process ends first.
KeepsPromise == Promise!Spec

\* The process goes on and its listening sockets stay open, as long as there are
\* descriptors to be had and no peer hangs up on it (which may raise SIGPIPE): no
\* number that was remembered too long is that of a listening socket.
KeepsRunning ==
  /\ \A l \in Listener : fdt[l] = Listening
  /\ up \/ FreeFds = {} \/ \E c \in Conn : net[c].peer = "closed"
=============================================================================
