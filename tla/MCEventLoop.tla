----------------------------- MODULE MCEventLoop -----------------------------
(***************************************************************************)
(* Small instances of EventLoop for TLC.  Descriptor 0 is the listening    *)
(* socket; connections are interchangeable.                                *)
(***************************************************************************)
EXTENDS EventLoopService, TLC

CONSTANTS a, b, d

TwoConns == {a, b}
ThreeConns == {a, b, d}

OneListener == {0}
Fds(n) == 0..n
FdsFew == Fds(3)
FdsSome == Fds(4)
FdsCgi == Fds(7)
FdsTwoCgi == Fds(10)

Plain == {{}, {"throw"}}
Files == {{}, {"file"}}
Uploads == {{"store"}, {}}
Scripts == {{"cgi"}}
FilesOrScripts == {{"file"}, {"cgi"}}

ConnSymmetry == Permutations(Conn)
=============================================================================
