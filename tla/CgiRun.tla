-------------------------------- MODULE CgiRun --------------------------------
(***************************************************************************)
(* The server and the scripts it runs, as processes: startCGI forks and    *)
(* then sleeps in read() on the error pipe until the child has called      *)
(* execve (the pipe is close-on-exec) or has exited; readOutput drains the *)
(* output pipe, one read() after the other while the script goes on        *)
(* writing; handleTimeOut may end a client whenever the server is back in  *)
(* its loop.  Clients that ask for no script matter too: a child inherits  *)
(* a copy of every socket that is open when it is forked.                  *)
(*                                                                         *)
(* Which numbers the descriptors have is the matter of EventLoop; here a   *)
(* pipe is the number of bytes in it.                                      *)
(***************************************************************************)
EXTENDS Integers

CONSTANTS
  Client,       \* connections
  Idle,         \* no client
  Startable,    \* clients for whose script execve() succeeds
  PipeSize,     \* bytes a pipe holds
  ReadSize,     \* sizeof(buf) of readOutput
  SendRoom,     \* bytes the one send() of the answer takes
  MaxOutput     \* bound: bytes a script writes

ASSUME ClientAssumption == Idle \notin Client
ASSUME StartableAssumption == Startable \subseteq Client
ASSUME SizeAssumption ==
  /\ PipeSize \in Nat \ {0} /\ ReadSize \in Nat \ {0}
  /\ SendRoom \in Nat /\ MaxOutput \in Nat

VARIABLES
  at,         \* where the server is: its loop, or startCGI or readOutput for whom
  sock,       \* client -> its socket: not accepted yet, open, closed by the server
  handler,    \* client -> its CGIHandler, if any, and what readOutput has got
  child,      \* client -> its script's process
  written,    \* client -> bytes its script has written so far
  pipe,       \* client -> bytes in the output pipe
  inherited,  \* client -> whose sockets its script holds a copy of
  reply       \* client -> what it has been sent

vars == <<at, sock, handler, child, written, pipe, inherited, reply>>

InLoop == [fn |-> "run_server", of |-> Idle]

NoHandler == [state |-> "none", buffer |-> 0]
Nothing == [kind |-> "none", body |-> 0]

----------------------------------------------------------------------------
(* The server.                                                             *)

Accept(c) ==
  /\ at = InLoop /\ sock[c] = "away"
  /\ sock' = [sock EXCEPT ![c] = "open"]
  /\ UNCHANGED <<at, handler, child, written, pipe, inherited, reply>>

\* A client that asked for no script is answered, or dropped.
ServeOther(c) ==
  /\ at = InLoop /\ sock[c] = "open" /\ handler[c].state = "none"
  /\ sock' = [sock EXCEPT ![c] = "closed"]
  /\ UNCHANGED <<at, handler, child, written, pipe, inherited, reply>>

\* handleCGI, the first time: startCGI up to fork().  No socket is close-on-exec.
StartCGI(s) ==
  /\ at = InLoop /\ sock[s] = "open" /\ handler[s].state = "none"
  /\ handler' = [handler EXCEPT ![s].state = "live"]
  /\ child' = [child EXCEPT ![s] = "forked"]
  /\ inherited' = [inherited EXCEPT ![s] = {c \in Client : sock[c] = "open"}]
  /\ at' = [fn |-> "startCGI", of |-> s]
  /\ UNCHANGED <<sock, written, pipe, reply>>

\* Broken: without FD_CLOEXEC the script keeps the error pipe open.
ErrPipeInherited(s) == child[s] \in {"forked", "running", "silent"}
\* Somebody else still holds the writing end of the error pipe.
ErrPipeHeld(s) == child[s] = "forked"

\* read() on the error pipe ends, always with 0: what a child that cannot exec
\* writes goes to out_fd[1], which it has closed, and to no error pipe.
StartReturns(s) ==
  /\ at = [fn |-> "startCGI", of |-> s] /\ ~ErrPipeHeld(s)
  /\ at' = [fn |-> "readOutput", of |-> s]
  /\ UNCHANGED <<sock, handler, child, written, pipe, inherited, reply>>

\* handleCGI, every later time.
ContinueCGI(s) ==
  /\ at = InLoop /\ handler[s].state = "live"
  /\ at' = [fn |-> "readOutput", of |-> s]
  /\ UNCHANGED <<sock, handler, child, written, pipe, inherited, reply>>

Smaller(a, b) == IF a <= b THEN a ELSE b

Reading(s) == at = [fn |-> "readOutput", of |-> s]

\* Broken: the whole of buf is taken.
GotBuf(s) == ReadSize
\* What one read() returns.
Got(s) == Smaller(ReadSize, pipe[s])

ReadSome(s) ==
  /\ Reading(s) /\ pipe[s] > 0
  /\ handler' = [handler EXCEPT ![s].buffer = @ + Got(s)]
  /\ pipe' = [pipe EXCEPT ![s] = @ - Got(s)]
  /\ UNCHANGED <<at, sock, child, written, inherited, reply>>

\* Broken: no data is taken for no more data.
NoData(s) == pipe[s] = 0
\* read() returns 0 only when nobody can write any more; only the child can.
AtEnd(s) == pipe[s] = 0 /\ child[s] \notin {"forked", "running"}

\* read() fails with EAGAIN.
ReadNothing(s) ==
  /\ Reading(s) /\ pipe[s] = 0 /\ ~AtEnd(s)
  /\ at' = InLoop
  /\ UNCHANGED <<sock, handler, child, written, pipe, inherited, reply>>

\* waitpid(pid, WNOHANG) and pid = -1: who has not exited yet is forgotten.
Waited(s) == IF child[s] = "zombie" THEN "reaped" ELSE child[s]

\* The end of the output: one send() of head and body, the client is deleted.
ReadEnd(s) ==
  /\ Reading(s) /\ AtEnd(s)
  /\ child' = [child EXCEPT ![s] = Waited(s)]
  /\ reply' = [reply EXCEPT ![s] =
       [kind |-> "200", body |-> Smaller(SendRoom, handler[s].buffer)]]
  /\ handler' = [handler EXCEPT ![s].state = "deleted"]
  /\ sock' = [sock EXCEPT ![s] = "closed"]
  /\ at' = InLoop
  /\ UNCHANGED <<written, pipe, inherited>>

\* Broken: the destructor waits without killing first.
LeftAlone(s) == Waited(s)
\* ~CGIHandler: a child that has not exited is killed, and either is waited for.
KilledAndWaited(s) == "reaped"

\* handleTimeOut: CGI_TIMEOUT or RESPONSE_TIMEOUT has passed.
TimeOut(s) ==
  /\ at = InLoop /\ handler[s].state = "live"
  /\ child' = [child EXCEPT ![s] = KilledAndWaited(s)]
  /\ reply' = [reply EXCEPT ![s] = [kind |-> "time out", body |-> 0]]
  /\ handler' = [handler EXCEPT ![s].state = "deleted"]
  /\ sock' = [sock EXCEPT ![s] = "closed"]
  /\ UNCHANGED <<at, written, pipe, inherited>>

----------------------------------------------------------------------------
(* The children.                                                           *)

\* execve(), with the output pipe as standard output and error.
Exec(s) ==
  /\ child[s] = "forked" /\ s \in Startable
  /\ child' = [child EXCEPT ![s] = "running"]
  /\ UNCHANGED <<at, sock, handler, written, pipe, inherited, reply>>

\* The script is gone (access), or execve() returns: exit(1).
ExecFails(s) ==
  /\ child[s] = "forked" /\ s \notin Startable
  /\ child' = [child EXCEPT ![s] = "zombie"]
  /\ UNCHANGED <<at, sock, handler, written, pipe, inherited, reply>>

\* write() sleeps while the pipe is full.
Write(s) ==
  /\ child[s] = "running" /\ pipe[s] < PipeSize /\ written[s] < MaxOutput
  /\ written' = [written EXCEPT ![s] = @ + 1]
  /\ pipe' = [pipe EXCEPT ![s] = @ + 1]
  /\ UNCHANGED <<at, sock, handler, child, inherited, reply>>

EndOutput(s) ==
  /\ child[s] = "running"
  /\ child' = [child EXCEPT ![s] = "silent"]
  /\ UNCHANGED <<at, sock, handler, written, pipe, inherited, reply>>

Exit(s) ==
  /\ child[s] \in {"running", "silent"}
  /\ child' = [child EXCEPT ![s] = "zombie"]
  /\ UNCHANGED <<at, sock, handler, written, pipe, inherited, reply>>

----------------------------------------------------------------------------
Init ==
  /\ at = InLoop
  /\ sock = [c \in Client |-> "away"]
  /\ handler = [s \in Client |-> NoHandler]
  /\ child = [s \in Client |-> "none"]
  /\ written = [s \in Client |-> 0]
  /\ pipe = [s \in Client |-> 0]
  /\ inherited = [s \in Client |-> {}]
  /\ reply = [s \in Client |-> Nothing]

ReadOutput(s) == ReadSome(s) \/ ReadNothing(s) \/ ReadEnd(s)

Next ==
  \/ \E c \in Client : Accept(c) \/ ServeOther(c)
  \/ \E s \in Client :
       \/ StartCGI(s) \/ StartReturns(s) \/ ContinueCGI(s) \/ ReadOutput(s)
       \/ TimeOut(s)
       \/ Exec(s) \/ ExecFails(s) \/ Write(s) \/ EndOutput(s) \/ Exit(s)

Spec == Init /\ [][Next]_vars

\* The server's process is scheduled wherever it is, and so is a child before its
\* execve(); handleTimeOut comes again and again while a script runs.  Of a running
\* script nothing is asked, not even that it exits once it has closed its output.
Fairness ==
  \A s \in Client :
    /\ WF_vars(StartReturns(s) \/ ReadOutput(s))
    /\ WF_vars(Exec(s) \/ ExecFails(s))
    /\ SF_vars(TimeOut(s))

FairSpec == Spec /\ Fairness

----------------------------------------------------------------------------
(* Properties.                                                             *)

\* Every variable has its type.
TypeOK ==
  /\ at \in {InLoop} \cup [fn : {"startCGI", "readOutput"}, of : Client]
  /\ sock \in [Client -> {"away", "open", "closed"}]
  /\ handler \in [Client -> [state : {"none", "live", "deleted"}, buffer : Nat]]
  /\ child \in [Client -> {"none", "forked", "running", "silent", "zombie", "reaped"}]
  /\ written \in [Client -> 0 .. MaxOutput]
  /\ pipe \in [Client -> 0 .. PipeSize]
  /\ inherited \in [Client -> SUBSET Client]
  /\ reply \in [Client -> [kind : {"none", "200", "time out"}, body : Nat]]

\* The answer to a request for a script holds all the script ever writes, as far
\* as the one send() takes it: not a byte that is still in the pipe, or that the
\* script has yet to write, is left out (readOutput tells EAGAIN from the end).
WholeOutput ==
  \A s \in Client : reply[s].kind = "200" =>
    /\ child[s] \notin {"forked", "running"}
    /\ reply[s].body = Smaller(SendRoom, written[s])

\* Once its CGIHandler is gone a script no longer runs: it was killed and waited
\* for, or it had ended its output.  Only the latter is ever left behind unwaited.
NoRunaway ==
  \A s \in Client : handler[s].state = "deleted" =>
    child[s] \in {"silent", "zombie", "reaped"}

\* However scripts behave, startCGI comes back: the server does not sleep in its
\* read() on the error pipe for a script that runs, and that may itself sleep until
\* somebody reads its output.  (That readOutput comes back is not claimed: for a
\* script that writes as fast as it is read, it need not.)
StartComesBack == at.fn = "startCGI" ~> at.fn # "startCGI"

Holds(s, c) == child[s] \in {"forked", "running", "silent"} /\ c \in inherited[s]

\* A script that closed its output before it exited: readOutput has set pid to -1, and
\* nobody will kill it or wait for it.
Forgotten(s) == handler[s].state = "deleted" /\ child[s] = "silent"

\* As long as the server comes back to its loop, a client whose socket it has closed sees
\* the end of its connection: no script that inherited a copy keeps it open for ever, for
\* each is killed in time.  Those the server has forgotten are excepted: nothing bounds
\* how long they run.
PeerSeesEnd ==
  []<>(at = InLoop) =>
    \A c \in Client : sock[c] = "closed" ~> \A s \in Client : Holds(s, c) => Forgotten(s)
=============================================================================
