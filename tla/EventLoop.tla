------------------------------ MODULE EventLoop ------------------------------
(***************************************************************************)
(* The epoll loop of srcs/run_server.cpp, the table of clients it serves   *)
(* and the descriptor numbers every object of the process holds.           *)
(*                                                                         *)
(* One process, one thread: every action below is one call the loop makes  *)
(* (a handler is never interrupted), or one thing the outside world does   *)
(* between two of them (a peer connects, sends, leaves; a CGI child closes *)
(* its output or exits).  What a request says is abstracted to the way it  *)
(* ends (Endings); what is kept is who is asked, in which order, and which *)
(* descriptor NUMBER each close() is given.  A number outlives the thing   *)
(* it named: the numbers a batch of events, a CGIHandler or a Request      *)
(* remembers may since have been given to somebody else.                   *)
(***************************************************************************)
EXTENDS Integers, FiniteSets

CONSTANTS
  Conn,              \* the TCP connections peers may open, once each
  NoConn,            \* "no client": a key absent from the clients map
  Fd,                \* the descriptor numbers the process may be given
  Listener,          \* the numbers of the listening sockets (servers_fd)
  MaxEvents,         \* the size of the events array (64 in the code)
  MaxLag,            \* bound: seconds one turn of the loop may take
  MaxBusy,           \* bound: seconds that may pass while a batch is handled
  REQUEST_TIMEOUT,   \* seconds a client may take to send its request
  RESPONSE_TIMEOUT,  \* seconds it may take to receive the response
  CGI_TIMEOUT,       \* seconds a CGI script may run
  Endings            \* the ways a request may end: sets of Effects

NoFd == -1

\* What completing a request may do besides preparing a response: close the
\* upload file (handlePost), open the file to serve (PrepareResponse), choose
\* CGI (checkCGIValid), or end in an exception nobody catches before main().
Effects == {"store", "file", "cgi", "throw"}

ASSUME ConnAssumption == NoConn \notin Conn
ASSUME FdAssumption == Fd \subseteq Nat /\ Listener \subseteq Fd
ASSUME TimeAssumption ==
  /\ MaxEvents \in Nat \ {0} /\ MaxLag \in Nat \ {0} /\ MaxBusy \in Nat
  /\ REQUEST_TIMEOUT \in Nat /\ RESPONSE_TIMEOUT \in Nat /\ CGI_TIMEOUT \in Nat
ASSUME EndingAssumption ==
  \A e \in Endings : e \subseteq Effects /\ ~({"store", "file"} \subseteq e)

VARIABLES
  up,        \* the process runs; FALSE once an exception or a signal ended it
  ready,     \* the events of this batch the loop has not come to yet
  sweep,     \* the clients handleTimeOut has found expired and not yet removed
  busy,      \* seconds the batch has taken since the time-outs were looked for
  clients,   \* std::map<int, Client*> clients, by descriptor number
  cl,        \* the Client objects, one per connection
  handler,   \* Client::cgiHandler
  fdt,       \* what the kernel has under each descriptor number
  interest,  \* what epoll watches each descriptor for
  backlog,   \* connections waiting on each listening socket
  net,       \* the peer's end of each connection
  child,     \* the CGI child forked for each connection
  life,      \* history: seconds since the connection was accepted
  sent       \* history: what the peer has been sent, see Pieces

\* A piece of a response sent before the request was complete, or after.
Pieces == {"early", "answer"}

loopVars == <<up, ready, sweep, busy>>
kernelVars == <<fdt, interest, net, backlog>>
vars == <<up, ready, sweep, busy, clients, cl, handler, fdt, interest, backlog,
          net, child, life, sent>>

----------------------------------------------------------------------------
(* The kernel's descriptor table.                                          *)

Free == [kind |-> "free", of |-> NoConn]
Listening == [kind |-> "listen", of |-> NoConn]
Owned(kind, c) == [kind |-> kind, of |-> c]

FreeFds == {f \in Fd : fdt[f] = Free}

\* The descriptor open(), accept() or pipe() returns when n lower free ones
\* have been handed out just before it: the lowest number goes first.
FreeAt(n) == {f \in FreeFds : Cardinality({g \in FreeFds : g < f}) = n}

\* What close() on every number of S leaves behind: the last reference to the
\* file goes away, and epoll forgets it.  n is the network just before.
FdtWithout(S) == [f \in Fd |-> IF f \in S THEN Free ELSE fdt[f]]
InterestWithout(S) == [f \in Fd |-> IF f \in S THEN "none" ELSE interest[f]]
NetWithout(S, n) ==
  [c \in Conn |-> IF \E f \in S \cap Fd : fdt[f] = Owned("sock", c)
                  THEN [peer |-> "gone", pending |-> FALSE] ELSE n[c]]
Shut(S, n) ==
  /\ fdt' = FdtWithout(S)
  /\ interest' = InterestWithout(S)
  /\ net' = NetWithout(S, n)
  /\ UNCHANGED backlog

\* The network once number f has been read: if it names a socket, whosever it
\* is, what the peer had sent is gone from its buffer, all of it unless `rest`.
Drained(f, rest) ==
  IF f \in Fd /\ fdt[f].kind = "sock"
  THEN [net EXCEPT ![fdt[f].of].pending = @ /\ rest] ELSE net

\* send() on number f: to a socket whose peer has closed it may raise SIGPIPE,
\* which nothing handles; on anything that is no socket it fails.
SendOutcomes(f) ==
  IF fdt[f].kind # "sock" THEN {"failed"}
  ELSE CASE net[fdt[f].of].peer = "open" -> {"sent", "failed"}
         [] net[fdt[f].of].peer = "closed" -> {"sent", "failed", "killed"}
         [] OTHER -> {"failed"}

\* The process ends: an exception reaches main(), or a signal kills it.
Dies ==
  /\ up' = FALSE
  /\ UNCHANGED <<ready, sweep, busy, clients, cl, handler, child, life, sent>>
  /\ UNCHANGED kernelVars

----------------------------------------------------------------------------
(* Client objects.                                                         *)

Blank(obj) ==
  [obj |-> obj, complete |-> FALSE, requesting |-> TRUE, sentAll |-> FALSE,
   isCGI |-> FALSE, file |-> NoFd, upload |-> NoFd, storing |-> FALSE, finished |-> FALSE,
   age |-> 0]
\* Broken: the constructor leaves in_fd zeroed instead of -1.
ZeroedHandler ==
  [started |-> FALSE, in0 |-> 0, in1 |-> 0, out0 |-> NoFd, out1 |-> NoFd,
   age |-> 0]
NoHandler ==
  [started |-> FALSE, in0 |-> NoFd, in1 |-> NoFd, out0 |-> NoFd, out1 |-> NoFd,
   age |-> 0]

InTable(c) == \E f \in Fd : clients[f] = c

\* Broken: ~CGIHandler forgets the end it reads from.
HandlerFdsButOutput(c) == {handler[c].in0, handler[c].in1, handler[c].out1}
\* The numbers ~CGIHandler closes.  in0 and out1 were closed by startCGI
\* already, which left the numbers in place.
HandlerFds(c) ==
  {handler[c].in0, handler[c].in1, handler[c].out0, handler[c].out1}

\* The numbers `delete client` closes, whoever uses them now.  The upload file
\* of the Request is not one of them.
ObjectFds(c) == HandlerFds(c) \cup {cl[c].file}

\* Broken: close(fd) is missing.
ClosedByButSocket(f) == ObjectFds(clients[f])
\* epoll_ctl(DEL), delete client, clients.erase(fd), close(fd).
ClosedBy(f) == {f} \cup ObjectFds(clients[f])

\* S are numbers the same handler has closed before, n the network by then.
RemoveClient(f, S, n) ==
  LET c == clients[f] IN
  /\ Shut(S \cup ClosedBy(f), n)
  /\ clients' = [clients EXCEPT ![f] = NoConn]
  /\ cl' = [cl EXCEPT ![c] = Blank("deleted")]
  /\ handler' = [handler EXCEPT ![c] = NoHandler]

\* Broken: waitpid(WNOHANG) without the kill.
ReapedIfExited(c) ==
  [child EXCEPT ![c] = IF handler[c].started /\ @ = "zombie" THEN "reaped" ELSE @]
\* ~CGIHandler with pid > 0: the child is waited for, and killed first unless
\* it has exited already.
ReapedBy(c) == [child EXCEPT ![c] = IF handler[c].started THEN "reaped" ELSE @]

\* Broken: only the request is timed.
IsRequestTimedOut(c) == cl[c].requesting /\ cl[c].age > REQUEST_TIMEOUT
IsTimedOut(c) ==
  cl[c].age > (IF cl[c].requesting THEN REQUEST_TIMEOUT ELSE RESPONSE_TIMEOUT)
IsCgiTimedOut(c) == handler[c].started /\ handler[c].age > CGI_TIMEOUT
\* Broken: only scripts are timed.
IsScriptTimedOut(c) == cl[c].isCGI /\ IsCgiTimedOut(c)
Expired(c) == IsTimedOut(c) \/ (cl[c].isCGI /\ IsCgiTimedOut(c))

----------------------------------------------------------------------------
(* Waiting for events, and the time-outs looked for before any is handled. *)

Readable(f) ==
  /\ interest[f] = "in"
  /\ IF fdt[f] = Listening THEN backlog[f] # {}
     ELSE net[fdt[f].of].pending \/ net[fdt[f].of].peer # "open"

InEvents == [fd : {f \in Fd : Readable(f)}, ev : {"in"}]
OutEvents == [fd : {f \in Fd : interest[f] = "out"}, ev : {"out"}]

Overdue == {f \in Fd : clients[f] # NoConn /\ Expired(clients[f])}

\* Bound: past Horizon, which lies beyond every time-out, an age stops growing.
Horizon ==
  REQUEST_TIMEOUT + RESPONSE_TIMEOUT + CGI_TIMEOUT + MaxLag + 2 * MaxBusy
Older(age, t) == IF age + t > Horizon THEN Horizon ELSE age + t

\* t seconds go by for the clients in the table and their CGI handlers: time(NULL)
\* says so to whoever reads it next (isTimedOut, isCgiTimedOut; the completion of
\* a request, a new Client and a started script take it as their zero).
Elapse(t) ==
  /\ cl' = [c \in Conn |->
              IF InTable(c) THEN [cl[c] EXCEPT !.age = Older(@, t)] ELSE cl[c]]
  /\ handler' = [c \in Conn |->
              IF InTable(c) /\ handler[c].started
              THEN [handler[c] EXCEPT !.age = Older(@, t)] ELSE handler[c]]
  /\ life' = [c \in Conn |-> IF InTable(c) THEN Older(life[c], t) ELSE life[c]]

\* epoll_wait(events, MaxEvents, 1000): every readable descriptor reports
\* unless the array is full; a socket waiting to be written reports while it
\* has room; with nothing to report the call takes the whole second.
EpollWait(t) ==
  /\ up /\ ready = {} /\ sweep = {}
  /\ \E batch \in SUBSET (InEvents \cup OutEvents) :
       /\ Cardinality(batch) <= MaxEvents
       /\ InEvents \subseteq batch \/ Cardinality(batch) = MaxEvents
       /\ batch = {} => t >= 1
       /\ ready' = batch
  /\ Elapse(t)
  /\ busy' = 0
  /\ UNCHANGED <<up, clients, fdt, interest, backlog, net, child, sent>>
  /\ sweep' = Overdue'

\* Time goes by while a batch is handled: startCGI waits for exec, disks are slow.
\* Bound: the time-outs of one sweep are all looked for at the same second.
Tick(t) ==
  /\ up /\ sweep = {} /\ ready # {}
  /\ busy + t <= MaxBusy /\ busy' = busy + t
  /\ Elapse(t)
  /\ UNCHANGED <<up, ready, sweep, clients, fdt, interest, backlog, net, child, sent>>

\* Broken: the iterator is not advanced past the erased client.
SweepStuck(f) == sweep
\* clients.erase(it++)
SweepAfter(f) == sweep \ {f}

\* One expired client of handleTimeOut, in the order of the map: the notice is
\* sent, and whether that works or not the client is removed.
HandleTimeOut(f) ==
  /\ up /\ f \in sweep /\ \A g \in sweep : f <= g
  /\ \/ "killed" \in SendOutcomes(f) /\ Dies
     \/ /\ RemoveClient(f, {}, net)
        /\ child' = ReapedBy(clients[f])
        /\ sweep' = SweepAfter(f)
        /\ UNCHANGED <<up, ready, busy, life, sent>>

----------------------------------------------------------------------------
(* Handling one event of the batch.                                        *)

Handling(e) == up /\ sweep = {} /\ e \in ready
Handled(e) == ready' = ready \ {e} /\ UNCHANGED <<up, sweep, busy>>

\* accept(): the connection gets the lowest free number.  The table entry of that
\* number, if one is left, is overwritten: nothing will delete the Client it named,
\* an orphan from now on.
NewConnection(l, c, f) ==
  /\ fdt' = [fdt EXCEPT ![f] = Owned("sock", c)]
  /\ interest' = [interest EXCEPT ![f] = "in"]
  /\ backlog' = [backlog EXCEPT ![l] = @ \ {c}]
  /\ clients' = [clients EXCEPT ![f] = c]
  /\ cl' = [d \in Conn |-> IF d = c THEN Blank("live")
                           ELSE IF d = clients[f] THEN [cl[d] EXCEPT !.obj = "orphan"]
                           ELSE cl[d]]
  /\ UNCHANGED <<net, handler, child, life, sent>>

HandleListeningClient(e) ==
  /\ Handling(e) /\ e.fd \in Listener
  /\ IF fdt[e.fd] = Listening /\ FreeFds # {}
     THEN /\ \E c \in backlog[e.fd], f \in FreeAt(0) : NewConnection(e.fd, c, f)
          /\ Handled(e)
     ELSE Dies

\* An event for a number the table does not know: close(fd), whatever it is.
DropUnknown(e) ==
  /\ Handling(e) /\ e.fd \notin Listener /\ clients[e.fd] = NoConn
  /\ Shut({e.fd}, net) /\ Handled(e)
  /\ UNCHANGED <<clients, cl, handler, child, life, sent>>

\* A client to remove because recv(), send() or sentAll says so.
DropClient(e, S, n) ==
  /\ RemoveClient(e.fd, S, n) /\ child' = ReapedBy(clients[e.fd])
  /\ Handled(e) /\ UNCHANGED <<life, sent>>

----------------------------------------------------------------------------
(* handleClientRequest: an EPOLLIN event of a client.                      *)

HasData(f) == fdt[f].kind = "sock" /\ net[fdt[f].of].pending

Requested(e) ==
  Handling(e) /\ e.fd \notin Listener /\ clients[e.fd] # NoConn /\ e.ev = "in"

\* recv() returns 0 or -1.
RecvFails(e) == Requested(e) /\ ~HasData(e.fd) /\ DropClient(e, {}, net)

MayStore == \E ending \in Endings : "store" \in ending

\* appendBody writes to the number the Request remembers, which need not name its
\* file any more, or no number at all, and throws unless every byte is taken.  After
\* finishBody nothing is appended to a file that is already open.
Appends(c) == cl[c].storing /\ ~cl[c].finished
Names(c, kinds) == cl[c].upload \in Fd /\ fdt[cl[c].upload].kind \in kinds
AppendMayFail(c) == Appends(c) /\ ~Names(c, {"upload"})
CanAppend(c) == Appends(c) => Names(c, {"upload", "sock", "cgi_in"})

\* appendData without a complete request: headers or body still missing.  What
\* has come may be too short to append anything (safeZone is 0).
RequestGrows(e, rest) ==
  /\ Requested(e) /\ HasData(e.fd)
  /\ \/ MayStore /\ AppendMayFail(clients[e.fd]) /\ Dies
     \/ /\ Handled(e) /\ net' = Drained(e.fd, rest)
        /\ UNCHANGED <<clients, cl, handler, fdt, interest, backlog, child,
                       life, sent>>

\* generateTmpFile: the upload file of a body, or of its next part, is created.
\* It throws when open() fails, for want of a number or of a directory.  After
\* finishBody every part opens a file, with the last one still open.
UploadOpens(e, rest) ==
  LET c == clients[e.fd] IN
  /\ Requested(e) /\ HasData(e.fd) /\ MayStore
  /\ cl[c].storing => cl[c].finished
  /\ \/ Dies
     \/ /\ \E f \in FreeAt(0) :
             /\ fdt' = [fdt EXCEPT ![f] = Owned("upload", c)]
             /\ cl' = [cl EXCEPT ![c].upload = f, ![c].storing = TRUE]
        /\ Handled(e) /\ net' = Drained(e.fd, rest)
        /\ UNCHANGED <<clients, handler, interest, backlog, child, life, sent>>

\* handleBodyHeaders returns with inBody set and no file opened: "filename=" has no
\* end of line behind it.  The number remembered stays what it was.
PartOpensNothing(e, rest) ==
  LET c == clients[e.fd] IN
  /\ Requested(e) /\ HasData(e.fd) /\ MayStore
  /\ cl[c].storing => cl[c].finished
  /\ cl' = [cl EXCEPT ![c].storing = TRUE]
  /\ Handled(e) /\ net' = Drained(e.fd, rest)
  /\ UNCHANGED <<clients, handler, fdt, interest, backlog, child, life, sent>>

\* Broken: the file stays open at a boundary.
BoundaryKeepsOpen(c) == {}
BoundaryCloses(c) == {cl[c].upload}

\* handleInBody at a boundary: what comes before it is appended, the file closed,
\* its number remembered.  The end boundary sets finishBody, and handleInBody is
\* not called again.
UploadCloses(e, rest) ==
  LET c == clients[e.fd] IN
  /\ Requested(e) /\ HasData(e.fd) /\ Appends(c)
  /\ \/ AppendMayFail(c) /\ Dies
     \/ /\ CanAppend(c)
        /\ Shut(BoundaryCloses(c), Drained(e.fd, rest))
        /\ \E last \in BOOLEAN :
             cl' = [cl EXCEPT ![c].storing = FALSE, ![c].finished = last]
        /\ Handled(e) /\ UNCHANGED <<clients, handler, child, life, sent>>

\* The Client once its request is complete: handleCompleteRequest has run,
\* lastActivityTime is now, and the time-out is the response's.
Completed(c, ending, file) ==
  [cl[c] EXCEPT !.complete = TRUE, !.requesting = FALSE, !.age = 0,
                !.storing = FALSE, !.isCGI = "cgi" \in ending, !.file = file]

\* The number PrepareResponse opens the file at; without a free one the
\* response is an error page.
FileOpened(ending) ==
  IF "file" \in ending /\ FreeFds # {} THEN FreeAt(0) ELSE {NoFd}

\* Broken: the epoll_ctl is missing.
WatchedAsBefore(f, closed) == InterestWithout(closed)
\* epoll_ctl(MOD, EPOLLOUT), after close() on the numbers in closed.
WatchedAfter(f, closed) == [InterestWithout(closed) EXCEPT ![f] = "out"]

\* The last segment: closeFileUpload (on the number remembered, even when
\* handleInBody has closed it before), handleCompleteRequest, then the
\* descriptor is watched for EPOLLOUT.
RequestCompletes(e, ending) ==
  LET c == clients[e.fd]
      closed == IF "store" \in ending THEN {cl[c].upload} ELSE {} IN
  /\ Requested(e) /\ HasData(e.fd)
  /\ cl[c].storing \/ cl[c].upload # NoFd => "store" \in ending
  /\ \/ "throw" \in ending /\ Dies
     \/ "store" \in ending /\ AppendMayFail(c) /\ Dies
     \/ /\ "throw" \notin ending
        /\ \E file \in FileOpened(ending) :
             /\ fdt' = [f \in Fd |-> IF f = file THEN Owned("file", c)
                                     ELSE FdtWithout(closed)[f]]
             /\ cl' = [cl EXCEPT ![c] = Completed(c, ending, file)]
        /\ interest' = WatchedAfter(e.fd, closed)
        /\ net' = NetWithout(closed, Drained(e.fd, FALSE))
        /\ Handled(e)
        /\ UNCHANGED <<clients, handler, backlog, child, life, sent>>

----------------------------------------------------------------------------
(* handleClientResponse and handleCGI: an EPOLLOUT event of a client.       *)

Writing(e) ==
  Handling(e) /\ e.fd \notin Listener /\ clients[e.fd] # NoConn /\ e.ev = "out"

\* handleFile: without a file everything there is to send is in the response;
\* with one, the last chunk or the end of the file says so.
SentAllAfter(c) == IF cl[c].file = NoFd THEN {TRUE} ELSE BOOLEAN

\* handleFile, build, send: one piece of the response.  Nothing asks whether the
\* request is complete, or what the number of the file names by now.
RespondPiece(e, rest) ==
  LET c == clients[e.fd]
      n == Drained(cl[c].file, rest) IN
  /\ Writing(e) /\ ~cl[c].isCGI /\ ~cl[c].sentAll
  /\ \/ "killed" \in SendOutcomes(e.fd) /\ Dies
     \/ "failed" \in SendOutcomes(e.fd) /\ DropClient(e, {}, n)
     \/ /\ "sent" \in SendOutcomes(e.fd)
        /\ \E all \in SentAllAfter(c) : cl' = [cl EXCEPT ![c].sentAll = all]
        /\ sent' = [sent EXCEPT ![c] =
                      @ \cup {IF cl[c].complete THEN "answer" ELSE "early"}]
        /\ Handled(e) /\ net' = n
        /\ UNCHANGED <<clients, handler, fdt, interest, backlog, child, life>>

\* "Response has been sent".
RespondDone(e) ==
  /\ Writing(e) /\ ~cl[clients[e.fd]].isCGI /\ cl[clients[e.fd]].sentAll
  /\ DropClient(e, {}, net)

\* An event of a script's client: handleCGI, and then the client is removed if
\* sentAll is set, as an early piece may have left it before the script was chosen.
CgiEvent(e) == Writing(e) /\ cl[clients[e.fd]].isCGI

CanStart == Cardinality(FreeFds) >= 6

\* startCGI gets its three pipes and forks: four numbers are remembered, of
\* which in0, out1 and the err_pipe are closed at once.
CgiStarts(e) ==
  LET c == clients[e.fd] IN
  /\ CgiEvent(e) /\ ~cl[c].sentAll /\ ~handler[c].started /\ CanStart
  /\ \E i0 \in FreeAt(0), i1 \in FreeAt(1), o0 \in FreeAt(2), o1 \in FreeAt(3) :
       /\ fdt' = [fdt EXCEPT ![i1] = Owned("cgi_in", c), ![o0] = Owned("cgi_out", c)]
       /\ handler' = [handler EXCEPT ![c] =
            [started |-> TRUE, in0 |-> i0, in1 |-> i1, out0 |-> o0, out1 |-> o1,
             age |-> 0]]
  /\ child' = [child EXCEPT ![c] = "running"]
  /\ Handled(e)
  /\ UNCHANGED <<clients, cl, interest, backlog, net, life, sent>>

\* The script is started and, sentAll being set, killed in the same call: the six
\* descriptors come and go, and the client goes unanswered.
CgiStartsInVain(e) ==
  LET c == clients[e.fd] IN
  /\ CgiEvent(e) /\ cl[c].sentAll /\ ~handler[c].started /\ CanStart
  /\ RemoveClient(e.fd, {}, net)
  /\ child' = [child EXCEPT ![c] = "reaped"]
  /\ Handled(e) /\ UNCHANGED <<life, sent>>

\* send(), delete client once the output has ended; the child is waited for
\* without blocking (waitpid WNOHANG) and forgotten.
CgiAnswers(e, n, fate) ==
  \/ "killed" \in SendOutcomes(e.fd) /\ Dies
  \/ /\ RemoveClient(e.fd, {}, n)
     /\ child' = [child EXCEPT ![clients[e.fd]] = fate]
     /\ sent' = [sent EXCEPT ![clients[e.fd]] = @ \cup {"answer"}]
     /\ Handled(e) /\ UNCHANGED life

\* A script that ends its output before the same call reads it (a failed exec
\* does): the six descriptors come and go within the call.
CgiStartsAndEnds(e) ==
  LET c == clients[e.fd] IN
  /\ CgiEvent(e) /\ ~handler[c].started /\ CanStart
  /\ \E fate \in {"silent", "reaped"} : CgiAnswers(e, net, fate)

\* After a failed pipe() the uninitialised err_pipe names up to two numbers.
Garbage == IF CanStart THEN {{}} ELSE {g \in SUBSET Fd : Cardinality(g) <= 2}

\* startCGI throws and the handler is deleted: nothing is left of it, and the
\* numbers err_pipe happens to name are closed.  The error response is never sent:
\* the next event starts the script again, unless sentAll removes the client.
CgiFailsToStart(e) ==
  LET c == clients[e.fd] IN
  /\ CgiEvent(e) /\ ~handler[c].started
  /\ \E g \in Garbage :
       \/ cl[c].sentAll /\ DropClient(e, g, net)
       \/ /\ ~cl[c].sentAll
          /\ Shut(g, net)
          /\ Handled(e) /\ UNCHANGED <<clients, cl, handler, child, life, sent>>

\* read() until the end of what number f now names: a pipe ends when the child
\* has closed its side, a file always, a socket once its peer has closed.
AtEnd(f) ==
  /\ f \in Fd
  /\ \/ fdt[f].kind \in {"file", "upload"}
     \/ fdt[f].kind = "cgi_out" /\ child[fdt[f].of] # "running"
     \/ fdt[f].kind = "sock" /\ net[fdt[f].of].peer = "closed"

\* readOutput with more to come.
CgiReads(e) ==
  LET c == clients[e.fd]
      n == Drained(handler[c].out0, FALSE) IN
  /\ CgiEvent(e) /\ handler[c].started /\ ~AtEnd(handler[c].out0)
  /\ \/ cl[c].sentAll /\ DropClient(e, {}, n)
     \/ /\ ~cl[c].sentAll
        /\ net' = n
        /\ Handled(e)
        /\ UNCHANGED <<clients, cl, handler, fdt, interest, backlog, child, life, sent>>

\* readOutput at the end: a child that has exited is reaped, one that has not
\* is forgotten, and the answer is sent.
CgiEnds(e) ==
  LET c == clients[e.fd] IN
  /\ CgiEvent(e) /\ handler[c].started /\ AtEnd(handler[c].out0)
  /\ CgiAnswers(e, Drained(handler[c].out0, FALSE),
                IF child[c] = "zombie" THEN "reaped" ELSE child[c])

----------------------------------------------------------------------------
(* The outside world.                                                      *)

Connect(c, l) ==
  /\ up /\ net[c].peer = "away" /\ fdt[l] = Listening
  /\ net' = [net EXCEPT ![c].peer = "open"]
  /\ backlog' = [backlog EXCEPT ![l] = @ \cup {c}]
  /\ UNCHANGED <<loopVars, clients, cl, handler, fdt, interest, child, life, sent>>

\* Bound: what a peer sends after its request is complete is never looked at.
PeerSends(c) ==
  /\ up /\ net[c] = [peer |-> "open", pending |-> FALSE] /\ ~cl[c].complete
  /\ net' = [net EXCEPT ![c].pending = TRUE]
  /\ UNCHANGED <<loopVars, clients, cl, handler, fdt, interest, backlog, child,
                 life, sent>>

PeerLeaves(c, how) ==
  /\ up /\ net[c].peer = "open"
  /\ net' = [net EXCEPT ![c].peer = how]
  /\ UNCHANGED <<loopVars, clients, cl, handler, fdt, interest, backlog, child,
                 life, sent>>

\* A script closes its output, or exits.
ChildEndsOutput(c) ==
  /\ up /\ child[c] = "running"
  /\ child' = [child EXCEPT ![c] = "silent"]
  /\ UNCHANGED <<loopVars, kernelVars, clients, cl, handler, life, sent>>

ChildExits(c) ==
  /\ up /\ child[c] \in {"running", "silent"}
  /\ child' = [child EXCEPT ![c] = "zombie"]
  /\ UNCHANGED <<loopVars, kernelVars, clients, cl, handler, life, sent>>

----------------------------------------------------------------------------
Event == [fd : Fd, ev : {"in", "out"}]

Dispatch(e) ==
  \/ HandleListeningClient(e) \/ DropUnknown(e)
  \/ RecvFails(e)
  \/ \E rest \in BOOLEAN :
       \/ RequestGrows(e, rest)
       \/ UploadOpens(e, rest) \/ PartOpensNothing(e, rest) \/ UploadCloses(e, rest)
       \/ RespondPiece(e, rest)
  \/ \E ending \in Endings : RequestCompletes(e, ending)
  \/ RespondDone(e)
  \/ CgiStarts(e) \/ CgiStartsInVain(e) \/ CgiStartsAndEnds(e) \/ CgiFailsToStart(e)
  \/ CgiReads(e) \/ CgiEnds(e)

World ==
  \E c \in Conn : \/ \E l \in Listener : Connect(c, l)
                  \/ PeerSends(c)
                  \/ \E how \in {"closed", "reset"} : PeerLeaves(c, how)
                  \/ ChildEndsOutput(c) \/ ChildExits(c)

Next ==
  \/ \E t \in 0..MaxLag : EpollWait(t)
  \/ \E t \in 1..MaxBusy : Tick(t)
  \/ \E f \in Fd : HandleTimeOut(f)
  \/ \E e \in Event : Dispatch(e)
  \/ World

\* init_server has bound, listened and added every listening socket.
Init ==
  /\ up = TRUE /\ ready = {} /\ sweep = {} /\ busy = 0
  /\ clients = [f \in Fd |-> NoConn]
  /\ cl = [c \in Conn |-> Blank("none")]
  /\ handler = [c \in Conn |-> NoHandler]
  /\ fdt = [f \in Fd |-> IF f \in Listener THEN Listening ELSE Free]
  /\ interest = [f \in Fd |-> IF f \in Listener THEN "in" ELSE "none"]
  /\ backlog = [l \in Listener |-> {}]
  /\ net = [c \in Conn |-> [peer |-> "away", pending |-> FALSE]]
  /\ child = [c \in Conn |-> "none"]
  /\ life = [c \in Conn |-> 0]
  /\ sent = [c \in Conn |-> {}]

Spec == Init /\ [][Next]_vars

\* The process is scheduled and time passes: a handler that can run does, and
\* epoll_wait keeps returning at later and later seconds.  Nothing is asked of
\* peers, of scripts, or of the order and choice of events.
Fairness ==
  /\ WF_vars(\E f \in Fd : HandleTimeOut(f))
  /\ WF_vars(\E e \in Event : Dispatch(e))
  /\ SF_vars(\E t \in 1..MaxLag : EpollWait(t))

FairSpec == Spec /\ Fairness

----------------------------------------------------------------------------
(* Properties.                                                             *)

ClientState ==
  [obj : {"none", "live", "orphan", "deleted"}, complete : BOOLEAN, requesting : BOOLEAN,
   sentAll : BOOLEAN, isCGI : BOOLEAN, file : Fd \cup {NoFd},
   upload : Fd \cup {NoFd}, storing : BOOLEAN, finished : BOOLEAN,
   age : 0..Horizon]
HandlerState ==
  [started : BOOLEAN, in0 : Fd \cup {NoFd}, in1 : Fd \cup {NoFd},
   out0 : Fd \cup {NoFd}, out1 : Fd \cup {NoFd}, age : 0..Horizon]
Descriptor ==
  {Free, Listening}
    \cup [kind : {"sock", "file", "upload", "cgi_in", "cgi_out"}, of : Conn]

\* Every variable has its type; a client in the table is a connection.
TypeOK ==
  /\ up \in BOOLEAN
  /\ ready \subseteq Event
  /\ sweep \subseteq {f \in Fd : clients[f] # NoConn}
  /\ busy \in 0..MaxBusy
  /\ clients \in [Fd -> Conn \cup {NoConn}]
  /\ cl \in [Conn -> ClientState]
  /\ handler \in [Conn -> HandlerState]
  /\ fdt \in [Fd -> Descriptor]
  /\ interest \in [Fd -> {"none", "in", "out"}]
  /\ backlog \in [Listener -> SUBSET Conn]
  /\ net \in [Conn -> [peer : {"away", "open", "closed", "reset", "gone"},
                       pending : BOOLEAN]]
  /\ child \in [Conn -> {"none", "running", "silent", "zombie", "reaped"}]
  /\ life \in [Conn -> 0..Horizon]
  /\ sent \in [Conn -> SUBSET Pieces]

\* While responses need neither a file, an upload nor a script, the clients map
\* and the kernel's descriptors agree exactly, whatever stale events a batch
\* holds: no connection without its Client, no Client without its connection.
TableMatchesKernel ==
  \A f \in Fd, c \in Conn : clients[f] = c <=> fdt[f] = Owned("sock", c)

\* Whatever numbers are closed twice, an open connection is in the table under
\* its own number and is watched for what its Client expects next: the request
\* until it is complete, room to write afterwards.
SocketServed ==
  \A f \in Fd : fdt[f].kind = "sock" =>
    /\ clients[f] = fdt[f].of
    /\ interest[f] = IF cl[clients[f]].complete THEN "out" ELSE "in"

\* An object that remembers number f, and is in the table, so that handlers or
\* time-outs will delete it and close f; or was in the table until an accept took
\* its entry (run_server.cpp, line 36).
Holds(c, f, number) == number = f /\ (InTable(c) \/ cl[c].obj = "orphan")

\* A file being served and the two pipe ends of a script stay open only as long as
\* the Client or CGIHandler that remembers the number is in the table.  There is one
\* exception, named: an accept that overwrites the entry of a Client whose socket a
\* stale number has closed leaves what that Client holds open for good.
NoDescriptorLeak ==
  \A f \in Fd, c \in Conn :
    /\ fdt[f] = Owned("file", c) => Holds(c, f, cl[c].file)
    /\ fdt[f] = Owned("cgi_in", c) => Holds(c, f, handler[c].in1)
    /\ fdt[f] = Owned("cgi_out", c) => Holds(c, f, handler[c].out0)

\* As long as its Client lives and no end boundary has been met, the file of an
\* upload is open only between generateTmpFile and the boundary or the end of the
\* body, under the number the Request remembers; two parts never hold two files.
UploadTracked ==
  \A f \in Fd, c \in Conn :
    fdt[f] = Owned("upload", c) /\ cl[c].obj = "live" /\ ~cl[c].finished =>
      cl[c].storing /\ cl[c].upload = f

\* When handleTimeOut is through, nobody in the table has been connected for
\* longer than the two time-outs and the seconds two batches may take (the one its
\* request was completed in and the present one), however it dribbles its request
\* and however slowly it reads; and no script of theirs has run for longer than its
\* own time-out and the present batch.  Scripts of Clients whose entry an accept
\* took are watched by nobody.
ServedInTime ==
  sweep = {} => \A c \in Conn : InTable(c) =>
    /\ life[c] <= REQUEST_TIMEOUT + RESPONSE_TIMEOUT + MaxBusy + busy
    /\ handler[c].started => cl[c].isCGI /\ handler[c].age <= CGI_TIMEOUT + busy

\* Removing a client whose script still writes to the pipe its CGIHandler reads
\* never leaves the script behind, whichever handler removes it: it is killed and
\* waited for.
ScriptKilled ==
  [][\A c \in Conn :
       handler[c].started /\ ~handler'[c].started /\ child[c] = "running"
         /\ fdt[handler[c].out0] = Owned("cgi_out", c)
       => child'[c] = "reaped"]_vars

\* A client for which handleClientResponse would say "Response has been sent"
\* (run_server.cpp, line 103) has been sent what its request asked for.
NeverSkipsResponse ==
  \A c \in Conn : cl[c].complete /\ cl[c].sentAll => "answer" \in sent[c]
=============================================================================
