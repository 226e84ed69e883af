--------------------------- MODULE EventLoopProofs ---------------------------
(***************************************************************************)
(* Theorems about EventLoop, for any number of connections, descriptors    *)
(* and events, and any time-outs.                                          *)
(*                                                                         *)
(* The numbers that handlers close may be stale, so no invariant can say   *)
(* that a Client's number names its own socket.  What survives is the      *)
(* other direction: what the kernel has open leads back to an object that  *)
(* remembers it.  The inductive invariant IInv is that direction, with     *)
(* what it needs about the table (TableInv), the objects (ObjectInv), the  *)
(* batch of events (EventInv) and the clock (ClockInv).                    *)
(*                                                                         *)
(* The second half is about the promise of Service: every step is one of a *)
(* few as far as it is concerned.  The last part shows what may end the    *)
(* process.                                                                *)
(***************************************************************************)
EXTENDS EventLoopService, FiniteSetTheorems, TLAPS

\* Who is in the table is there under one number only, and lives; who lives is in
\* the table; and who has not been accepted is untouched, and waits at one listening
\* socket at most.
TableInv ==
  /\ \A f \in Fd : clients[f] # NoConn => cl[clients[f]].obj = "live"
  /\ \A c \in Conn : cl[c].obj = "live" => InTable(c)
  /\ \A f, g \in Fd : clients[f] = clients[g] /\ clients[f] # NoConn => f = g
  /\ \A l, m \in Listener : \A c \in backlog[l] \cap backlog[m] : l = m
  /\ \A l \in Listener : \A c \in backlog[l] :
       cl[c].obj = "none" /\ net[c].peer # "away"
  /\ \A c \in Conn : cl[c].obj = "none" => life[c] = 0
  /\ \A c \in Conn : net[c].peer = "away" => cl[c].obj = "none"

\* Before its request is complete a client has no file, no script and the
\* request's time-out; its upload never has the number of its own socket.
ObjectInv ==
  \A c \in Conn :
    /\ cl[c].requesting <=> ~cl[c].complete
    /\ ~cl[c].complete => cl[c].file = NoFd /\ ~cl[c].isCGI
    /\ ~cl[c].isCGI => ~handler[c].started
    /\ ~handler[c].started => handler[c] = NoHandler
    /\ cl[c].upload \in Fd => fdt[cl[c].upload] # Owned("sock", c)
    /\ cl[c].obj = "none" =>
         ~cl[c].isCGI /\ \A f \in Fd : fdt[f] # Owned("upload", c)

\* epoll watches listening sockets and connections, nothing else; an EPOLLIN
\* event met in a batch is of a client whose request is not complete.
EventInv ==
  /\ \A f \in Fd : fdt[f] = Listening => f \in Listener
  /\ \A f \in Fd : interest[f] # "none" =>
       fdt[f] = Listening \/ fdt[f].kind = "sock"
  /\ \A e \in ready :
       e.ev = "in" /\ e.fd \notin Listener /\ clients[e.fd] # NoConn
         => ~cl[clients[e.fd]].complete

\* A deadline that was past when the time-outs were last looked for: later than
\* that by no more than what the batch has taken since.
Late(c) ==
  \/ cl[c].age > busy + (IF cl[c].requesting THEN REQUEST_TIMEOUT ELSE RESPONSE_TIMEOUT)
  \/ cl[c].isCGI /\ handler[c].started /\ handler[c].age > busy + CGI_TIMEOUT

\* Who is late is still to be swept; a client's age counts from its acceptance, or
\* from the completion of a request that was not late.
ClockInv ==
  /\ \A f \in Fd : clients[f] # NoConn /\ Late(clients[f]) => f \in sweep
  /\ \A c \in Conn : InTable(c) =>
       life[c] <= IF cl[c].requesting THEN cl[c].age
                  ELSE REQUEST_TIMEOUT + MaxBusy + cl[c].age

\* Objects that have been accepted and not deleted.
Standing == {"live", "orphan"}

\* What is open for a file or a script is remembered by an object not yet deleted.
Remembered ==
  \A f \in Fd, c \in Conn :
    /\ fdt[f] = Owned("file", c) => cl[c].obj \in Standing /\ cl[c].file = f
    /\ fdt[f] = Owned("cgi_in", c) => cl[c].obj \in Standing /\ handler[c].in1 = f
    /\ fdt[f] = Owned("cgi_out", c) => cl[c].obj \in Standing /\ handler[c].out0 = f

IInv ==
  /\ TypeOK /\ TableInv /\ ObjectInv /\ EventInv
  /\ SocketServed /\ Remembered /\ UploadTracked /\ ClockInv

----------------------------------------------------------------------------
(* What the helpers return.                                                *)

LEMMA NoFdNotFd == NoFd \notin Fd
BY FdAssumption DEF NoFd

\* Descriptors of different kinds, or of different clients, differ.
LEMMA OwnedFacts ==
  \A k, c : /\ Owned(k, c).kind = k /\ Owned(k, c).of = c
            /\ k \in {"sock", "file", "upload", "cgi_in", "cgi_out"} =>
                 Free # Owned(k, c) /\ Listening # Owned(k, c)
            /\ Free # Listening
BY DEF Owned, Free, Listening

\* A socket belongs to the client in the table under its number.
LEMMA SocketOf ==
  ASSUME TypeOK, SocketServed, NEW f \in Fd, fdt[f].kind = "sock"
  PROVE  clients[f] = fdt[f].of /\ clients[f] \in Conn
<1>1. fdt[f].of \in Conn
  BY DEF TypeOK, Descriptor, Free, Listening
<1> QED
  BY <1>1 DEF SocketServed

\* The initial state satisfies the invariant.
LEMMA InitIInv == Init => IInv
<1> SUFFICES ASSUME Init PROVE IInv
  OBVIOUS
<1> USE NoFdNotFd, ConnAssumption, FdAssumption, TimeAssumption
<1> USE DEF Init, Blank, NoHandler, Free, Listening, Owned
<1>1. 0 \in 0..Horizon /\ 0 \in 0..MaxBusy
  BY DEF Horizon
<1>2. TypeOK
  BY <1>1 DEF TypeOK, ClientState, HandlerState, Descriptor, Event, Pieces
<1>3. TableInv /\ ObjectInv /\ EventInv
  BY DEF TableInv, ObjectInv, EventInv, InTable
<1>4. SocketServed /\ Remembered /\ UploadTracked
  BY DEF SocketServed, Remembered, UploadTracked
<1>5. ClockInv
  BY DEF ClockInv, InTable
<1> QED
  BY <1>2, <1>3, <1>4, <1>5 DEF IInv

\* A process that ends changes nothing else.
LEMMA DiesIInv == IInv /\ Dies => IInv'
<1> SUFFICES ASSUME IInv, Dies PROVE IInv'
  OBVIOUS
<1> USE DEF IInv, Dies, kernelVars
<1>1. TypeOK'
  BY DEF TypeOK
<1>2. TableInv' /\ ObjectInv' /\ EventInv'
  BY DEF TableInv, ObjectInv, EventInv, InTable
<1>3. SocketServed' /\ Remembered' /\ UploadTracked'
  BY DEF SocketServed, Remembered, UploadTracked
<1>4. ClockInv'
  BY DEF ClockInv, InTable, Late
<1> QED
  BY <1>1, <1>2, <1>3, <1>4

----------------------------------------------------------------------------
(* The steps that close descriptors: deleting a client is one of them.     *)

NetState == [peer : {"away", "open", "closed", "reset", "gone"}, pending : BOOLEAN]
ChildState == {"none", "running", "silent", "zombie", "reaped"}

\* Reading a socket changes what is pending and nothing else.
LEMMA DrainedNet ==
  ASSUME TypeOK, NEW f, NEW rest \in BOOLEAN
  PROVE  /\ Drained(f, rest) \in [Conn -> NetState]
         /\ \A c \in Conn : Drained(f, rest)[c].peer = net[c].peer
<1> USE DEF TypeOK, Drained, NetState
<1>1. CASE f \in Fd /\ fdt[f].kind = "sock"
  <2>1. fdt[f].of \in Conn
    BY <1>1 DEF Descriptor, Free, Listening
  <2> QED
    BY <1>1, <2>1
<1>2. CASE ~(f \in Fd /\ fdt[f].kind = "sock")
  BY <1>2
<1> QED
  BY <1>1, <1>2

\* After close() on any numbers, a descriptor that is still open is unchanged,
\* and no connection comes back.
LEMMA ShutFacts ==
  ASSUME TypeOK, NEW S, NEW n \in [Conn -> NetState], Shut(S, n),
         \A c \in Conn : n[c].peer = net[c].peer
  PROVE  /\ fdt' \in [Fd -> Descriptor]
         /\ interest' \in [Fd -> {"none", "in", "out"}]
         /\ net' \in [Conn -> NetState]
         /\ backlog' = backlog
         /\ \A f \in Fd : f \in S => fdt'[f] = Free /\ interest'[f] = "none"
         /\ \A f \in Fd : f \notin S =>
              fdt'[f] = fdt[f] /\ interest'[f] = interest[f]
         /\ \A c \in Conn : net'[c].peer = "away" => net[c].peer = "away"
BY DEF TypeOK, Shut, FdtWithout, InterestWithout, NetWithout, NetState, Descriptor

\* Deleting the client in the table under f, whatever numbers that closes.
LEMMA RemoveIInv ==
  ASSUME IInv, NEW f \in Fd, clients[f] # NoConn, NEW S,
         NEW n \in [Conn -> NetState], \A c \in Conn : n[c].peer = net[c].peer,
         RemoveClient(f, S, n), child' \in [Conn -> ChildState],
         ready' \subseteq ready, sweep' = sweep \ {f}, busy' = busy,
         life' = life, up' = up, sent' \in [Conn -> SUBSET Pieces]
  PROVE  IInv'
<1> DEFINE c == clients[f]
<1> USE NoFdNotFd, ConnAssumption, FdAssumption DEF IInv
<1>1. c \in Conn /\ c = clients[f] /\ cl[c].obj = "live"
  BY DEF TypeOK, TableInv
<1>2. /\ clients' = [clients EXCEPT ![f] = NoConn]
      /\ cl' = [cl EXCEPT ![c] = Blank("deleted")]
      /\ handler' = [handler EXCEPT ![c] = NoHandler]
      /\ Shut(S \cup ClosedBy(f), n)
  BY DEF RemoveClient
<1> HIDE DEF c
<1>3. /\ fdt' \in [Fd -> Descriptor]
      /\ interest' \in [Fd -> {"none", "in", "out"}]
      /\ net' \in [Conn -> NetState]
      /\ backlog' = backlog
      /\ \A g \in Fd : g \in S \cup ClosedBy(f) => fdt'[g] = Free /\ interest'[g] = "none"
      /\ \A g \in Fd : g \notin S \cup ClosedBy(f) =>
           fdt'[g] = fdt[g] /\ interest'[g] = interest[g]
      /\ \A d \in Conn : net'[d].peer = "away" => net[d].peer = "away"
  BY <1>2, ShutFacts
<1>4. Blank("deleted") \in ClientState /\ NoHandler \in HandlerState
  BY TimeAssumption DEF Blank, NoHandler, ClientState, HandlerState, Horizon
<1>5. TypeOK'
  BY <1>1, <1>2, <1>3, <1>4 DEF TypeOK, ChildState, NetState
<1>6. \A g \in Fd : clients'[g] # NoConn => clients'[g] = clients[g] /\ clients[g] # c
  BY <1>1, <1>2 DEF TypeOK, TableInv
<1>7. \A d \in Conn : d # c => cl'[d] = cl[d] /\ handler'[d] = handler[d]
  BY <1>2 DEF TypeOK
<1>8. cl'[c] = Blank("deleted") /\ handler'[c] = NoHandler
  BY <1>1, <1>2 DEF TypeOK
<1>9. TableInv'
  <2>1. \A g \in Fd : clients'[g] # NoConn => cl'[clients'[g]].obj = "live"
    <3> SUFFICES ASSUME NEW g \in Fd, clients'[g] # NoConn
                 PROVE  cl'[clients'[g]].obj = "live"
      OBVIOUS
    <3>1. clients'[g] = clients[g] /\ clients[g] # c
      BY <1>6
    <3>2. clients[g] \in Conn
      BY <3>1 DEF TypeOK
    <3>3. cl[clients[g]].obj = "live"
      BY <3>1 DEF TableInv
    <3> QED
      BY <3>1, <3>2, <3>3, <1>7
  <2>2. \A g, h \in Fd :
          clients'[g] = clients'[h] /\ clients'[g] # NoConn => g = h
    BY <1>6 DEF TableInv
  <2>3. \A d \in Conn : cl'[d].obj = "none" => d # c /\ cl[d].obj = "none"
    BY <1>1, <1>7, <1>8 DEF Blank
  <2>4. \A d \in Conn : cl[d].obj = "none" => cl'[d].obj = "none"
    BY <1>1, <1>7
  <2>5. \A l \in Listener : backlog[l] \subseteq Conn
    BY DEF TypeOK
  <2>6. \A d \in Conn : cl'[d].obj = "live" => InTable(d)'
    <3> SUFFICES ASSUME NEW d \in Conn, cl'[d].obj = "live" PROVE InTable(d)'
      OBVIOUS
    <3>1. d # c /\ cl[d].obj = "live"
      BY <1>7, <1>8 DEF Blank
    <3>2. PICK g \in Fd : clients[g] = d
      BY <3>1 DEF TableInv, InTable
    <3>3. clients'[g] = d
      BY <1>1, <1>2, <3>1, <3>2 DEF TypeOK
    <3> QED
      BY <3>3 DEF InTable
  <2> QED
    BY <1>3, <2>1, <2>2, <2>3, <2>4, <2>5, <2>6 DEF TableInv
<1>10. ObjectInv'
  <2> SUFFICES ASSUME NEW d \in Conn
               PROVE  /\ cl'[d].requesting <=> ~cl'[d].complete
                      /\ ~cl'[d].complete => cl'[d].file = NoFd /\ ~cl'[d].isCGI
                      /\ ~cl'[d].isCGI => ~handler'[d].started
                      /\ ~handler'[d].started => handler'[d] = NoHandler
                      /\ cl'[d].upload \in Fd =>
                           fdt'[cl'[d].upload] # Owned("sock", d)
                      /\ cl'[d].obj = "none" =>
                           /\ ~cl'[d].isCGI
                           /\ \A g \in Fd : fdt'[g] # Owned("upload", d)
    BY DEF ObjectInv
  <2>1. \A g \in Fd : fdt'[g] = fdt[g] \/ fdt'[g] = Free
    BY <1>3
  <2>2. CASE d = c
    BY <2>2, <1>8, NoFdNotFd DEF Blank, NoHandler
  <2>3. CASE d # c
    <3>1. cl'[d] = cl[d] /\ handler'[d] = handler[d]
      BY <2>3, <1>7
    <3>2. \A k \in {"sock", "upload"} : \A g \in Fd :
            fdt[g] # Owned(k, d) => fdt'[g] # Owned(k, d)
      BY <2>1, OwnedFacts
    <3> QED
      BY <3>1, <3>2 DEF ObjectInv
  <2> QED
    BY <2>2, <2>3
<1>11. EventInv'
  <2>1. \A g \in Fd : \/ fdt'[g] = fdt[g] /\ interest'[g] = interest[g]
                      \/ fdt'[g] = Free /\ interest'[g] = "none"
    BY <1>3
  <2>2. \A g \in Fd : fdt'[g] = Listening => g \in Listener
    BY <2>1 DEF EventInv, Free, Listening
  <2>3. \A g \in Fd : interest'[g] # "none" =>
          fdt'[g] = Listening \/ fdt'[g].kind = "sock"
    BY <2>1 DEF EventInv
  <2>4. ASSUME NEW e \in ready', e.ev = "in", e.fd \notin Listener,
               clients'[e.fd] # NoConn
        PROVE  ~cl'[clients'[e.fd]].complete
    <3>1. e \in ready /\ e.fd \in Fd
      BY <2>4 DEF TypeOK, Event
    <3>2. clients'[e.fd] = clients[e.fd] /\ clients[e.fd] # c /\ clients[e.fd] # NoConn
      BY <3>1, <2>4, <1>6
    <3>3. clients[e.fd] \in Conn
      BY <3>1, <3>2 DEF TypeOK
    <3> QED
      BY <3>1, <3>2, <3>3, <2>4, <1>7 DEF EventInv
  <2> QED
    BY <2>2, <2>3, <2>4 DEF EventInv
<1>12. SocketServed'
  <2> SUFFICES ASSUME NEW g \in Fd, fdt'[g].kind = "sock"
               PROVE  /\ clients'[g] = fdt'[g].of
                      /\ interest'[g] = IF cl'[clients'[g]].complete
                                        THEN "out" ELSE "in"
    BY DEF SocketServed
  <2>0. Free.kind # "sock"
    BY DEF Free
  <2>1. g \notin S \cup ClosedBy(f)
    BY <1>3, <2>0
  <2>2. g # f /\ fdt'[g] = fdt[g] /\ interest'[g] = interest[g]
    BY <2>1, <1>3 DEF ClosedBy
  <2>3. clients'[g] = clients[g] /\ fdt[g].kind = "sock"
    BY <2>2, <1>2 DEF TypeOK
  <2>4. clients[g] \in Conn
    BY <2>3, SocketOf
  <2>5. clients[g] # c
    BY <2>2, <2>3, <2>4, <1>1 DEF TableInv
  <2> QED
    BY <2>2, <2>3, <2>4, <2>5, <1>7 DEF SocketServed
<1>13. Remembered'
  <2> SUFFICES ASSUME NEW g \in Fd, NEW d \in Conn
               PROVE  /\ fdt'[g] = Owned("file", d) =>
                           cl'[d].obj \in Standing /\ cl'[d].file = g
                      /\ fdt'[g] = Owned("cgi_in", d) =>
                           cl'[d].obj \in Standing /\ handler'[d].in1 = g
                      /\ fdt'[g] = Owned("cgi_out", d) =>
                           cl'[d].obj \in Standing /\ handler'[d].out0 = g
    BY DEF Remembered
  <2>1. CASE fdt'[g] = Free
    BY <2>1, OwnedFacts
  <2>2. CASE fdt'[g] # Free
    <3>1. g \notin S \cup ClosedBy(f) /\ fdt'[g] = fdt[g]
      BY <1>3, <2>2
    <3>2. CASE d = c
      <4>1. g # cl[c].file /\ g # handler[c].in1 /\ g # handler[c].out0
        BY <1>1, <3>1 DEF ClosedBy, ObjectFds, HandlerFds
      <4> QED
        BY <3>1, <3>2, <4>1 DEF Remembered
    <3>3. CASE d # c
      BY <3>1, <3>3, <1>7 DEF Remembered
    <3> QED
      BY <3>2, <3>3
  <2> QED
    BY <2>1, <2>2
<1>14. UploadTracked'
  <2>1. \A g \in Fd : fdt'[g] = fdt[g] \/ fdt'[g] = Free
    BY <1>3
  <2>2. cl'[c].obj # "live"
    BY <1>8 DEF Blank
  <2> QED
    BY <2>1, <2>2, <1>7 DEF UploadTracked, Owned, Free
<1>15. ClockInv'
  BY <1>1, <1>2, <1>6, <1>7 DEF ClockInv, InTable, TypeOK, Late
<1> QED
  BY <1>5, <1>9, <1>10, <1>11, <1>12, <1>13, <1>14, <1>15

----------------------------------------------------------------------------
(* The steps that at most close descriptors, and set flags of Clients.     *)

\* Descriptor f is as it was, or closed.
KeptOrClosed(f) ==
  \/ fdt'[f] = fdt[f] /\ interest'[f] = interest[f]
  \/ fdt'[f] = Free /\ interest'[f] = "none"

\* Of the Client of c, only sentAll, storing and finished may change, and the last
\* two only when c has no upload file left, or its end boundary has been met.
OnlyFlagsChange(c) ==
  /\ cl'[c].obj = cl[c].obj /\ cl'[c].complete = cl[c].complete
  /\ cl'[c].requesting = cl[c].requesting /\ cl'[c].isCGI = cl[c].isCGI
  /\ cl'[c].file = cl[c].file /\ cl'[c].upload = cl[c].upload
  /\ cl'[c].age = cl[c].age
  /\ \/ cl'[c].storing = cl[c].storing /\ cl'[c].finished = cl[c].finished
     \/ \A f \in Fd : fdt'[f] # Owned("upload", c)
     \/ cl'[c].finished

LEMMA ShutKeeps ==
  ASSUME TypeOK, NEW S, NEW n \in [Conn -> NetState], Shut(S, n),
         \A c \in Conn : n[c].peer = net[c].peer
  PROVE  /\ fdt' \in [Fd -> Descriptor]
         /\ interest' \in [Fd -> {"none", "in", "out"}]
         /\ net' \in [Conn -> NetState]
         /\ backlog' = backlog
         /\ \A f \in Fd : f \in S => fdt'[f] = Free
         /\ \A f \in Fd : f \notin S => fdt'[f] = fdt[f]
         /\ \A f \in Fd : KeptOrClosed(f)
         /\ \A c \in Conn : net'[c].peer = "away" => net[c].peer = "away"
<1>1. /\ fdt' \in [Fd -> Descriptor]
      /\ interest' \in [Fd -> {"none", "in", "out"}]
      /\ net' \in [Conn -> NetState]
      /\ backlog' = backlog
      /\ \A f \in Fd : f \in S => fdt'[f] = Free /\ interest'[f] = "none"
      /\ \A f \in Fd : f \notin S =>
           fdt'[f] = fdt[f] /\ interest'[f] = interest[f]
      /\ \A c \in Conn : net'[c].peer = "away" => net[c].peer = "away"
  BY ShutFacts
<1> QED
  BY <1>1 DEF KeptOrClosed

LEMMA FrameIInv ==
  ASSUME IInv,
         clients' = clients, handler' = handler, backlog' = backlog,
         life' = life, sweep' = sweep, busy' = busy, ready' \subseteq ready,
         up' \in BOOLEAN,
         child' \in [Conn -> ChildState], sent' \in [Conn -> SUBSET Pieces],
         net' \in [Conn -> NetState], fdt' \in [Fd -> Descriptor],
         interest' \in [Fd -> {"none", "in", "out"}],
         cl' \in [Conn -> ClientState],
         \A c \in Conn : net'[c].peer = "away" => net[c].peer = "away",
         \A f \in Fd : KeptOrClosed(f),
         \A c \in Conn : OnlyFlagsChange(c)
  PROVE  IInv'
<1> USE NoFdNotFd, ConnAssumption, FdAssumption DEF IInv
<1>1. TypeOK'
  BY DEF TypeOK, ChildState, NetState
<1>2. \A f \in Fd : fdt'[f] = fdt[f] \/ fdt'[f] = Free
  BY DEF KeptOrClosed
<1>3. \A f \in Fd : clients[f] # NoConn => clients[f] \in Conn
  BY DEF TypeOK
<1>4. TableInv'
  <2>1. \A l \in Listener : backlog[l] \subseteq Conn
    BY DEF TypeOK
  <2>2. \A c \in Conn : cl'[c].obj = cl[c].obj
    BY DEF OnlyFlagsChange
  <2> QED
    BY <1>3, <2>1, <2>2 DEF TableInv, InTable
<1>5. ObjectInv'
  <2> SUFFICES ASSUME NEW d \in Conn
               PROVE  /\ cl'[d].requesting <=> ~cl'[d].complete
                      /\ ~cl'[d].complete => cl'[d].file = NoFd /\ ~cl'[d].isCGI
                      /\ ~cl'[d].isCGI => ~handler'[d].started
                      /\ ~handler'[d].started => handler'[d] = NoHandler
                      /\ cl'[d].upload \in Fd =>
                           fdt'[cl'[d].upload] # Owned("sock", d)
                      /\ cl'[d].obj = "none" =>
                           /\ ~cl'[d].isCGI
                           /\ \A g \in Fd : fdt'[g] # Owned("upload", d)
    BY DEF ObjectInv
  <2>1. \A k \in {"sock", "upload"} : \A g \in Fd :
          fdt[g] # Owned(k, d) => fdt'[g] # Owned(k, d)
    BY <1>2, OwnedFacts
  <2>2. OnlyFlagsChange(d)
    OBVIOUS
  <2>3. /\ cl'[d].requesting <=> ~cl'[d].complete
        /\ ~cl'[d].complete => cl'[d].file = NoFd /\ ~cl'[d].isCGI
        /\ ~cl'[d].isCGI => ~handler'[d].started
        /\ ~handler'[d].started => handler'[d] = NoHandler
    BY <2>2 DEF ObjectInv, OnlyFlagsChange
  <2>4. cl'[d].upload \in Fd => fdt'[cl'[d].upload] # Owned("sock", d)
    <3> SUFFICES ASSUME cl'[d].upload \in Fd
                 PROVE  fdt'[cl'[d].upload] # Owned("sock", d)
      OBVIOUS
    <3> DEFINE u == cl[d].upload
    <3>1. cl'[d].upload = u
      BY <2>2 DEF OnlyFlagsChange
    <3>2. u \in Fd /\ fdt[u] # Owned("sock", d)
      BY <3>1 DEF ObjectInv
    <3> HIDE DEF u
    <3>3. fdt'[u] # Owned("sock", d)
      BY <2>1, <3>2
    <3> QED
      BY <3>1, <3>3
  <2>5. cl'[d].obj = "none" =>
          ~cl'[d].isCGI /\ \A g \in Fd : fdt'[g] # Owned("upload", d)
    BY <2>1, <2>2 DEF ObjectInv, OnlyFlagsChange
  <2> QED
    BY <2>3, <2>4, <2>5
<1>6. EventInv'
  <2>1. \A g \in Fd : fdt'[g] = Listening => g \in Listener
    BY <1>2, OwnedFacts DEF EventInv
  <2>2. \A g \in Fd : interest'[g] # "none" =>
          fdt'[g] = Listening \/ fdt'[g].kind = "sock"
    BY DEF EventInv, KeptOrClosed
  <2>3. \A e \in ready' : e \in ready /\ e.fd \in Fd
    BY DEF TypeOK, Event
  <2> QED
    BY <2>1, <2>2, <2>3, <1>3 DEF EventInv, OnlyFlagsChange
<1>7. SocketServed'
  <2> SUFFICES ASSUME NEW g \in Fd, fdt'[g].kind = "sock"
               PROVE  /\ clients'[g] = fdt'[g].of
                      /\ interest'[g] = IF cl'[clients'[g]].complete
                                        THEN "out" ELSE "in"
    BY DEF SocketServed
  <2>1. fdt'[g] = fdt[g] /\ interest'[g] = interest[g]
    BY DEF KeptOrClosed, Free
  <2>2. clients[g] \in Conn
    BY <2>1, SocketOf
  <2> QED
    BY <2>1, <2>2 DEF SocketServed, OnlyFlagsChange
<1>8. Remembered'
  <2>1. \A k \in {"file", "cgi_in", "cgi_out"} : \A g \in Fd, d \in Conn :
          fdt'[g] = Owned(k, d) => fdt[g] = Owned(k, d)
    BY <1>2, OwnedFacts
  <2> QED
    BY <2>1 DEF Remembered, OnlyFlagsChange
<1>9. UploadTracked'
  <2>1. \A g \in Fd, d \in Conn :
          fdt'[g] = Owned("upload", d) => fdt[g] = Owned("upload", d)
    BY <1>2, OwnedFacts
  <2> QED
    BY <2>1 DEF UploadTracked, OnlyFlagsChange
<1>10. ClockInv'
  <2>1. \A g \in Fd : clients[g] # NoConn =>
          (Late(clients[g])' <=> Late(clients[g]))
    BY <1>3 DEF Late, OnlyFlagsChange
  <2>2. \A g \in Fd : clients'[g] # NoConn /\ Late(clients[g])' => g \in sweep'
    BY <2>1 DEF ClockInv
  <2>3. ASSUME NEW d \in Conn, InTable(d)'
        PROVE  life'[d] <= IF cl'[d].requesting THEN cl'[d].age
                           ELSE REQUEST_TIMEOUT + MaxBusy + cl'[d].age
    BY <2>3 DEF ClockInv, InTable, OnlyFlagsChange
  <2> QED
    BY <2>2, <2>3 DEF ClockInv
<1> QED
  BY <1>1, <1>4, <1>5, <1>6, <1>7, <1>8, <1>9, <1>10

----------------------------------------------------------------------------
(* Time goes by: only ages change, and whoever is late is to be swept.     *)

LEMMA OlderFacts ==
  ASSUME NEW x \in 0..Horizon, NEW t \in Nat
  PROVE  Older(x, t) \in 0..Horizon /\ x <= Older(x, t) /\ Older(x, t) <= x + t
BY TimeAssumption DEF Older, Horizon

LEMMA ElapseIInv ==
  ASSUME IInv, NEW t \in Nat, Elapse(t),
         UNCHANGED <<up, clients, fdt, interest, backlog, net, child, sent>>,
         ready' \subseteq Event, busy' \in 0..MaxBusy,
         sweep' \subseteq {f \in Fd : clients[f] # NoConn},
         \A e \in ready' : e \in ready \/ (e.ev = "in" => interest[e.fd] = "in"),
         \A f \in Fd : clients[f] # NoConn /\ Late(clients[f])' => f \in sweep'
  PROVE  IInv'
<1> USE NoFdNotFd, ConnAssumption, FdAssumption DEF IInv
<1>1. UNCHANGED <<up, clients, fdt, interest, backlog, net, child, sent>>
  OBVIOUS
<1>2. Elapse(t)
  OBVIOUS
<1>0. \A c \in Conn : /\ cl[c] \in ClientState /\ handler[c] \in HandlerState
                       /\ life[c] \in 0..Horizon
  BY DEF TypeOK
<1>3. \A c \in Conn :
        /\ \/ cl'[c] = cl[c] \/ cl'[c] = [cl[c] EXCEPT !.age = Older(cl[c].age, t)]
        /\ \/ handler'[c] = handler[c]
           \/ /\ handler[c].started
              /\ handler'[c] = [handler[c] EXCEPT !.age = Older(handler[c].age, t)]
        /\ life'[c] = life[c] \/ life'[c] = Older(life[c], t)
  BY <1>2 DEF Elapse
<1>4. /\ cl' \in [Conn -> ClientState]
      /\ handler' \in [Conn -> HandlerState]
      /\ life' \in [Conn -> 0..Horizon]
  <2>1. ASSUME NEW c \in Conn PROVE cl'[c] \in ClientState
    <3>1. cl[c].age \in 0..Horizon /\ Older(cl[c].age, t) \in 0..Horizon
      BY <1>0, OlderFacts DEF ClientState
    <3>2. [cl[c] EXCEPT !.age = Older(cl[c].age, t)] \in ClientState
      BY <1>0, <3>1 DEF ClientState
    <3> QED
      BY <1>0, <1>3, <3>2
  <2>2. ASSUME NEW c \in Conn PROVE handler'[c] \in HandlerState
    <3>1. Older(handler[c].age, t) \in 0..Horizon
      BY <1>0, OlderFacts DEF HandlerState
    <3>2. [handler[c] EXCEPT !.age = Older(handler[c].age, t)] \in HandlerState
      BY <1>0, <3>1 DEF HandlerState
    <3> QED
      BY <1>0, <1>3, <3>2
  <2>3. ASSUME NEW c \in Conn PROVE life'[c] \in 0..Horizon
    <3>1. Older(life[c], t) \in 0..Horizon
      BY <1>0, OlderFacts
    <3> QED
      BY <1>0, <1>3, <3>1
  <2> QED
    BY <1>2, <2>1, <2>2, <2>3 DEF Elapse
<1>5. \A c \in Conn :
        /\ cl'[c].obj = cl[c].obj /\ cl'[c].complete = cl[c].complete
        /\ cl'[c].requesting = cl[c].requesting /\ cl'[c].isCGI = cl[c].isCGI
        /\ cl'[c].file = cl[c].file /\ cl'[c].upload = cl[c].upload
        /\ cl'[c].storing = cl[c].storing /\ cl'[c].finished = cl[c].finished
  <2> TAKE c \in Conn
  <2>1. CASE cl'[c] = cl[c]
    BY <2>1
  <2>2. CASE cl'[c] = [cl[c] EXCEPT !.age = Older(cl[c].age, t)]
    BY <2>2, <1>0 DEF ClientState
  <2> QED
    BY <2>1, <2>2, <1>3
<1>6. \A c \in Conn :
        /\ handler'[c].started = handler[c].started
        /\ handler'[c].in1 = handler[c].in1 /\ handler'[c].out0 = handler[c].out0
        /\ ~handler[c].started => handler'[c] = handler[c]
  <2> TAKE c \in Conn
  <2>1. CASE handler'[c] = handler[c]
    BY <2>1
  <2>2. CASE /\ handler[c].started
             /\ handler'[c] = [handler[c] EXCEPT !.age = Older(handler[c].age, t)]
    BY <2>2, <1>0, ZenonT(90) DEF HandlerState
  <2> QED
    BY <2>1, <2>2, <1>3
<1>7. \A f \in Fd : clients[f] # NoConn => clients[f] \in Conn
  BY DEF TypeOK
<1>8. TypeOK'
  <2>1. sweep' \subseteq {f \in Fd : clients'[f] # NoConn}
    BY <1>1
  <2> QED
    BY <1>1, <1>4, <2>1 DEF TypeOK
<1>9. TableInv'
  <2>1. \A l \in Listener : backlog[l] \subseteq Conn
    BY DEF TypeOK
  <2>2. \A c \in Conn : ~InTable(c) => life'[c] = life[c]
    BY <1>2 DEF Elapse
  <2>3. \A c \in Conn : cl[c].obj = "none" => ~InTable(c)
    BY DEF TableInv, InTable
  <2> QED
    BY <1>1, <1>5, <1>7, <2>1, <2>2, <2>3 DEF TableInv, InTable
<1>10. ObjectInv'
  BY <1>1, <1>5, <1>6 DEF ObjectInv
<1>11. SocketServed'
  <2> SUFFICES ASSUME NEW f \in Fd, fdt[f].kind = "sock"
               PROVE  /\ clients[f] = fdt[f].of
                      /\ interest[f] = IF cl'[clients[f]].complete THEN "out" ELSE "in"
    BY <1>1 DEF SocketServed
  <2>1. clients[f] \in Conn
    BY SocketOf
  <2>2. cl'[clients[f]].complete = cl[clients[f]].complete
    BY <1>5, <2>1
  <2> QED
    BY <2>2 DEF SocketServed
<1>12. EventInv'
  <2>1. ASSUME NEW e \in ready', e.ev = "in", e.fd \notin Listener,
               clients'[e.fd] # NoConn
        PROVE  ~cl'[clients'[e.fd]].complete
    <3>1. e.fd \in Fd /\ (e \in ready \/ interest[e.fd] = "in")
      BY <2>1 DEF Event
    <3>2. clients[e.fd] # NoConn /\ clients[e.fd] \in Conn
      BY <1>1, <1>7, <2>1, <3>1
    <3>3. e \in ready => ~cl[clients[e.fd]].complete
      BY <2>1, <3>2 DEF EventInv
    <3>4. ASSUME interest[e.fd] = "in" PROVE ~cl[clients[e.fd]].complete
      <4>1. fdt[e.fd].kind = "sock"
        BY <3>1, <3>4, <2>1 DEF EventInv
      <4> QED
        BY <3>1, <3>4, <4>1 DEF SocketServed
    <3>5. ~cl[clients[e.fd]].complete /\ clients'[e.fd] = clients[e.fd]
      BY <1>1, <3>1, <3>3, <3>4
    <3> QED
      BY <1>5, <3>2, <3>5
  <2> QED
    BY <1>1, <2>1 DEF EventInv
<1>13. Remembered'
  <2> SUFFICES ASSUME NEW f \in Fd, NEW d \in Conn
               PROVE  /\ fdt[f] = Owned("file", d) =>
                           cl'[d].obj \in Standing /\ cl'[d].file = f
                      /\ fdt[f] = Owned("cgi_in", d) =>
                           cl'[d].obj \in Standing /\ handler'[d].in1 = f
                      /\ fdt[f] = Owned("cgi_out", d) =>
                           cl'[d].obj \in Standing /\ handler'[d].out0 = f
    BY <1>1 DEF Remembered
  <2>1. /\ cl'[d].obj = cl[d].obj /\ cl'[d].file = cl[d].file
        /\ handler'[d].in1 = handler[d].in1 /\ handler'[d].out0 = handler[d].out0
    BY <1>5, <1>6
  <2> QED
    BY <2>1 DEF Remembered
<1>14. UploadTracked'
  <2> SUFFICES ASSUME NEW f \in Fd, NEW d \in Conn, fdt[f] = Owned("upload", d),
                      cl'[d].obj = "live", ~cl'[d].finished
               PROVE  cl'[d].storing /\ cl'[d].upload = f
    BY <1>1 DEF UploadTracked
  <2>1. /\ cl'[d].obj = cl[d].obj /\ cl'[d].storing = cl[d].storing
        /\ cl'[d].upload = cl[d].upload /\ cl'[d].finished = cl[d].finished
    BY <1>5
  <2> QED
    BY <2>1 DEF UploadTracked
<1>15. ClockInv'
  <2>1. ASSUME NEW c \in Conn, InTable(c)
        PROVE  life'[c] <= IF cl'[c].requesting THEN cl'[c].age
                           ELSE REQUEST_TIMEOUT + MaxBusy + cl'[c].age
    <3>1. /\ cl'[c].age = Older(cl[c].age, t) /\ life'[c] = Older(life[c], t)
          /\ cl'[c].requesting = cl[c].requesting
      BY <1>0, <1>2, <2>1 DEF Elapse, ClientState
    <3>2. cl[c].age \in 0..Horizon /\ life[c] \in 0..Horizon
      BY DEF TypeOK, ClientState
    <3>3. life[c] <= IF cl[c].requesting THEN cl[c].age
                     ELSE REQUEST_TIMEOUT + MaxBusy + cl[c].age
      BY <2>1 DEF ClockInv
    <3> QED
      BY <3>1, <3>2, <3>3, TimeAssumption DEF Older, Horizon
  <2> QED
    BY <1>1, <2>1 DEF ClockInv, InTable
<1> QED
  BY <1>8, <1>9, <1>10, <1>11, <1>12, <1>13, <1>14, <1>15

\* Who is late when the time-outs have been looked for is to be swept.
LEMMA EpollWaitIInv ==
  ASSUME IInv, NEW t \in 0..MaxLag, EpollWait(t)
  PROVE  IInv'
<1>1. /\ UNCHANGED <<up, clients, fdt, interest, backlog, net, child, sent>>
      /\ ready' \subseteq InEvents \cup OutEvents
      /\ sweep' = Overdue' /\ busy' = 0 /\ Elapse(t) /\ t \in Nat
  BY TimeAssumption DEF EpollWait
<1>2. ready' \subseteq Event
  BY <1>1 DEF InEvents, OutEvents, Event
<1>3. \A e \in ready' : e.ev = "in" => interest[e.fd] = "in"
  BY <1>1 DEF InEvents, OutEvents, Readable
<1>4. busy' \in 0..MaxBusy /\ sweep' \subseteq {f \in Fd : clients[f] # NoConn}
  BY <1>1, TimeAssumption DEF Overdue
<1>5. ASSUME NEW f \in Fd, clients[f] # NoConn, Late(clients[f])'
      PROVE  f \in sweep'
  <2>1. Late(clients[f])' => Expired(clients[f])'
    BY <1>1, TimeAssumption DEF Late, Expired, IsTimedOut, IsCgiTimedOut
  <2> QED
    BY <1>1, <1>5, <2>1 DEF Overdue
<1> QED
  BY <1>1, <1>2, <1>3, <1>4, <1>5, ElapseIInv

\* While a batch is handled nobody gets older by more than the batch does.
LEMMA TickIInv ==
  ASSUME IInv, NEW t \in 1..MaxBusy, Tick(t)
  PROVE  IInv'
<1>1. /\ UNCHANGED <<up, clients, fdt, interest, backlog, net, child, sent>>
      /\ ready' = ready /\ sweep' = sweep /\ sweep = {}
      /\ busy + t <= MaxBusy /\ busy' = busy + t /\ Elapse(t) /\ t \in Nat
  BY TimeAssumption DEF Tick
<1>2. TypeOK
  BY DEF IInv
<1>3. /\ busy \in Nat /\ busy' \in 0..MaxBusy /\ ready' \subseteq Event
      /\ sweep' \subseteq {f \in Fd : clients[f] # NoConn}
  BY <1>1, <1>2, TimeAssumption DEF TypeOK
<1>4. ASSUME NEW f \in Fd, clients[f] # NoConn
      PROVE  ~(Late(clients[f])')
  <2> SUFFICES ASSUME NEW c \in Conn, c = clients[f]
               PROVE  ~(Late(c)')
    BY <1>1, <1>2, <1>4 DEF TypeOK, Late
  <2>1. InTable(c) /\ ~Late(c) /\ cl[c] \in ClientState /\ handler[c] \in HandlerState
    BY <1>1, <1>2, <1>4 DEF InTable, IInv, ClockInv, TypeOK
  <2>2. cl'[c] = [cl[c] EXCEPT !.age = Older(cl[c].age, t)]
    BY <1>1, <2>1 DEF Elapse
  <2>3. handler[c].started =>
          handler'[c] = [handler[c] EXCEPT !.age = Older(handler[c].age, t)]
    BY <1>1, <2>1 DEF Elapse
  <2>4. handler'[c].started = handler[c].started
    BY <1>1, <2>1 DEF Elapse, HandlerState
  <2>5. /\ cl'[c].requesting = cl[c].requesting /\ cl'[c].isCGI = cl[c].isCGI
        /\ cl'[c].age = Older(cl[c].age, t)
    BY <2>1, <2>2 DEF ClientState
  <2>6. handler[c].started => handler'[c].age = Older(handler[c].age, t)
    BY <2>1, <2>3 DEF HandlerState
  <2>7. cl[c].age \in 0..Horizon /\ handler[c].age \in 0..Horizon
    BY <2>1 DEF ClientState, HandlerState
  <2>8. Older(cl[c].age, t) <= cl[c].age + t /\ Older(cl[c].age, t) \in 0..Horizon
    BY <1>1, <2>7, OlderFacts
  <2>9. Older(handler[c].age, t) <= handler[c].age + t
        /\ Older(handler[c].age, t) \in 0..Horizon
    BY <1>1, <2>7, OlderFacts
  <2>10. Horizon \in Nat
    BY TimeAssumption DEF Horizon
  <2> HIDE DEF Horizon
  <2>11. cl'[c].age <= busy' + (IF cl'[c].requesting THEN REQUEST_TIMEOUT
                                ELSE RESPONSE_TIMEOUT)
    <3> DEFINE T == IF cl[c].requesting THEN REQUEST_TIMEOUT ELSE RESPONSE_TIMEOUT
    <3>1. cl[c].age <= busy + T /\ T \in Nat
      BY <1>3, <2>1, <2>7, <2>10, TimeAssumption DEF Late
    <3>2. cl'[c].age <= busy' + T
      <4> HIDE DEF T
      <4> QED
        BY <1>1, <1>3, <2>5, <2>7, <2>8, <2>10, <3>1
    <3> QED
      BY <2>5, <3>2
  <2>12. cl[c].isCGI /\ handler[c].started => handler'[c].age <= busy' + CGI_TIMEOUT
    <3> SUFFICES ASSUME cl[c].isCGI, handler[c].started
                 PROVE  handler'[c].age <= busy' + CGI_TIMEOUT
      OBVIOUS
    <3>1. handler[c].age <= busy + CGI_TIMEOUT
      BY <1>3, <2>1, <2>7, <2>10, TimeAssumption DEF Late
    <3> QED
      BY <1>1, <1>3, <2>6, <2>7, <2>9, <2>10, <3>1, TimeAssumption
  <2>13. /\ cl'[c].age \in Int /\ busy' \in Int
         /\ handler[c].started => handler'[c].age \in Int
    BY <1>3, <2>5, <2>6, <2>8, <2>9, <2>10
  <2> QED
    BY <2>4, <2>5, <2>11, <2>12, <2>13, TimeAssumption DEF Late
<1> QED
  BY <1>1, <1>3, <1>4, ElapseIInv

----------------------------------------------------------------------------
(* The steps that open descriptors.                                        *)

\* What the kernel hands out was free, and epoll does not watch it.
LEMMA FreeFacts ==
  /\ \A n : FreeAt(n) \subseteq FreeFds
  /\ IInv => \A f \in FreeFds : f \in Fd /\ fdt[f] = Free /\ interest[f] = "none"
<1>1. \A n : FreeAt(n) \subseteq FreeFds
  BY DEF FreeAt
<1>2. Free # Listening /\ Free.kind # "sock"
  BY DEF Free, Listening
<1>3. IInv => \A f \in FreeFds : f \in Fd /\ fdt[f] = Free /\ interest[f] = "none"
  BY <1>2 DEF FreeFds, IInv, EventInv
<1> QED
  BY <1>1, <1>3

LEMMA NewConnectionIInv ==
  ASSUME IInv, NEW l \in Listener, NEW c \in backlog[l], NEW f \in FreeFds,
         NewConnection(l, c, f), sweep = {}, sweep' = sweep, busy' = busy, up' = up,
         ready' \subseteq ready
  PROVE  IInv'
<1> USE NoFdNotFd, ConnAssumption, FdAssumption DEF IInv
<1>1. /\ fdt' = [fdt EXCEPT ![f] = Owned("sock", c)]
      /\ interest' = [interest EXCEPT ![f] = "in"]
      /\ backlog' = [backlog EXCEPT ![l] = backlog[l] \ {c}]
      /\ clients' = [clients EXCEPT ![f] = c]
      /\ cl' = [d \in Conn |-> IF d = c THEN Blank("live")
                               ELSE IF d = clients[f] THEN [cl[d] EXCEPT !.obj = "orphan"]
                               ELSE cl[d]]
      /\ UNCHANGED <<net, handler, child, life, sent>>
  BY DEF NewConnection
<1>2. c \in Conn /\ f \in Fd /\ fdt[f] = Free
  BY FreeFacts DEF TypeOK
<1>3. cl[c].obj = "none" /\ net[c].peer # "away" /\ life[c] = 0
  BY <1>2 DEF TableInv
<1>4. \A g \in Fd : clients[g] # c
  BY <1>2, <1>3 DEF TableInv
<1>5. \A g \in Fd : g # f => /\ clients'[g] = clients[g] /\ fdt'[g] = fdt[g]
                             /\ interest'[g] = interest[g]
  BY <1>1 DEF TypeOK
<1>6. clients'[f] = c /\ fdt'[f] = Owned("sock", c) /\ interest'[f] = "in"
  BY <1>1, <1>2 DEF TypeOK
<1>7. \A d \in Conn : d # c /\ d # clients[f] => cl'[d] = cl[d]
  BY <1>1
<1>17. \A d \in Conn : d = clients[f] =>
         /\ cl[d].obj = "live" /\ cl'[d].obj = "orphan"
         /\ cl'[d] = [cl[d] EXCEPT !.obj = "orphan"]
  <2> SUFFICES ASSUME NEW d \in Conn, d = clients[f]
               PROVE  /\ cl[d].obj = "live" /\ cl'[d].obj = "orphan"
                      /\ cl'[d] = [cl[d] EXCEPT !.obj = "orphan"]
    OBVIOUS
  <2>1. cl[d].obj = "live" /\ d # c
    BY <1>2, <1>3 DEF TableInv
  <2>2. cl'[d] = [cl[d] EXCEPT !.obj = "orphan"] /\ cl[d] \in ClientState
    BY <1>1, <2>1 DEF TypeOK
  <2> QED
    BY <2>1, <2>2 DEF ClientState
<1>18. \A d \in Conn : d # c =>
         /\ cl'[d].complete = cl[d].complete /\ cl'[d].requesting = cl[d].requesting
         /\ cl'[d].isCGI = cl[d].isCGI /\ cl'[d].file = cl[d].file
         /\ cl'[d].upload = cl[d].upload /\ cl'[d].storing = cl[d].storing
         /\ cl'[d].finished = cl[d].finished /\ cl'[d].age = cl[d].age
         /\ \/ cl'[d].obj = cl[d].obj
            \/ cl'[d].obj = "orphan" /\ cl[d].obj = "live"
  <2> SUFFICES ASSUME NEW d \in Conn, d # c, d = clients[f]
               PROVE  /\ cl'[d].complete = cl[d].complete
                      /\ cl'[d].requesting = cl[d].requesting
                      /\ cl'[d].isCGI = cl[d].isCGI /\ cl'[d].file = cl[d].file
                      /\ cl'[d].upload = cl[d].upload /\ cl'[d].storing = cl[d].storing
                      /\ cl'[d].finished = cl[d].finished /\ cl'[d].age = cl[d].age
    BY <1>7, <1>17
  <2>1. cl'[d] = [cl[d] EXCEPT !.obj = "orphan"] /\ cl[d] \in ClientState
    BY <1>17 DEF TypeOK
  <2> QED
    BY <2>1 DEF ClientState
<1>8. cl'[c] = Blank("live") /\ handler[c] = NoHandler
  BY <1>1, <1>2, <1>3 DEF TypeOK, ObjectInv
<1>9. \A g \in Fd : clients[g] # NoConn => clients[g] \in Conn /\ clients[g] # c
  BY <1>4 DEF TypeOK
<1>10. TypeOK'
  <2>1. Blank("live") \in ClientState
    BY TimeAssumption DEF Blank, ClientState, Horizon
  <2>2. Owned("sock", c) \in Descriptor
    BY <1>2 DEF Owned, Descriptor
  <2>3. \A d \in Conn : [cl[d] EXCEPT !.obj = "orphan"] \in ClientState
    <3> TAKE d \in Conn
    <3>1. cl[d] \in ClientState
      BY DEF TypeOK
    <3> QED
      BY <3>1, ZenonT(60) DEF ClientState
  <2>4. cl' \in [Conn -> ClientState]
    BY <1>1, <2>1, <2>3 DEF TypeOK
  <2> QED
    BY <1>1, <1>2, <2>2, <2>4 DEF TypeOK
<1>11. TableInv'
  <2>1. ASSUME NEW g \in Fd, clients'[g] # NoConn
        PROVE  cl'[clients'[g]].obj = "live"
    <3>1. CASE g = f
      BY <3>1, <1>6, <1>8 DEF Blank
    <3>2. CASE g # f
      <4>1. clients'[g] = clients[g] /\ clients[g] # NoConn
        BY <2>1, <3>2, <1>5
      <4>2. clients[g] \in Conn /\ clients[g] # c /\ clients[g] # clients[f]
        BY <1>2, <1>9, <3>2, <4>1 DEF TableInv
      <4>3. cl[clients[g]].obj = "live" /\ cl'[clients[g]] = cl[clients[g]]
        BY <1>7, <4>1, <4>2 DEF TableInv
      <4> QED
        BY <4>1, <4>3
    <3> QED
      BY <3>1, <3>2
  <2>2. \A g, h \in Fd :
          clients'[g] = clients'[h] /\ clients'[g] # NoConn => g = h
    <3>1. \A g \in Fd : g # f => clients'[g] # c
      BY <1>4, <1>5
    <3>2. \A g, h \in Fd : g # f /\ h # f /\ clients'[g] = clients'[h]
                              /\ clients'[g] # NoConn => g = h
      BY <1>5 DEF TableInv
    <3> QED
      BY <1>6, <3>1, <3>2
  <2>3. \A m \in Listener : /\ backlog'[m] \subseteq backlog[m]
                            /\ c \notin backlog'[m] /\ backlog[m] \subseteq Conn
    BY <1>1 DEF TypeOK, TableInv
  <2>4. \A d \in Conn : cl'[d].obj = "none" => d # c /\ cl[d].obj = "none"
    BY <1>8, <1>18 DEF Blank
  <2>5. \A d \in Conn : d # c /\ cl[d].obj = "none" => cl'[d].obj = "none"
    BY <1>18
  <2>6. ASSUME NEW d \in Conn, cl'[d].obj = "live" PROVE InTable(d)'
    <3>1. CASE d = c
      BY <1>2, <1>6, <3>1 DEF InTable
    <3>2. CASE d # c
      <4>1. cl[d].obj = "live" /\ d # clients[f]
        BY <1>17, <1>18, <2>6, <3>2
      <4>2. PICK g \in Fd : clients[g] = d
        BY <4>1 DEF TableInv, InTable
      <4> QED
        BY <1>5, <4>1, <4>2 DEF InTable
    <3> QED
      BY <3>1, <3>2
  <2>7. \A m \in Listener : \A d \in backlog'[m] :
          cl'[d].obj = "none" /\ net'[d].peer # "away"
    BY <1>1, <2>3, <2>5 DEF TableInv
  <2>8. \A m, o \in Listener : \A d \in backlog'[m] \cap backlog'[o] : m = o
    BY <2>3 DEF TableInv
  <2>9. \A d \in Conn : /\ cl'[d].obj = "none" => life'[d] = 0
                        /\ net'[d].peer = "away" => cl'[d].obj = "none"
    BY <1>1, <1>3, <2>4, <2>5 DEF TableInv
  <2> QED
    BY <2>1, <2>2, <2>6, <2>7, <2>8, <2>9 DEF TableInv
<1>12. ObjectInv'
  <2>1. cl'[c].upload = NoFd /\ cl'[c].requesting /\ ~cl'[c].complete
        /\ cl'[c].file = NoFd /\ ~cl'[c].isCGI /\ cl'[c].obj = "live"
    BY <1>8 DEF Blank
  <2>2. handler'[c] = NoHandler /\ ~handler'[c].started
    BY <1>1, <1>8 DEF NoHandler
  <2>3. \A d \in Conn : d # c => \A g \in Fd :
          /\ fdt[g] # Owned("sock", d) => fdt'[g] # Owned("sock", d)
          /\ fdt[g] # Owned("upload", d) => fdt'[g] # Owned("upload", d)
    <3>1. \A d \in Conn : d # c => /\ Owned("sock", c) # Owned("sock", d)
                                  /\ Owned("sock", c) # Owned("upload", d)
      BY OwnedFacts
    <3> QED
      BY <1>5, <1>6, <3>1
  <2>5. ASSUME NEW d \in Conn, d # c
        PROVE  /\ cl'[d].requesting <=> ~cl'[d].complete
               /\ ~cl'[d].complete => cl'[d].file = NoFd /\ ~cl'[d].isCGI
               /\ ~cl'[d].isCGI => ~handler'[d].started
               /\ ~handler'[d].started => handler'[d] = NoHandler
               /\ cl'[d].upload \in Fd => fdt'[cl'[d].upload] # Owned("sock", d)
               /\ cl'[d].obj = "none" =>
                    ~cl'[d].isCGI /\ \A g \in Fd : fdt'[g] # Owned("upload", d)
    <3>1. /\ cl'[d].requesting = cl[d].requesting /\ cl'[d].complete = cl[d].complete
          /\ cl'[d].file = cl[d].file /\ cl'[d].isCGI = cl[d].isCGI
          /\ cl'[d].upload = cl[d].upload /\ handler'[d] = handler[d]
          /\ cl'[d].obj = "none" => cl[d].obj = "none"
      BY <1>1, <1>18, <2>5
    <3>2. \A g \in Fd : /\ fdt[g] # Owned("sock", d) => fdt'[g] # Owned("sock", d)
                        /\ fdt[g] # Owned("upload", d) => fdt'[g] # Owned("upload", d)
      BY <2>3, <2>5
    <3> QED
      BY <3>1, <3>2 DEF ObjectInv
  <2> QED
    BY <2>1, <2>2, <2>5 DEF ObjectInv
<1>13. EventInv'
  <2>1. Owned("sock", c) # Listening /\ Owned("sock", c).kind = "sock"
    BY DEF Owned, Listening
  <2>2. \A g \in Fd : fdt'[g] = Listening => g \in Listener
    BY <1>5, <1>6, <2>1 DEF EventInv
  <2>3. \A g \in Fd : interest'[g] # "none" =>
          fdt'[g] = Listening \/ fdt'[g].kind = "sock"
    BY <1>5, <1>6, <2>1 DEF EventInv
  <2>4. ASSUME NEW e \in ready', e.ev = "in", e.fd \notin Listener,
               clients'[e.fd] # NoConn
        PROVE  ~cl'[clients'[e.fd]].complete
    <3>1. e \in ready /\ e.fd \in Fd
      BY <2>4 DEF TypeOK, Event
    <3>2. CASE e.fd = f
      BY <3>2, <1>6, <1>8 DEF Blank
    <3>3. CASE e.fd # f
      <4>1. clients'[e.fd] = clients[e.fd]
        BY <3>1, <3>3, <1>5
      <4>2. cl'[clients[e.fd]].complete = cl[clients[e.fd]].complete
        BY <2>4, <3>1, <4>1, <1>18, <1>9
      <4> QED
        BY <2>4, <3>1, <4>1, <4>2 DEF EventInv
    <3> QED
      BY <3>2, <3>3
  <2> QED
    BY <2>2, <2>3, <2>4 DEF EventInv
<1>14. SocketServed'
  <2> SUFFICES ASSUME NEW g \in Fd, fdt'[g].kind = "sock"
               PROVE  /\ clients'[g] = fdt'[g].of
                      /\ interest'[g] = IF cl'[clients'[g]].complete
                                        THEN "out" ELSE "in"
    BY DEF SocketServed
  <2>1. CASE g = f
    BY <2>1, <1>6, <1>8 DEF Owned, Blank
  <2>2. CASE g # f
    <3>1. fdt'[g] = fdt[g] /\ clients'[g] = clients[g] /\ interest'[g] = interest[g]
      BY <2>2, <1>5
    <3>2. clients[g] \in Conn
      BY <3>1, SocketOf
    <3>3. cl'[clients[g]].complete = cl[clients[g]].complete
      BY <3>2, <2>2, <1>4, <1>18
    <3> QED
      BY <3>1, <3>2, <3>3 DEF SocketServed
  <2> QED
    BY <2>1, <2>2
<1>15. Remembered' /\ UploadTracked'
  <2>1. \A k \in {"file", "upload", "cgi_in", "cgi_out"} :
          \A g \in Fd, d \in Conn : fdt'[g] = Owned(k, d) => fdt[g] = Owned(k, d)
    BY <1>5, <1>6, <1>2 DEF Owned
  <2>2. \A k \in {"file", "upload", "cgi_in", "cgi_out"} :
          \A g \in Fd : fdt[g] # Owned(k, c)
    BY <1>2, <1>3 DEF Remembered, ObjectInv, Standing
  <2> HIDE DEF IInv
  <2>3. Remembered'
    <3> SUFFICES ASSUME NEW g \in Fd, NEW d \in Conn
                 PROVE  Remembered!(g, d)'
      BY DEF Remembered
    <3>1. /\ handler'[d] = handler[d]
          /\ d # c => /\ cl'[d].file = cl[d].file
                      /\ cl[d].obj \in Standing => cl'[d].obj \in Standing
      BY <1>1, <1>18 DEF Standing
    <3>2. Remembered!(g, d)
      BY DEF IInv, Remembered
    <3>3. \A k \in {"file", "upload", "cgi_in", "cgi_out"} :
            fdt'[g] = Owned(k, d) => fdt[g] = Owned(k, d) /\ d # c
      BY <2>1, <2>2
    <3>4. /\ fdt'[g] = Owned("file", d) => fdt[g] = Owned("file", d) /\ d # c
          /\ fdt'[g] = Owned("cgi_in", d) => fdt[g] = Owned("cgi_in", d) /\ d # c
          /\ fdt'[g] = Owned("cgi_out", d) => fdt[g] = Owned("cgi_out", d) /\ d # c
      BY <3>3
    <3> QED
      BY <3>1, <3>2, <3>4
  <2>4. UploadTracked'
    <3> SUFFICES ASSUME NEW g \in Fd, NEW d \in Conn
                 PROVE  UploadTracked!(g, d)'
      BY DEF UploadTracked
    <3>1. UploadTracked!(g, d)
      BY DEF IInv, UploadTracked
    <3>2. d # c => /\ cl'[d].storing = cl[d].storing /\ cl'[d].upload = cl[d].upload
                   /\ cl'[d].finished = cl[d].finished
                   /\ cl'[d].obj = "live" => cl[d].obj = "live"
      BY <1>18
    <3> QED
      BY <2>1, <2>2, <3>1, <3>2
  <2> QED
    BY <2>3, <2>4
<1>16. ClockInv'
  <2>1. ~(Late(c)')
    <3>1. busy \in Nat /\ busy' = busy
      BY TimeAssumption DEF TypeOK
    <3>2. cl'[c].age = 0 /\ ~cl'[c].isCGI
      BY <1>8 DEF Blank
    <3> QED
      BY <3>1, <3>2, TimeAssumption DEF Late
  <2>2. \A d \in Conn : d # c => (Late(d)' <=> Late(d))
    BY <1>1, <1>18 DEF Late
  <2>3. ASSUME NEW g \in Fd, clients'[g] # NoConn
        PROVE  ~(Late(clients[g])')
    <3>1. CASE g = f
      BY <3>1, <1>6, <2>1 DEF Late
    <3>2. CASE g # f
      <4>1. clients'[g] = clients[g] /\ clients[g] \in Conn /\ clients[g] # c
        BY <2>3, <3>2, <1>5, <1>9
      <4>2. ~Late(clients[g])
        BY <2>3, <4>1 DEF ClockInv
      <4> QED
        BY <4>1, <4>2, <2>2 DEF Late
    <3> QED
      BY <3>1, <3>2
  <2>4. \A d \in Conn : InTable(d)' => d = c \/ InTable(d)
    BY <1>5, <1>6 DEF InTable
  <2>5. ASSUME NEW d \in Conn, InTable(d)'
        PROVE  life'[d] <= IF cl'[d].requesting THEN cl'[d].age
                           ELSE REQUEST_TIMEOUT + MaxBusy + cl'[d].age
    <3>1. CASE d = c
      BY <1>1, <1>3, <1>8, <3>1 DEF Blank
    <3>2. CASE d # c
      BY <1>1, <1>18, <2>4, <2>5, <3>2 DEF ClockInv
    <3> QED
      BY <3>1, <3>2
  <2> QED
    BY <2>3, <2>5 DEF ClockInv
<1> QED
  BY <1>10, <1>11, <1>12, <1>13, <1>14, <1>15, <1>16

PeersStay == \A d \in Conn : net'[d].peer = "away" => net[d].peer = "away"

OthersStay(c) ==
  \A d \in Conn : d # c => cl'[d] = cl[d] /\ handler'[d] = handler[d]

\* The numbers O come to hold descriptors of c, the client of an event for w (w
\* itself may be one, if it had been closed as somebody else's); the others
\* stay, or are closed; epoll watches w for what the client expects.
Opened(w, c, O) ==
  /\ \A f \in O : /\ interest'[f] = "none"
                  /\ \E k \in {"file", "upload", "cgi_in", "cgi_out"} :
                       fdt'[f] = Owned(k, c)
  /\ \A f \in Fd \ O : f # w => KeptOrClosed(f)
  /\ w \notin O /\ fdt[w].kind # "sock" => KeptOrClosed(w)
  /\ w \notin O /\ fdt[w].kind = "sock" =>
       /\ fdt'[w] = fdt[w]
       /\ interest'[w] = IF cl'[c].complete THEN "out" ELSE "in"

\* What the invariant says of c itself holds after the step.
ClientHolds(w, c) ==
  /\ cl'[c].complete => \A e \in ready' : e.ev = "in" => e.fd # w
  /\ cl'[c].obj = "live"
  /\ cl'[c].requesting <=> ~cl'[c].complete
  /\ ~cl'[c].complete => cl'[c].file = NoFd /\ ~cl'[c].isCGI
  /\ ~cl'[c].isCGI => ~handler'[c].started
  /\ ~handler'[c].started => handler'[c] = NoHandler
  /\ cl'[c].upload \in Fd => fdt'[cl'[c].upload] # Owned("sock", c)
  /\ ~(Late(c)')
  /\ life[c] <= IF cl'[c].requesting THEN cl'[c].age
                ELSE REQUEST_TIMEOUT + MaxBusy + cl'[c].age

DescriptorsHold(c) ==
  \A f \in Fd :
    /\ fdt'[f] = Owned("file", c) => cl'[c].file = f
    /\ fdt'[f] = Owned("cgi_in", c) => handler'[c].in1 = f
    /\ fdt'[f] = Owned("cgi_out", c) => handler'[c].out0 = f
    /\ fdt'[f] = Owned("upload", c) /\ ~cl'[c].finished =>
         cl'[c].storing /\ cl'[c].upload = f

LEMMA OpenIInv ==
  ASSUME IInv, NEW w \in Fd, NEW c \in Conn, clients[w] = c, sweep = {},
         NEW O \in SUBSET Fd,
         clients' = clients, backlog' = backlog, life' = life, sweep' = sweep,
         busy' = busy, ready' \subseteq ready, up' = up,
         child' \in [Conn -> ChildState], sent' \in [Conn -> SUBSET Pieces],
         net' \in [Conn -> NetState],
         fdt' \in [Fd -> Descriptor], interest' \in [Fd -> {"none", "in", "out"}],
         cl' \in [Conn -> ClientState], handler' \in [Conn -> HandlerState],
         PeersStay, OthersStay(c), Opened(w, c, O), ClientHolds(w, c),
         DescriptorsHold(c)
  PROVE  IInv'
<1> USE NoFdNotFd, ConnAssumption, FdAssumption DEF IInv
<1>1. \A f \in Fd : clients[f] # NoConn => clients[f] \in Conn
  BY DEF TypeOK
<1>2. \A f \in Fd : clients[f] = c => f = w
  BY DEF TableInv
<1>3. \A f \in Fd, d \in Conn, k \in {"file", "upload", "cgi_in", "cgi_out", "sock"} :
        d # c /\ fdt'[f] = Owned(k, d) => fdt[f] = Owned(k, d)
  <2> SUFFICES ASSUME NEW f \in Fd, NEW d \in Conn,
                      NEW k \in {"file", "upload", "cgi_in", "cgi_out", "sock"},
                      d # c, fdt'[f] = Owned(k, d)
               PROVE  fdt[f] = Owned(k, d)
    OBVIOUS
  <2>1. CASE f \in O
    BY <2>1, OwnedFacts DEF Opened
  <2>2. CASE f \notin O
    BY <2>2, OwnedFacts DEF KeptOrClosed, Opened
  <2> QED
    BY <2>1, <2>2
<1>4. TypeOK'
  BY DEF TypeOK, ChildState, NetState
<1>5. cl[c].obj = "live"
  BY DEF TableInv
<1>6. TableInv'
  <2>1. \A l \in Listener : backlog[l] \subseteq Conn
    BY DEF TypeOK
  <2>2. \A d \in Conn : cl'[d].obj = cl[d].obj
    BY <1>5 DEF OthersStay, ClientHolds
  <2>3. \A f \in Fd : clients'[f] # NoConn => cl'[clients'[f]].obj = "live"
    <3> SUFFICES ASSUME NEW f \in Fd, clients[f] # NoConn
                 PROVE  cl'[clients[f]].obj = "live"
      OBVIOUS
    <3>1. clients[f] \in Conn /\ cl[clients[f]].obj = "live"
      BY <1>1 DEF TableInv
    <3> QED
      BY <3>1, <2>2
  <2>4. \A f, g \in Fd : clients'[f] = clients'[g] /\ clients'[f] # NoConn => f = g
    BY DEF TableInv
  <2>5. \A l, m \in Listener : \A d \in backlog'[l] \cap backlog'[m] : l = m
    BY DEF TableInv
  <2>6. \A l \in Listener : \A d \in backlog'[l] :
          cl'[d].obj = "none" /\ net'[d].peer # "away"
    BY <2>1, <2>2 DEF TableInv, PeersStay
  <2>7. \A d \in Conn : /\ cl'[d].obj = "none" => life'[d] = 0
                        /\ net'[d].peer = "away" => cl'[d].obj = "none"
    BY <2>2 DEF TableInv, PeersStay
  <2>8. \A d \in Conn : cl'[d].obj = "live" => InTable(d)'
    BY <2>2 DEF TableInv, InTable
  <2> QED
    BY <2>3, <2>4, <2>5, <2>6, <2>7, <2>8 DEF TableInv
<1>7. ObjectInv'
  <2> SUFFICES ASSUME NEW d \in Conn, d # c
               PROVE  /\ cl'[d].requesting <=> ~cl'[d].complete
                      /\ ~cl'[d].complete => cl'[d].file = NoFd /\ ~cl'[d].isCGI
                      /\ ~cl'[d].isCGI => ~handler'[d].started
                      /\ ~handler'[d].started => handler'[d] = NoHandler
                      /\ cl'[d].upload \in Fd =>
                           fdt'[cl'[d].upload] # Owned("sock", d)
                      /\ cl'[d].obj = "none" =>
                           /\ ~cl'[d].isCGI
                           /\ \A g \in Fd : fdt'[g] # Owned("upload", d)
    BY DEF ObjectInv, ClientHolds
  <2>1. cl'[d] = cl[d] /\ handler'[d] = handler[d]
    BY DEF OthersStay
  <2>2. \A g \in Fd : /\ fdt[g] # Owned("sock", d) => fdt'[g] # Owned("sock", d)
                      /\ fdt[g] # Owned("upload", d) => fdt'[g] # Owned("upload", d)
    BY <1>3
  <2>3. cl[d].upload \in Fd => fdt'[cl[d].upload] # Owned("sock", d)
    BY <2>2 DEF ObjectInv
  <2>4. cl[d].obj = "none" =>
          ~cl[d].isCGI /\ \A g \in Fd : fdt'[g] # Owned("upload", d)
    BY <2>2 DEF ObjectInv
  <2> QED
    BY <2>1, <2>3, <2>4 DEF ObjectInv
<1>8. EventInv'
  <2>1. ASSUME NEW g \in Fd
        PROVE  /\ fdt'[g] = Listening => g \in Listener
               /\ interest'[g] # "none" =>
                    fdt'[g] = Listening \/ fdt'[g].kind = "sock"
    <3>1. CASE g \in O
      BY <3>1, OwnedFacts DEF Opened
    <3>2. CASE g = w /\ g \notin O /\ fdt[w].kind = "sock"
      BY <3>2 DEF EventInv, Opened
    <3>3. CASE g \notin O /\ (g # w \/ fdt[w].kind # "sock")
      BY <3>3, OwnedFacts DEF EventInv, KeptOrClosed, Opened
    <3> QED
      BY <3>1, <3>2, <3>3
  <2>2. ASSUME NEW e \in ready', e.ev = "in", e.fd \notin Listener,
               clients'[e.fd] # NoConn
        PROVE  ~cl'[clients'[e.fd]].complete
    <3>1. e \in ready /\ e.fd \in Fd
      BY <2>2 DEF TypeOK, Event
    <3>2. CASE e.fd = w
      BY <3>2, <2>2 DEF ClientHolds
    <3>3. CASE e.fd # w
      BY <3>1, <3>3, <2>2, <1>1, <1>2 DEF EventInv, OthersStay
    <3> QED
      BY <3>2, <3>3
  <2> QED
    BY <2>1, <2>2 DEF EventInv
<1>9. SocketServed'
  <2> SUFFICES ASSUME NEW g \in Fd, fdt'[g].kind = "sock"
               PROVE  /\ clients'[g] = fdt'[g].of
                      /\ interest'[g] = IF cl'[clients'[g]].complete
                                        THEN "out" ELSE "in"
    BY DEF SocketServed
  <2>1. g \notin O
    BY OwnedFacts DEF Opened
  <2>2. CASE g = w
    <3>1. fdt[w].kind = "sock"
      BY <2>1, <2>2 DEF KeptOrClosed, Free, Opened
    <3> QED
      BY <2>1, <2>2, <3>1 DEF SocketServed, Opened
  <2>3. CASE g # w
    <3>1. fdt'[g] = fdt[g] /\ interest'[g] = interest[g]
      BY <2>1, <2>3 DEF KeptOrClosed, Free, Opened
    <3>2. clients[g] \in Conn /\ clients[g] # c
      BY <3>1, <2>3, <1>2, SocketOf
    <3> QED
      BY <3>1, <3>2 DEF SocketServed, OthersStay
  <2> QED
    BY <2>2, <2>3
<1>10. Remembered'
  <2> SUFFICES ASSUME NEW f \in Fd, NEW d \in Conn, d # c
               PROVE  /\ fdt'[f] = Owned("file", d) =>
                           cl'[d].obj \in Standing /\ cl'[d].file = f
                      /\ fdt'[f] = Owned("cgi_in", d) =>
                           cl'[d].obj \in Standing /\ handler'[d].in1 = f
                      /\ fdt'[f] = Owned("cgi_out", d) =>
                           cl'[d].obj \in Standing /\ handler'[d].out0 = f
    BY DEF Remembered, ClientHolds, DescriptorsHold, Standing
  <2>1. cl'[d] = cl[d] /\ handler'[d] = handler[d]
    BY DEF OthersStay
  <2>2. /\ fdt'[f] = Owned("file", d) => fdt[f] = Owned("file", d)
        /\ fdt'[f] = Owned("cgi_in", d) => fdt[f] = Owned("cgi_in", d)
        /\ fdt'[f] = Owned("cgi_out", d) => fdt[f] = Owned("cgi_out", d)
    BY <1>3
  <2> QED
    BY <2>1, <2>2 DEF Remembered
<1>11. UploadTracked'
  BY <1>3 DEF UploadTracked, OthersStay, DescriptorsHold
<1>12. ClockInv'
  <2>1. \A d \in Conn : d # c => (Late(d)' <=> Late(d))
    BY DEF Late, OthersStay
  <2>2. \A g \in Fd : clients[g] # NoConn => ~Late(clients[g])
    BY DEF ClockInv
  <2>3. \A d \in Conn : InTable(d) => ~(Late(d)')
    BY <2>1, <2>2, <1>1 DEF InTable, ClientHolds
  <2>4. \A g \in Fd : clients[g] # NoConn => ~(Late(clients[g])')
    BY <2>3, <1>1 DEF InTable, Late
  <2>5. ASSUME NEW d \in Conn, InTable(d)'
        PROVE  life'[d] <= IF cl'[d].requesting THEN cl'[d].age
                           ELSE REQUEST_TIMEOUT + MaxBusy + cl'[d].age
    BY <2>5 DEF ClockInv, InTable, OthersStay, ClientHolds
  <2> QED
    BY <2>4, <2>5 DEF ClockInv
<1> QED
  BY <1>4, <1>6, <1>7, <1>8, <1>9, <1>10, <1>11, <1>12

\* An event is its number and its kind.
LEMMA EventEq ==
  \A x, y \in Event : x.fd = y.fd /\ x.ev = y.ev => x = y
BY DEF Event

\* The client of an event is a live connection that is not past a deadline.
LEMMA EventClient ==
  ASSUME IInv, NEW e \in Event, Handling(e), clients[e.fd] # NoConn
  PROVE  /\ e.fd \in Fd /\ clients[e.fd] \in Conn
         /\ cl[clients[e.fd]] \in ClientState /\ cl[clients[e.fd]].obj = "live"
         /\ InTable(clients[e.fd]) /\ ~Late(clients[e.fd])
BY DEF IInv, TypeOK, TableInv, ClockInv, Event, Handling, InTable

LEMMA UploadOpensIInv ==
  ASSUME IInv, NEW e \in Event, NEW rest \in BOOLEAN, UploadOpens(e, rest),
         ~Dies
  PROVE  IInv'
<1> USE NoFdNotFd, ConnAssumption, FdAssumption DEF IInv
<1> SUFFICES ASSUME NEW w, NEW c, w = e.fd, c = clients[e.fd]
             PROVE  IInv'
  OBVIOUS
<1>1. Handling(e) /\ c # NoConn /\ w \notin Listener /\ e.ev = "in"
      /\ (cl[c].storing => cl[c].finished)
  BY DEF UploadOpens, Requested
<1>2. w \in Fd /\ c \in Conn /\ cl[c] \in ClientState /\ cl[c].obj = "live"
      /\ InTable(c) /\ ~Late(c)
  BY <1>1, EventClient
<1>3. PICK f \in FreeAt(0) :
        /\ fdt' = [fdt EXCEPT ![f] = Owned("upload", c)]
        /\ cl' = [cl EXCEPT ![c].upload = f, ![c].storing = TRUE]
  BY DEF UploadOpens
<1>4. /\ UNCHANGED <<clients, handler, interest, backlog, child, life, sent>>
      /\ ready' = ready \ {e} /\ UNCHANGED <<up, sweep, busy>> /\ net' = Drained(w, rest)
  BY DEF UploadOpens, Handled
<1>5. f \in Fd /\ fdt[f] = Free /\ interest[f] = "none"
  BY FreeFacts
<1>6. sweep = {} /\ e \in ready /\ ~cl[c].complete /\ clients[w] = c
  BY <1>1 DEF Handling, EventInv
<1>7. fdt' \in [Fd -> Descriptor] /\ net' \in [Conn -> NetState] /\ PeersStay
  <2>1. Owned("upload", c) \in Descriptor
    BY <1>2 DEF Owned, Descriptor
  <2>2. /\ Drained(w, rest) \in [Conn -> NetState]
        /\ \A d \in Conn : Drained(w, rest)[d].peer = net[d].peer
    BY <1>2, DrainedNet
  <2> QED
    BY <1>3, <1>4, <2>1, <2>2 DEF TypeOK, PeersStay
<1>8. cl'[c] = [cl[c] EXCEPT !.upload = f, !.storing = TRUE]
  BY <1>2, <1>3 DEF TypeOK
<1>9. cl'[c] \in ClientState
  BY <1>2, <1>5, <1>8 DEF ClientState
<1>10. cl' \in [Conn -> ClientState] /\ OthersStay(c)
  BY <1>3, <1>4, <1>9 DEF TypeOK, OthersStay
<1>11. /\ cl'[c].obj = "live" /\ cl'[c].complete = cl[c].complete
       /\ cl'[c].requesting = cl[c].requesting /\ cl'[c].isCGI = cl[c].isCGI
       /\ cl'[c].file = cl[c].file /\ cl'[c].age = cl[c].age
       /\ cl'[c].upload = f /\ cl'[c].storing = TRUE
       /\ cl'[c].finished = cl[c].finished
  BY <1>2, <1>8 DEF ClientState
<1>12. fdt'[f] = Owned("upload", c) /\ \A g \in Fd : g # f => fdt'[g] = fdt[g]
  BY <1>3, <1>5 DEF TypeOK
<1>13. Opened(w, c, {f})
  <2>1. fdt[w].kind = "sock" => interest[w] = "in"
    BY <1>2, <1>6 DEF SocketServed
  <2>2. interest' = interest
    BY <1>4
  <2>3. \A g \in {f} : /\ interest'[g] = "none"
                       /\ \E k \in {"file", "upload", "cgi_in", "cgi_out"} :
                            fdt'[g] = Owned(k, c)
    BY <1>5, <1>12, <2>2
  <2>4. \A g \in Fd \ {f} : KeptOrClosed(g)
    BY <1>12, <2>2 DEF KeptOrClosed
  <2>5. w \notin {f} => fdt'[w] = fdt[w] /\ KeptOrClosed(w)
    BY <1>2, <1>12, <2>4
  <2>6. ~cl'[c].complete
    BY <1>6, <1>11
  <2>7. fdt[w].kind = "sock" =>
          interest'[w] = IF cl'[c].complete THEN "out" ELSE "in"
    BY <2>1, <2>2, <2>6
  <2> QED
    <3> HIDE DEF KeptOrClosed
    <3> QED
      BY <2>3, <2>4, <2>5, <2>7 DEF Opened
<1>14. ClientHolds(w, c)
  <2>1. ~(Late(c)')
    BY <1>2, <1>4, <1>11 DEF Late
  <2>2. life[c] <= IF cl'[c].requesting THEN cl'[c].age
                   ELSE REQUEST_TIMEOUT + MaxBusy + cl'[c].age
    BY <1>2, <1>11 DEF ClockInv
  <2>3. fdt'[f] # Owned("sock", c)
    BY <1>12, OwnedFacts
  <2> QED
    BY <1>2, <1>4, <1>6, <1>11, <2>1, <2>2, <2>3 DEF ClientHolds, ObjectInv
<1>15. DescriptorsHold(c)
  <2> SUFFICES ASSUME NEW g \in Fd
               PROVE  /\ fdt'[g] = Owned("file", c) => cl'[c].file = g
                      /\ fdt'[g] = Owned("cgi_in", c) => handler'[c].in1 = g
                      /\ fdt'[g] = Owned("cgi_out", c) => handler'[c].out0 = g
                      /\ fdt'[g] = Owned("upload", c) /\ ~cl'[c].finished =>
                           cl'[c].storing /\ cl'[c].upload = g
    BY DEF DescriptorsHold
  <2>1. CASE g = f
    BY <2>1, <1>11, <1>12, OwnedFacts
  <2>2. CASE g # f
    <3>1. fdt'[g] = fdt[g] /\ handler' = handler
      BY <1>4, <1>12, <2>2
    <3>2. /\ fdt[g] = Owned("file", c) => cl[c].file = g
          /\ fdt[g] = Owned("cgi_in", c) => handler[c].in1 = g
          /\ fdt[g] = Owned("cgi_out", c) => handler[c].out0 = g
      BY <1>2 DEF Remembered
    <3>3. fdt[g] = Owned("upload", c) => cl[c].finished
      BY <1>1, <1>2 DEF UploadTracked
    <3> QED
      BY <1>11, <3>1, <3>2, <3>3
  <2> QED
    BY <2>1, <2>2
<1> QED
  <2>1. /\ child' \in [Conn -> ChildState] /\ sent' \in [Conn -> SUBSET Pieces]
        /\ interest' \in [Fd -> {"none", "in", "out"}]
        /\ handler' \in [Conn -> HandlerState]
    BY <1>4 DEF TypeOK, ChildState
  <2>2. {f} \in SUBSET Fd
    BY <1>5
  <2> QED
    BY <1>2, <1>4, <1>6, <1>7, <1>10, <1>13, <1>14, <1>15, <2>1, <2>2, OpenIInv

LEMMA RequestCompletesIInv ==
  ASSUME IInv, NEW e \in Event, NEW ending \in Endings,
         RequestCompletes(e, ending), ~Dies
  PROVE  IInv'
<1> USE NoFdNotFd, ConnAssumption, FdAssumption DEF IInv
<1> SUFFICES ASSUME NEW w, NEW c, w = e.fd, c = clients[e.fd]
             PROVE  IInv'
  OBVIOUS
<1> DEFINE closed == IF "store" \in ending THEN {cl[c].upload} ELSE {}
<1>1. /\ Handling(e) /\ c # NoConn /\ w \notin Listener /\ e.ev = "in"
      /\ fdt[w].kind = "sock" /\ (cl[c].upload # NoFd => "store" \in ending)
  BY DEF RequestCompletes, Requested, HasData
<1>2. w \in Fd /\ c \in Conn /\ cl[c] \in ClientState /\ cl[c].obj = "live"
      /\ InTable(c) /\ ~Late(c)
  BY <1>1, EventClient
<1>3. PICK file \in FileOpened(ending) :
        /\ fdt' = [f \in Fd |-> IF f = file THEN Owned("file", c)
                                ELSE FdtWithout(closed)[f]]
        /\ cl' = [cl EXCEPT ![c] = Completed(c, ending, file)]
  BY DEF RequestCompletes
<1>4. /\ UNCHANGED <<clients, handler, backlog, child, life, sent>>
      /\ ready' = ready \ {e} /\ UNCHANGED <<up, sweep, busy>>
      /\ interest' = WatchedAfter(w, closed)
      /\ net' = NetWithout(closed, Drained(w, FALSE))
  BY DEF RequestCompletes, Handled
<1>5. file = NoFd \/ (file \in Fd /\ fdt[file] = Free /\ interest[file] = "none")
  BY <1>3, FreeFacts DEF FileOpened
<1>6. sweep = {} /\ e \in ready /\ ~cl[c].complete
  BY <1>1 DEF Handling, EventInv
<1>7. fdt[w] = Owned("sock", c) /\ w \notin closed /\ w # file
  <2>1. fdt[w] = Owned("sock", fdt[w].of) /\ clients[w] = fdt[w].of
    BY <1>1, <1>2 DEF TypeOK, Descriptor, Free, Listening, Owned, SocketServed
  <2>2. fdt[w] = Owned("sock", c)
    BY <2>1
  <2>3. w # cl[c].upload
    BY <1>2, <2>2 DEF ObjectInv
  <2>4. w # file
    BY <1>2, <1>5, <2>2, OwnedFacts
  <2> QED
    BY <2>2, <2>3, <2>4
<1>8. \A f \in Fd : /\ f = file => fdt'[f] = Owned("file", c)
                    /\ f # file /\ f \in closed => fdt'[f] = Free
                    /\ f # file /\ f \notin closed => fdt'[f] = fdt[f]
  BY <1>3 DEF FdtWithout
<1>9. /\ interest'[w] = "out"
      /\ \A f \in Fd : f # w => interest'[f] = IF f \in closed THEN "none"
                                               ELSE interest[f]
  BY <1>2, <1>4 DEF WatchedAfter, InterestWithout
<1> HIDE DEF closed
<1>10. /\ fdt' \in [Fd -> Descriptor]
       /\ interest' \in [Fd -> {"none", "in", "out"}]
  <2>1. Owned("file", c) \in Descriptor /\ Free \in Descriptor
    BY <1>2 DEF Owned, Descriptor
  <2> QED
    BY <1>3, <1>4, <2>1 DEF TypeOK, FdtWithout, WatchedAfter, InterestWithout
<1>11. net' \in [Conn -> NetState] /\ PeersStay
  <2>1. /\ Drained(w, FALSE) \in [Conn -> NetState]
        /\ \A d \in Conn : Drained(w, FALSE)[d].peer = net[d].peer
    BY DrainedNet
  <2>2. net' \in [Conn -> NetState]
    BY <1>4, <2>1 DEF NetWithout, NetState
  <2>3. \A d \in Conn : net'[d].peer = net[d].peer \/ net'[d].peer = "gone"
    BY <1>4, <2>1 DEF NetWithout
  <2> QED
    BY <2>2, <2>3 DEF PeersStay
<1>12. cl'[c] = Completed(c, ending, file) /\ cl'[c] \in ClientState
       /\ cl' \in [Conn -> ClientState] /\ OthersStay(c)
  <2>1. Completed(c, ending, file) \in ClientState
    <3>1. file \in Fd \cup {NoFd} /\ 0 \in 0..Horizon /\ ("cgi" \in ending) \in BOOLEAN
      BY <1>5, TimeAssumption DEF Horizon
    <3> HIDE DEF Horizon
    <3> QED
      BY <1>2, <3>1, ZenonT(30) DEF Completed, ClientState
  <2> QED
    BY <1>2, <1>3, <1>4, <2>1 DEF TypeOK, OthersStay
<1>13. /\ cl'[c].obj = "live" /\ cl'[c].complete = TRUE /\ cl'[c].requesting = FALSE
       /\ cl'[c].isCGI = ("cgi" \in ending) /\ cl'[c].file = file
       /\ cl'[c].upload = cl[c].upload /\ cl'[c].age = 0
       /\ cl'[c].finished = cl[c].finished
  BY <1>2, <1>12 DEF ClientState, Completed
<1>14. handler[c] = NoHandler /\ ~handler[c].started /\ cl[c].file = NoFd
       /\ cl[c].requesting
  BY <1>2, <1>6 DEF ObjectInv
<1> DEFINE O == IF file = NoFd THEN {} ELSE {file}
<1>15. Opened(w, c, O)
  <2>1. \A g \in O : /\ interest'[g] = "none"
                     /\ \E k \in {"file", "upload", "cgi_in", "cgi_out"} :
                          fdt'[g] = Owned(k, c)
    BY <1>5, <1>7, <1>8, <1>9
  <2>2. \A g \in Fd \ O : g # w => KeptOrClosed(g)
    BY <1>8, <1>9 DEF KeptOrClosed
  <2>3. fdt'[w] = fdt[w]
        /\ interest'[w] = IF cl'[c].complete THEN "out" ELSE "in"
    BY <1>2, <1>7, <1>8, <1>9, <1>13
  <2> QED
    BY <1>1, <2>1, <2>2, <2>3 DEF Opened
<1>16. ClientHolds(w, c)
  <2>1. ~(Late(c)')
    <3>1. busy' \in Nat
      BY <1>4, TimeAssumption DEF TypeOK
    <3> QED
      BY <1>4, <1>13, <1>14, <3>1, TimeAssumption DEF Late
  <2>2. life[c] <= REQUEST_TIMEOUT + MaxBusy
    <3>1. life[c] <= cl[c].age
      BY <1>2, <1>14 DEF ClockInv
    <3>2. /\ life[c] \in 0..Horizon /\ cl[c].age \in 0..Horizon /\ Horizon \in Nat
          /\ busy \in 0..MaxBusy
      BY <1>2, TimeAssumption DEF TypeOK, ClientState, Horizon
    <3>3. cl[c].age <= busy + REQUEST_TIMEOUT
      <4> HIDE DEF Horizon
      <4> QED
        BY <1>2, <1>14, <3>2, TimeAssumption DEF Late
    <3> HIDE DEF Horizon
    <3> QED
      BY <3>1, <3>2, <3>3, TimeAssumption
  <2>3. \A x \in ready' : x.ev = "in" => x.fd # w
    <3>1. \A x \in ready' : x \in Event /\ x # e
      BY <1>4 DEF TypeOK
    <3> QED
      BY <1>1, <3>1, EventEq
  <2>4. cl'[c].upload \in Fd => fdt'[cl'[c].upload] # Owned("sock", c)
    <3> SUFFICES ASSUME NEW u \in Fd, u = cl[c].upload
                 PROVE  fdt'[u] # Owned("sock", c)
      BY <1>13
    <3>1. fdt[u] # Owned("sock", c)
      BY <1>2 DEF ObjectInv
    <3>2. fdt'[u] \in {Owned("file", c), Free, fdt[u]}
      BY <1>8
    <3> QED
      BY <3>1, <3>2, OwnedFacts
  <2> QED
    BY <1>4, <1>13, <1>14, <2>1, <2>2, <2>3, <2>4, TimeAssumption DEF ClientHolds
<1>17. DescriptorsHold(c)
  <2> SUFFICES ASSUME NEW g \in Fd
               PROVE  /\ fdt'[g] = Owned("file", c) => cl'[c].file = g
                      /\ fdt'[g] = Owned("cgi_in", c) => handler'[c].in1 = g
                      /\ fdt'[g] = Owned("cgi_out", c) => handler'[c].out0 = g
                      /\ fdt'[g] = Owned("upload", c) /\ ~cl'[c].finished =>
                           cl'[c].storing /\ cl'[c].upload = g
    BY DEF DescriptorsHold
  <2>1. CASE g = file
    BY <2>1, <1>8, <1>13, OwnedFacts
  <2>2. CASE g # file /\ g \in closed
    BY <2>2, <1>8, OwnedFacts
  <2>3. CASE g # file /\ g \notin closed
    <3>1. fdt'[g] = fdt[g]
      BY <2>3, <1>8
    <3>2. fdt[g] # Owned("upload", c) \/ cl[c].finished
      BY <1>1, <1>2, <2>3 DEF UploadTracked, closed
    <3> QED
      BY <1>2, <1>4, <1>13, <1>14, <3>1, <3>2 DEF Remembered
  <2> QED
    BY <2>1, <2>2, <2>3
<1> QED
  <2>1. /\ child' \in [Conn -> ChildState] /\ sent' \in [Conn -> SUBSET Pieces]
        /\ handler' \in [Conn -> HandlerState]
    BY <1>4 DEF TypeOK, ChildState
  <2>2. O \in SUBSET Fd
    BY <1>5
  <2> HIDE DEF O
  <2> QED
    BY <1>2, <1>4, <1>6, <1>10, <1>11, <1>12, <1>15, <1>16, <1>17, <2>1, <2>2,
       OpenIInv

LEMMA CgiStartsIInv ==
  ASSUME IInv, NEW e \in Event, CgiStarts(e)
  PROVE  IInv'
<1> USE NoFdNotFd, ConnAssumption, FdAssumption DEF IInv
<1> SUFFICES ASSUME NEW w, NEW c, w = e.fd, c = clients[e.fd]
             PROVE  IInv'
  OBVIOUS
<1>1. /\ Handling(e) /\ c # NoConn /\ w \notin Listener /\ cl[c].isCGI
      /\ ~handler[c].started
  BY DEF CgiStarts, CgiEvent, Writing
<1>2. w \in Fd /\ c \in Conn /\ cl[c] \in ClientState /\ cl[c].obj = "live"
      /\ InTable(c) /\ ~Late(c)
  BY <1>1, EventClient
<1>3. PICK i0 \in FreeAt(0), i1 \in FreeAt(1), o0 \in FreeAt(2), o1 \in FreeAt(3) :
        /\ fdt' = [fdt EXCEPT ![i1] = Owned("cgi_in", c), ![o0] = Owned("cgi_out", c)]
        /\ handler' = [handler EXCEPT ![c] =
             [started |-> TRUE, in0 |-> i0, in1 |-> i1, out0 |-> o0, out1 |-> o1,
              age |-> 0]]
  BY DEF CgiStarts
<1>4. /\ UNCHANGED <<clients, cl, interest, backlog, net, life, sent>>
      /\ ready' = ready \ {e} /\ UNCHANGED <<up, sweep, busy>>
      /\ child' = [child EXCEPT ![c] = "running"]
  BY DEF CgiStarts, Handled
<1>5. /\ i0 \in Fd /\ i1 \in Fd /\ o0 \in Fd /\ o1 \in Fd
      /\ interest[i1] = "none" /\ interest[o0] = "none"
  BY FreeFacts
<1>6. sweep = {} /\ e \in ready /\ cl[c].complete
  BY <1>1, <1>2 DEF Handling, ObjectInv
<1>7. /\ fdt' \in [Fd -> Descriptor]
      /\ handler' \in [Conn -> HandlerState]
      /\ child' \in [Conn -> ChildState]
  <2>1. Owned("cgi_in", c) \in Descriptor /\ Owned("cgi_out", c) \in Descriptor
    BY <1>2 DEF Owned, Descriptor
  <2> QED
    BY <1>2, <1>3, <1>4, <1>5, <2>1, TimeAssumption
       DEF TypeOK, HandlerState, ChildState, Horizon
<1>8. /\ fdt'[o0] = Owned("cgi_out", c)
      /\ i1 # o0 => fdt'[i1] = Owned("cgi_in", c)
      /\ \A f \in Fd : f # i1 /\ f # o0 => fdt'[f] = fdt[f]
  BY <1>3, <1>5 DEF TypeOK
<1>9. handler'[c].started /\ handler'[c].in1 = i1 /\ handler'[c].out0 = o0
      /\ handler'[c].age = 0 /\ OthersStay(c)
  BY <1>2, <1>3, <1>4 DEF TypeOK, OthersStay
<1>10. Opened(w, c, {i1, o0})
  <2>1. interest' = interest
    BY <1>4
  <2>2. \A g \in {i1, o0} : /\ interest'[g] = "none"
                            /\ \E k \in {"file", "upload", "cgi_in", "cgi_out"} :
                                 fdt'[g] = Owned(k, c)
    BY <1>5, <1>8, <2>1
  <2>3. \A g \in Fd \ {i1, o0} : fdt'[g] = fdt[g] /\ KeptOrClosed(g)
    BY <1>8, <2>1 DEF KeptOrClosed
  <2>4. fdt[w].kind = "sock" =>
          interest'[w] = IF cl'[c].complete THEN "out" ELSE "in"
    BY <1>2, <1>4, <2>1 DEF SocketServed
  <2> QED
    BY <1>2, <2>2, <2>3, <2>4 DEF Opened
<1>11. ClientHolds(w, c)
  <2>1. ~(Late(c)')
    <3>1. busy' \in Nat /\ busy' = busy
      BY <1>4, TimeAssumption DEF TypeOK
    <3> QED
      BY <1>2, <1>4, <1>9, <3>1, TimeAssumption DEF Late
  <2>2. life[c] <= IF cl'[c].requesting THEN cl'[c].age
                   ELSE REQUEST_TIMEOUT + MaxBusy + cl'[c].age
    BY <1>2, <1>4 DEF ClockInv
  <2>3. \A x \in ready' : x.ev = "in" => x.fd # w
    <3>1. ready' \subseteq ready
      BY <1>4
    <3>2. \A x \in ready : x.ev = "in" /\ x.fd = w => ~cl[c].complete
      BY <1>1 DEF EventInv
    <3> QED
      BY <1>6, <3>1, <3>2
  <2>4. cl'[c].upload \in Fd => fdt'[cl'[c].upload] # Owned("sock", c)
    <3> SUFFICES ASSUME NEW u \in Fd, u = cl[c].upload
                 PROVE  fdt'[u] # Owned("sock", c)
      BY <1>4
    <3>1. fdt[u] # Owned("sock", c)
      BY <1>2 DEF ObjectInv
    <3>2. CASE u = o0
      BY <3>2, <1>8, OwnedFacts
    <3>3. CASE u # o0 /\ u = i1
      BY <3>3, <1>8, OwnedFacts
    <3>4. CASE u # o0 /\ u # i1
      BY <3>4, <3>1, <1>8
    <3> QED
      BY <3>2, <3>3, <3>4
  <2>5. cl'[c].requesting <=> ~cl'[c].complete
    BY <1>2, <1>4 DEF ObjectInv
  <2>6. cl'[c].obj = "live" /\ cl'[c].isCGI /\ cl'[c].complete
    BY <1>1, <1>2, <1>4, <1>6
  <2> QED
    BY <1>9, <2>1, <2>2, <2>3, <2>4, <2>5, <2>6 DEF ClientHolds
<1>12. DescriptorsHold(c)
  <2> SUFFICES ASSUME NEW g \in Fd
               PROVE  /\ fdt'[g] = Owned("file", c) => cl'[c].file = g
                      /\ fdt'[g] = Owned("cgi_in", c) => handler'[c].in1 = g
                      /\ fdt'[g] = Owned("cgi_out", c) => handler'[c].out0 = g
                      /\ fdt'[g] = Owned("upload", c) /\ ~cl'[c].finished =>
                           cl'[c].storing /\ cl'[c].upload = g
    BY DEF DescriptorsHold
  <2>1. handler[c].in1 = NoFd /\ handler[c].out0 = NoFd
    BY <1>1, <1>2 DEF ObjectInv, NoHandler
  <2>2. CASE g = i1 \/ g = o0
    BY <2>2, <1>8, <1>9, OwnedFacts
  <2>3. CASE g # i1 /\ g # o0
    BY <2>1, <2>3, <1>2, <1>4, <1>8 DEF Remembered, UploadTracked
  <2> QED
    BY <2>2, <2>3
<1> QED
  <2>1. /\ sent' \in [Conn -> SUBSET Pieces] /\ net' \in [Conn -> NetState]
        /\ interest' \in [Fd -> {"none", "in", "out"}]
        /\ cl' \in [Conn -> ClientState] /\ PeersStay
    BY <1>4 DEF TypeOK, NetState, PeersStay
  <2>2. {i1, o0} \in SUBSET Fd
    BY <1>5
  <2> QED
    BY <1>2, <1>4, <1>6, <1>7, <1>9, <1>10, <1>11, <1>12, <2>1, <2>2, OpenIInv
----------------------------------------------------------------------------
(* The other actions, by the lemma for what they change.                   *)

\* Steps that close the numbers of S, and change nothing of any Client.
LEMMA CloseIInv ==
  ASSUME IInv, NEW S, NEW n \in [Conn -> NetState],
         \A c \in Conn : n[c].peer = net[c].peer, Shut(S, n),
         UNCHANGED <<up, sweep, busy, clients, cl, handler, child, life, sent>>,
         ready' \subseteq ready
  PROVE  IInv'
<1>1. TypeOK
  BY DEF IInv
<1>2. /\ fdt' \in [Fd -> Descriptor]
      /\ interest' \in [Fd -> {"none", "in", "out"}]
      /\ net' \in [Conn -> NetState]
      /\ backlog' = backlog
      /\ \A f \in Fd : KeptOrClosed(f)
      /\ \A c \in Conn : net'[c].peer = "away" => net[c].peer = "away"
  BY <1>1, ShutKeeps
<1>3. \A c \in Conn : OnlyFlagsChange(c)
  BY DEF OnlyFlagsChange
<1>4. /\ up' \in BOOLEAN /\ child' \in [Conn -> ChildState]
      /\ sent' \in [Conn -> SUBSET Pieces] /\ cl' \in [Conn -> ClientState]
  BY <1>1 DEF TypeOK, ChildState
<1> QED
  BY <1>2, <1>3, <1>4, FrameIInv

\* Steps of a peer or of a child, or that read from a descriptor.
LEMMA NetIInv ==
  ASSUME IInv, net' \in [Conn -> NetState], child' \in [Conn -> ChildState],
         \A c \in Conn : net'[c].peer = "away" => net[c].peer = "away",
         UNCHANGED <<up, sweep, busy, clients, cl, handler, fdt, interest, backlog,
                     life, sent>>,
         ready' \subseteq ready
  PROVE  IInv'
<1>1. TypeOK
  BY DEF IInv
<1>2. /\ \A f \in Fd : KeptOrClosed(f)
      /\ \A c \in Conn : OnlyFlagsChange(c)
  BY DEF KeptOrClosed, OnlyFlagsChange
<1>3. /\ up' \in BOOLEAN /\ sent' \in [Conn -> SUBSET Pieces]
      /\ cl' \in [Conn -> ClientState] /\ fdt' \in [Fd -> Descriptor]
      /\ interest' \in [Fd -> {"none", "in", "out"}]
  BY <1>1 DEF TypeOK
<1> QED
  BY <1>2, <1>3, FrameIInv

LEMMA ReapedType ==
  ASSUME IInv, NEW c \in Conn
  PROVE  ReapedBy(c) \in [Conn -> ChildState]
BY DEF IInv, TypeOK, ReapedBy, ChildState

LEMMA DropClientIInv ==
  ASSUME IInv, NEW e \in Event, Handling(e), clients[e.fd] # NoConn, NEW S,
         NEW n \in [Conn -> NetState], \A c \in Conn : n[c].peer = net[c].peer,
         DropClient(e, S, n)
  PROVE  IInv'
<1>1. e.fd \in Fd /\ clients[e.fd] \in Conn
  BY EventClient
<1>2. /\ RemoveClient(e.fd, S, n) /\ child' = ReapedBy(clients[e.fd])
      /\ ready' \subseteq ready /\ sweep = {} /\ sweep' = sweep /\ busy' = busy
      /\ up' = up /\ life' = life /\ sent' = sent
  BY DEF DropClient, Handled, Handling
<1>3. sent' \in [Conn -> SUBSET Pieces]
  BY <1>2 DEF IInv, TypeOK
<1>4. child' \in [Conn -> ChildState]
  BY <1>1, <1>2, ReapedType
<1>5. sweep' = sweep \ {e.fd}
  BY <1>2
<1> QED
  BY <1>1, <1>2, <1>3, <1>4, <1>5, RemoveIInv

LEMMA CgiAnswersIInv ==
  ASSUME IInv, NEW e \in Event, Handling(e), clients[e.fd] # NoConn,
         NEW n \in [Conn -> NetState], \A c \in Conn : n[c].peer = net[c].peer,
         NEW fate \in ChildState, CgiAnswers(e, n, fate)
  PROVE  IInv'
<1>1. e.fd \in Fd /\ clients[e.fd] \in Conn
  BY EventClient
<1>2. CASE Dies
  BY <1>2, DiesIInv
<1>3. CASE ~Dies
  <2>1. /\ RemoveClient(e.fd, {}, n)
        /\ child' = [child EXCEPT ![clients[e.fd]] = fate]
        /\ sent' = [sent EXCEPT ![clients[e.fd]] = sent[clients[e.fd]] \cup {"answer"}]
        /\ ready' \subseteq ready /\ sweep = {} /\ sweep' = sweep /\ busy' = busy
        /\ up' = up /\ life' = life
    BY <1>3 DEF CgiAnswers, Handled, Handling
  <2>2. child' \in [Conn -> ChildState] /\ sent' \in [Conn -> SUBSET Pieces]
    BY <1>1, <2>1 DEF IInv, TypeOK, ChildState, Pieces
  <2>3. sweep' = sweep \ {e.fd}
    BY <2>1
  <2> QED
    BY <1>1, <2>1, <2>2, <2>3, RemoveIInv
<1> QED
  BY <1>2, <1>3

LEMMA TimeOutIInv ==
  ASSUME IInv, NEW f \in Fd, HandleTimeOut(f)
  PROVE  IInv'
<1>1. clients[f] # NoConn /\ clients[f] \in Conn
  BY DEF HandleTimeOut, IInv, TypeOK
<1>2. CASE Dies
  BY <1>2, DiesIInv
<1>3. CASE ~Dies
  <2>1. /\ RemoveClient(f, {}, net) /\ child' = ReapedBy(clients[f])
        /\ sweep' = sweep \ {f} /\ UNCHANGED <<up, ready, busy, life, sent>>
    BY <1>3 DEF HandleTimeOut, SweepAfter
  <2>2. net \in [Conn -> NetState] /\ sent \in [Conn -> SUBSET Pieces]
    BY DEF IInv, TypeOK, NetState
  <2>3. child' \in [Conn -> ChildState]
    BY <1>1, <2>1, ReapedType
  <2> QED
    BY <1>1, <2>1, <2>2, <2>3, RemoveIInv
<1> QED
  BY <1>2, <1>3

LEMMA UploadClosesIInv ==
  ASSUME IInv, NEW e \in Event, NEW rest \in BOOLEAN, UploadCloses(e, rest), ~Dies
  PROVE  IInv'
<1> SUFFICES ASSUME NEW w, NEW c, w = e.fd, c = clients[e.fd]
             PROVE  IInv'
  OBVIOUS
<1>1. Handling(e) /\ clients[e.fd] # NoConn /\ cl[c].storing
      /\ Shut({cl[c].upload}, Drained(w, rest))
      /\ ~cl[c].finished
      /\ \E last \in BOOLEAN :
           cl' = [cl EXCEPT ![c].storing = FALSE, ![c].finished = last]
      /\ UNCHANGED <<clients, handler, child, life, sent, up, sweep, busy>>
      /\ ready' \subseteq ready
  BY DEF UploadCloses, Appends, Requested, Handled, BoundaryCloses
<1>2. TypeOK /\ c \in Conn /\ cl[c] \in ClientState /\ cl[c].obj = "live"
  BY <1>1, EventClient DEF IInv
<1>3. /\ Drained(w, rest) \in [Conn -> NetState]
      /\ \A d \in Conn : Drained(w, rest)[d].peer = net[d].peer
  BY <1>2, DrainedNet
<1>4. /\ fdt' \in [Fd -> Descriptor]
      /\ interest' \in [Fd -> {"none", "in", "out"}]
      /\ net' \in [Conn -> NetState]
      /\ backlog' = backlog
      /\ \A f \in Fd : f = cl[c].upload => fdt'[f] = Free
      /\ \A f \in Fd : f # cl[c].upload => fdt'[f] = fdt[f]
      /\ \A f \in Fd : KeptOrClosed(f)
      /\ \A d \in Conn : net'[d].peer = "away" => net[d].peer = "away"
  <2> DEFINE S == {cl[c].upload}
  <2>1. Shut(S, Drained(w, rest))
    BY <1>1
  <2>2. \A f \in Fd : f \in S <=> f = cl[c].upload
    OBVIOUS
  <2> HIDE DEF S
  <2> QED
    BY <1>2, <1>3, <2>1, <2>2, ShutKeeps
<1>0. PICK last \in BOOLEAN :
        cl' = [cl EXCEPT ![c].storing = FALSE, ![c].finished = last]
  BY <1>1
<1>5. cl'[c] = [cl[c] EXCEPT !.storing = FALSE, !.finished = last]
      /\ \A d \in Conn : d # c => cl'[d] = cl[d]
  BY <1>0, <1>2 DEF TypeOK
<1>6. cl'[c] \in ClientState
  BY <1>2, <1>5 DEF ClientState
<1>7. cl' \in [Conn -> ClientState]
  BY <1>0, <1>2, <1>6 DEF TypeOK
<1>8. \A f \in Fd : fdt'[f] # Owned("upload", c)
  BY <1>1, <1>2, <1>4, OwnedFacts DEF IInv, UploadTracked
<1>9. \A d \in Conn : OnlyFlagsChange(d)
  <2> TAKE d \in Conn
  <2>1. CASE d = c
    BY <2>1, <1>2, <1>5, <1>8 DEF OnlyFlagsChange, ClientState
  <2>2. CASE d # c
    BY <2>2, <1>5 DEF OnlyFlagsChange
  <2> QED
    BY <2>1, <2>2
<1>10. /\ up' \in BOOLEAN /\ child' \in [Conn -> ChildState]
       /\ sent' \in [Conn -> SUBSET Pieces]
  BY <1>1, <1>2 DEF TypeOK, ChildState
<1> QED
  BY <1>1, <1>4, <1>7, <1>9, <1>10, FrameIInv

LEMMA RespondPieceIInv ==
  ASSUME IInv, NEW e \in Event, NEW rest \in BOOLEAN, RespondPiece(e, rest)
  PROVE  IInv'
<1> SUFFICES ASSUME NEW c, c = clients[e.fd]
             PROVE  IInv'
  OBVIOUS
<1>1. Handling(e) /\ c # NoConn
  BY DEF RespondPiece, Writing
<1>2. TypeOK /\ c \in Conn /\ cl[c] \in ClientState
  BY <1>1, EventClient DEF IInv
<1> DEFINE n == Drained(cl[c].file, rest)
<1>6. n \in [Conn -> NetState] /\ \A d \in Conn : n[d].peer = net[d].peer
  BY <1>2, DrainedNet
<1> HIDE DEF n
<1>3. CASE Dies
  BY <1>3, DiesIInv
<1>4. CASE DropClient(e, {}, n)
  BY <1>1, <1>4, <1>6, DropClientIInv
<1>5. CASE ~Dies /\ ~DropClient(e, {}, n)
  <2>1. PICK all \in SentAllAfter(c) : cl' = [cl EXCEPT ![c].sentAll = all]
    BY <1>5 DEF RespondPiece, n
  <2>2. all \in BOOLEAN
    BY DEF SentAllAfter
  <2>3. /\ sent' = [sent EXCEPT ![c] =
                      sent[c] \cup {IF cl[c].complete THEN "answer" ELSE "early"}]
        /\ UNCHANGED <<clients, handler, fdt, interest, backlog, child, life,
                       up, sweep, busy>>
        /\ net' = n /\ ready' \subseteq ready
    BY <1>5 DEF RespondPiece, Handled, n
  <2>4. cl'[c] = [cl[c] EXCEPT !.sentAll = all]
        /\ \A d \in Conn : d # c => cl'[d] = cl[d]
    BY <2>1, <1>2 DEF TypeOK
  <2>5. cl'[c] \in ClientState
    BY <1>2, <2>2, <2>4 DEF ClientState
  <2>6. cl' \in [Conn -> ClientState]
    BY <2>1, <2>5 DEF TypeOK, IInv
  <2>7. \A d \in Conn : OnlyFlagsChange(d)
    <3> TAKE d \in Conn
    <3>1. CASE d = c
      BY <3>1, <1>2, <2>4 DEF OnlyFlagsChange, ClientState
    <3>2. CASE d # c
      BY <3>2, <2>4 DEF OnlyFlagsChange
    <3> QED
      BY <3>1, <3>2
  <2>8. sent' \in [Conn -> SUBSET Pieces]
    BY <1>2, <2>3 DEF TypeOK, Pieces
  <2>9. /\ up' \in BOOLEAN /\ child' \in [Conn -> ChildState]
        /\ net' \in [Conn -> NetState] /\ fdt' \in [Fd -> Descriptor]
        /\ interest' \in [Fd -> {"none", "in", "out"}]
    BY <1>2, <1>6, <2>3 DEF TypeOK, ChildState
  <2>10. \A f \in Fd : KeptOrClosed(f)
    BY <2>3 DEF KeptOrClosed
  <2>11. \A d \in Conn : net'[d].peer = net[d].peer
    BY <1>6, <2>3
  <2> QED
    BY <2>3, <2>6, <2>7, <2>8, <2>9, <2>10, <2>11, FrameIInv
<1> QED
  BY <1>3, <1>4, <1>5

\* A part without a file sets the flag of its Client, which has no upload file or
\* has met the end boundary.
LEMMA PartOpensNothingIInv ==
  ASSUME IInv, NEW e \in Event, NEW rest \in BOOLEAN, PartOpensNothing(e, rest)
  PROVE  IInv'
<1> SUFFICES ASSUME NEW c, c = clients[e.fd]
             PROVE  IInv'
  OBVIOUS
<1>1. /\ Handling(e) /\ clients[e.fd] # NoConn
      /\ cl[c].storing => cl[c].finished
      /\ cl' = [cl EXCEPT ![c].storing = TRUE]
      /\ net' = Drained(e.fd, rest) /\ ready' \subseteq ready
      /\ UNCHANGED <<clients, handler, fdt, interest, backlog, child, life, sent,
                     up, sweep, busy>>
  BY DEF PartOpensNothing, Requested, Handled
<1>2. TypeOK /\ c \in Conn /\ cl[c] \in ClientState /\ cl[c].obj = "live"
  BY <1>1, EventClient DEF IInv
<1>3. net' \in [Conn -> NetState] /\ \A d \in Conn : net'[d].peer = net[d].peer
  BY <1>1, <1>2, DrainedNet
<1>4. cl'[c] = [cl[c] EXCEPT !.storing = TRUE]
      /\ \A d \in Conn : d # c => cl'[d] = cl[d]
  BY <1>1, <1>2 DEF TypeOK
<1>5. cl'[c] \in ClientState
  BY <1>2, <1>4 DEF ClientState
<1>6. cl' \in [Conn -> ClientState]
  BY <1>1, <1>2, <1>5 DEF TypeOK
<1>7. cl[c].finished \/ \A f \in Fd : fdt'[f] # Owned("upload", c)
  BY <1>1, <1>2 DEF IInv, UploadTracked
<1>8. \A d \in Conn : OnlyFlagsChange(d)
  <2> TAKE d \in Conn
  <2>1. CASE d = c
    BY <2>1, <1>2, <1>4, <1>7 DEF OnlyFlagsChange, ClientState
  <2>2. CASE d # c
    BY <2>2, <1>4 DEF OnlyFlagsChange
  <2> QED
    BY <2>1, <2>2
<1>9. /\ up' \in BOOLEAN /\ child' \in [Conn -> ChildState]
      /\ sent' \in [Conn -> SUBSET Pieces] /\ fdt' \in [Fd -> Descriptor]
      /\ interest' \in [Fd -> {"none", "in", "out"}]
      /\ \A f \in Fd : KeptOrClosed(f)
  BY <1>1, <1>2 DEF TypeOK, ChildState, KeptOrClosed
<1> QED
  BY <1>1, <1>3, <1>6, <1>8, <1>9, FrameIInv

\* A peer connects once, before it has a Client.
LEMMA ConnectIInv ==
  ASSUME IInv, NEW c \in Conn, NEW l \in Listener, Connect(c, l)
  PROVE  IInv'
<1> USE FdAssumption DEF IInv
<1>1. /\ net[c].peer = "away" /\ net' = [net EXCEPT ![c].peer = "open"]
      /\ backlog' = [backlog EXCEPT ![l] = backlog[l] \cup {c}]
      /\ UNCHANGED <<up, ready, sweep, busy, clients, cl, handler, fdt, interest,
                     child, life, sent>>
  BY DEF Connect, loopVars
<1>2. /\ net' \in [Conn -> NetState] /\ net'[c].peer = "open"
      /\ \A d \in Conn : d # c => net'[d] = net[d]
  BY <1>1 DEF TypeOK, NetState
<1>3. cl[c].obj = "none" /\ \A m \in Listener : c \notin backlog[m]
  BY <1>1 DEF TableInv
<1>4. \A m \in Listener : \A d \in backlog'[m] :
        \/ d = c /\ m = l
        \/ d # c /\ d \in Conn /\ d \in backlog[m]
  BY <1>1, <1>3 DEF TypeOK
<1>5. TypeOK'
  BY <1>1, <1>2 DEF TypeOK, NetState
<1>6. TableInv'
  <2>1. \A m, k \in Listener : \A d \in backlog'[m] \cap backlog'[k] : m = k
    BY <1>4 DEF TableInv
  <2>2. \A m \in Listener : \A d \in backlog'[m] :
          cl'[d].obj = "none" /\ net'[d].peer # "away"
    BY <1>1, <1>2, <1>3, <1>4 DEF TableInv
  <2>3. \A d \in Conn : net'[d].peer = "away" => cl'[d].obj = "none"
    BY <1>1, <1>2 DEF TableInv
  <2>4. \A d \in Conn : cl'[d].obj = "live" => InTable(d)'
    BY <1>1 DEF TableInv, InTable
  <2>5. /\ \A f \in Fd : clients'[f] # NoConn => cl'[clients'[f]].obj = "live"
        /\ \A f, g \in Fd : clients'[f] = clients'[g] /\ clients'[f] # NoConn => f = g
        /\ \A d \in Conn : cl'[d].obj = "none" => life'[d] = 0
    BY <1>1 DEF TableInv
  <2> QED
    BY <2>1, <2>2, <2>3, <2>4, <2>5 DEF TableInv
<1>7. ObjectInv' /\ EventInv'
  BY <1>1 DEF ObjectInv, EventInv
<1>8. SocketServed' /\ Remembered' /\ UploadTracked'
  BY <1>1 DEF SocketServed, Remembered, UploadTracked
<1>9. ClockInv'
  BY <1>1 DEF ClockInv, InTable, Late
<1> QED
  BY <1>5, <1>6, <1>7, <1>8, <1>9
----------------------------------------------------------------------------
(* Every step preserves the invariant: one step of the proof per action.   *)

LEMMA WorldIInv == IInv /\ World => IInv'
<1> SUFFICES ASSUME IInv, NEW c \in Conn,
                    \/ \E l \in Listener : Connect(c, l)
                    \/ PeerSends(c)
                    \/ \E how \in {"closed", "reset"} : PeerLeaves(c, how)
                    \/ ChildEndsOutput(c) \/ ChildExits(c)
             PROVE  IInv'
  BY DEF World
<1>0. TypeOK
  BY DEF IInv
<1>1. ASSUME NEW l \in Listener, Connect(c, l) PROVE IInv'
  BY <1>1, ConnectIInv
<1>2. CASE PeerSends(c)
  <2>1. /\ net' \in [Conn -> NetState] /\ child' \in [Conn -> ChildState]
        /\ \A d \in Conn : net'[d].peer = net[d].peer
    BY <1>0, <1>2 DEF PeerSends, TypeOK, NetState, ChildState
  <2> QED
    BY <1>2, <2>1, NetIInv DEF PeerSends, loopVars
<1>3. ASSUME NEW how \in {"closed", "reset"}, PeerLeaves(c, how) PROVE IInv'
  <2>1. /\ net' \in [Conn -> NetState] /\ child' \in [Conn -> ChildState]
        /\ \A d \in Conn : net'[d].peer = "away" => net[d].peer = "away"
    BY <1>0, <1>3 DEF PeerLeaves, TypeOK, NetState, ChildState
  <2> QED
    BY <1>3, <2>1, NetIInv DEF PeerLeaves, loopVars
<1>4. CASE ChildEndsOutput(c) \/ ChildExits(c)
  <2>1. net' \in [Conn -> NetState] /\ child' \in [Conn -> ChildState]
    BY <1>0, <1>4
       DEF ChildEndsOutput, ChildExits, kernelVars, TypeOK, NetState, ChildState
  <2> QED
    BY <1>4, <2>1, NetIInv DEF ChildEndsOutput, ChildExits, loopVars, kernelVars
<1> QED
  BY <1>1, <1>2, <1>3, <1>4

LEMMA DispatchIInv ==
  ASSUME IInv, NEW e \in Event, Dispatch(e)
  PROVE  IInv'
<1>0. TypeOK /\ net \in [Conn -> NetState] /\ child \in [Conn -> ChildState]
  BY DEF IInv, TypeOK, NetState, ChildState
<1>1. CASE Dies
  BY <1>1, DiesIInv
<1>2. CASE ~Dies /\ HandleListeningClient(e)
  <2>1. PICK c \in backlog[e.fd], f \in FreeAt(0) : NewConnection(e.fd, c, f)
    BY <1>2 DEF HandleListeningClient
  <2>2. /\ sweep = {} /\ sweep' = sweep /\ busy' = busy /\ up' = up /\ ready' \subseteq ready
        /\ e.fd \in Listener /\ f \in FreeFds
    BY <1>2, FreeFacts DEF HandleListeningClient, Handling, Handled
  <2> QED
    BY <2>1, <2>2, NewConnectionIInv
<1>3. CASE DropUnknown(e)
  BY <1>0, <1>3, CloseIInv DEF DropUnknown, Handled
<1>4. CASE RecvFails(e)
  BY <1>0, <1>4, DropClientIInv DEF RecvFails, Requested
<1>5. ASSUME NEW rest \in BOOLEAN, ~Dies, RequestGrows(e, rest) PROVE IInv'
  <2>1. /\ Drained(e.fd, rest) \in [Conn -> NetState]
        /\ \A c \in Conn : Drained(e.fd, rest)[c].peer = net[c].peer
    BY <1>0, DrainedNet
  <2>2. /\ net' = Drained(e.fd, rest) /\ ready' \subseteq ready
        /\ UNCHANGED <<up, sweep, busy, clients, cl, handler, fdt, interest, backlog,
                       child, life, sent>>
    BY <1>5 DEF RequestGrows, Handled
  <2> QED
    BY <1>0, <2>1, <2>2, NetIInv
<1>6. ASSUME NEW rest \in BOOLEAN, ~Dies, UploadOpens(e, rest) PROVE IInv'
  BY <1>6, UploadOpensIInv
<1>7. ASSUME NEW rest \in BOOLEAN, ~Dies, UploadCloses(e, rest) PROVE IInv'
  BY <1>7, UploadClosesIInv
<1>8. ASSUME NEW ending \in Endings, ~Dies, RequestCompletes(e, ending) PROVE IInv'
  BY <1>8, RequestCompletesIInv
<1>16. ASSUME NEW rest \in BOOLEAN, PartOpensNothing(e, rest) PROVE IInv'
  BY <1>16, PartOpensNothingIInv
<1>9. ASSUME NEW rest \in BOOLEAN, RespondPiece(e, rest) PROVE IInv'
  BY <1>9, RespondPieceIInv
<1>10. CASE RespondDone(e)
  BY <1>0, <1>10, DropClientIInv DEF RespondDone, Writing
<1>11. CASE CgiStarts(e)
  BY <1>11, CgiStartsIInv
<1>12. CASE CgiStartsAndEnds(e)
  <2>1. PICK fate \in {"silent", "reaped"} : CgiAnswers(e, net, fate)
    BY <1>12 DEF CgiStartsAndEnds
  <2>2. fate \in ChildState /\ Handling(e) /\ clients[e.fd] # NoConn
    BY <1>12 DEF CgiStartsAndEnds, CgiEvent, Writing, ChildState
  <2> QED
    BY <1>0, <2>1, <2>2, CgiAnswersIInv
<1>13. CASE CgiFailsToStart(e)
  <2>1. PICK g \in Garbage :
          \/ DropClient(e, g, net)
          \/ /\ Shut(g, net) /\ Handled(e)
             /\ UNCHANGED <<clients, cl, handler, child, life, sent>>
    BY <1>13 DEF CgiFailsToStart
  <2>2. Handling(e) /\ clients[e.fd] # NoConn
    BY <1>13 DEF CgiFailsToStart, CgiEvent, Writing
  <2>3. CASE DropClient(e, g, net)
    BY <1>0, <2>2, <2>3, DropClientIInv
  <2>4. CASE /\ Shut(g, net) /\ Handled(e)
             /\ UNCHANGED <<clients, cl, handler, child, life, sent>>
    BY <1>0, <2>4, CloseIInv DEF Handled
  <2> QED
    BY <2>1, <2>3, <2>4
<1>14. CASE CgiReads(e)
  <2> DEFINE n == Drained(handler[clients[e.fd]].out0, FALSE)
  <2>1. n \in [Conn -> NetState] /\ \A c \in Conn : n[c].peer = net[c].peer
    BY <1>0, DrainedNet
  <2>2. Handling(e) /\ clients[e.fd] # NoConn
    BY <1>14 DEF CgiReads, CgiEvent, Writing
  <2>3. \/ DropClient(e, {}, n)
        \/ /\ net' = n /\ ready' \subseteq ready
           /\ UNCHANGED <<up, sweep, busy, clients, cl, handler, fdt, interest,
                          backlog, child, life, sent>>
    BY <1>14 DEF CgiReads, Handled
  <2> HIDE DEF n
  <2>4. CASE DropClient(e, {}, n)
    BY <2>1, <2>2, <2>4, DropClientIInv
  <2>5. CASE /\ net' = n /\ ready' \subseteq ready
             /\ UNCHANGED <<up, sweep, busy, clients, cl, handler, fdt, interest,
                            backlog, child, life, sent>>
    BY <1>0, <2>1, <2>5, NetIInv
  <2> QED
    BY <2>3, <2>4, <2>5
<1>15. CASE CgiEnds(e)
  <2> DEFINE c == clients[e.fd]
             n == Drained(handler[c].out0, FALSE)
             fate == IF child[c] = "zombie" THEN "reaped" ELSE child[c]
  <2>1. n \in [Conn -> NetState] /\ \A d \in Conn : n[d].peer = net[d].peer
    BY <1>0, DrainedNet
  <2>2. CgiAnswers(e, n, fate) /\ Handling(e) /\ clients[e.fd] # NoConn
    BY <1>15 DEF CgiEnds, CgiEvent, Writing
  <2>3. fate \in ChildState
    <3>1. c \in Conn
      BY <2>2, EventClient
    <3> QED
      BY <1>0, <3>1 DEF ChildState
  <2> HIDE DEF n, fate
  <2> QED
    BY <2>1, <2>2, <2>3, CgiAnswersIInv
<1>17. CASE CgiStartsInVain(e)
  <2>1. /\ RemoveClient(e.fd, {}, net) /\ ready' \subseteq ready
        /\ sweep = {} /\ sweep' = sweep /\ busy' = busy /\ up' = up /\ life' = life
        /\ sent' = sent /\ child' = [child EXCEPT ![clients[e.fd]] = "reaped"]
        /\ Handling(e) /\ clients[e.fd] # NoConn
    BY <1>17 DEF CgiStartsInVain, CgiEvent, Writing, Handling, Handled
  <2>2. e.fd \in Fd /\ clients[e.fd] \in Conn
    BY <2>1, EventClient
  <2>3. sweep' = sweep \ {e.fd}
    BY <2>1
  <2>4. child' \in [Conn -> ChildState] /\ sent' \in [Conn -> SUBSET Pieces]
    BY <1>0, <2>1, <2>2 DEF TypeOK, ChildState
  <2> QED
    BY <1>0, <2>1, <2>2, <2>3, <2>4, RemoveIInv
<1> QED
  BY <1>1, <1>2, <1>3, <1>4, <1>5, <1>6, <1>7, <1>8, <1>9, <1>10, <1>11, <1>12,
     <1>13, <1>14, <1>15, <1>16, <1>17 DEF Dispatch

LEMMA NextIInv == IInv /\ [Next]_vars => IInv'
<1> SUFFICES ASSUME IInv, [Next]_vars PROVE IInv'
  OBVIOUS
<1>1. ASSUME NEW t \in 0..MaxLag, EpollWait(t) PROVE IInv'
  BY <1>1, EpollWaitIInv
<1>2. ASSUME NEW f \in Fd, HandleTimeOut(f) PROVE IInv'
  BY <1>2, TimeOutIInv
<1>3. ASSUME NEW e \in Event, Dispatch(e) PROVE IInv'
  BY <1>3, DispatchIInv
<1>4. CASE World
  BY <1>4, WorldIInv
<1>5. CASE UNCHANGED vars
  <2>1. net' \in [Conn -> NetState] /\ child' \in [Conn -> ChildState]
    BY <1>5 DEF vars, IInv, TypeOK, NetState, ChildState
  <2> QED
    BY <1>5, <2>1, NetIInv DEF vars
<1>6. ASSUME NEW t \in 1..MaxBusy, Tick(t) PROVE IInv'
  BY <1>6, TickIInv
<1> QED
  BY <1>1, <1>2, <1>3, <1>4, <1>5, <1>6 DEF Next

----------------------------------------------------------------------------
(* The theorems.                                                           *)

\* IInv holds in every reachable state.
THEOREM Invariant == Spec => []IInv
BY InitIInv, NextIInv, PTL DEF Spec

\* Every variable keeps its type; what is still to be swept is in the table.
THEOREM TypeCorrect == Spec => []TypeOK
<1>1. IInv => TypeOK
  BY DEF IInv
<1> QED
  BY <1>1, Invariant, PTL

\* No close() of a stale number (handleTimeOut, ~CGIHandler, closeFileUpload, the
\* err_pipe of startCGI) leaves an open connection without its Client, or watched
\* for the wrong thing.
THEOREM SocketsServed == Spec => []SocketServed
<1>1. IInv => SocketServed
  BY DEF IInv
<1> QED
  BY <1>1, Invariant, PTL

\* A served file and the pipes of a script are open only while the object that
\* remembers their number is in the table, where a handler or a time-out will delete
\* it, or has lost its entry to an accept (run_server.cpp, line 36).
THEOREM DescriptorsKept == Spec => []NoDescriptorLeak
<1>1. IInv => NoDescriptorLeak
  <2> SUFFICES ASSUME IInv, NEW f \in Fd, NEW c \in Conn
               PROVE  /\ fdt[f] = Owned("file", c) => Holds(c, f, cl[c].file)
                      /\ fdt[f] = Owned("cgi_in", c) => Holds(c, f, handler[c].in1)
                      /\ fdt[f] = Owned("cgi_out", c) => Holds(c, f, handler[c].out0)
    BY DEF NoDescriptorLeak
  <2>1. cl[c].obj \in Standing => InTable(c) \/ cl[c].obj = "orphan"
    BY DEF IInv, TableInv, Standing
  <2> QED
    BY <2>1 DEF IInv, Remembered, Holds
<1> QED
  BY <1>1, Invariant, PTL

\* As long as its Client lives, an upload has at most one open file, which the
\* Request remembers and writes to.
THEOREM UploadsTracked == Spec => []UploadTracked
<1>1. IInv => UploadTracked
  BY DEF IInv
<1> QED
  BY <1>1, Invariant, PTL

\* Once handleTimeOut has gone over the table, the deadlines bound how long every
\* client in it has been there and how long its script has run, up to the seconds
\* the loop spends on a batch without looking at the deadlines.
THEOREM ServedOnTime == Spec => []ServedInTime
<1>1. IInv => ServedInTime
  <2> SUFFICES ASSUME IInv, sweep = {}, NEW c \in Conn, InTable(c)
               PROVE  /\ life[c] <= REQUEST_TIMEOUT + RESPONSE_TIMEOUT + MaxBusy + busy
                      /\ handler[c].started =>
                           cl[c].isCGI /\ handler[c].age <= CGI_TIMEOUT + busy
    BY DEF ServedInTime
  <2>1. PICK f \in Fd : clients[f] = c
    BY DEF InTable
  <2>2. ~Late(c)
    BY <2>1, ConnAssumption DEF IInv, ClockInv
  <2>3. /\ cl[c].age \in Int /\ life[c] \in Int
        /\ handler[c].age \in Int /\ busy \in Nat
    BY TimeAssumption DEF IInv, TypeOK, ClientState, HandlerState, Horizon
  <2>4. life[c] <= IF cl[c].requesting THEN cl[c].age
                   ELSE REQUEST_TIMEOUT + MaxBusy + cl[c].age
    BY DEF IInv, ClockInv
  <2>5. cl[c].age <= busy + (IF cl[c].requesting THEN REQUEST_TIMEOUT
                             ELSE RESPONSE_TIMEOUT)
    BY <2>2, <2>3, TimeAssumption DEF Late
  <2>6. life[c] <= REQUEST_TIMEOUT + RESPONSE_TIMEOUT + MaxBusy + busy
    BY <2>3, <2>4, <2>5, TimeAssumption
  <2>7. handler[c].started => cl[c].isCGI
    BY DEF IInv, ObjectInv
  <2>8. handler[c].started => handler[c].age <= CGI_TIMEOUT + busy
    BY <2>2, <2>3, <2>7, TimeAssumption DEF Late
  <2> QED
    BY <2>6, <2>7, <2>8
<1> QED
  BY <1>1, Invariant, PTL

KillsScript(c) ==
  handler[c].started /\ ~handler'[c].started /\ child[c] = "running"
    /\ fdt[handler[c].out0] = Owned("cgi_out", c)
  => child'[c] = "reaped"

\* Deleting a client with ~CGIHandler's waitpid leaves no script of anybody.
LEMMA DropKills ==
  ASSUME IInv, NEW f \in Fd, clients[f] # NoConn, NEW S, NEW n,
         RemoveClient(f, S, n), child' = ReapedBy(clients[f]), NEW c \in Conn
  PROVE  KillsScript(c)
<1>1. clients[f] \in Conn
  BY DEF IInv, TypeOK
<1>2. handler' = [handler EXCEPT ![clients[f]] = NoHandler]
  BY DEF RemoveClient
<1>3. CASE c = clients[f]
  BY <1>1, <1>3 DEF KillsScript, ReapedBy, IInv, TypeOK
<1>4. CASE c # clients[f]
  BY <1>1, <1>2, <1>4 DEF KillsScript, IInv, TypeOK
<1> QED
  BY <1>3, <1>4

\* Steps other than deleting a client leave the handlers that run alone.
LEMMA DispatchKills ==
  ASSUME IInv, NEW e \in Event, Dispatch(e), NEW c \in Conn
  PROVE  KillsScript(c)
<1> SUFFICES ASSUME handler[c].started, ~handler'[c].started, child[c] = "running",
                    fdt[handler[c].out0] = Owned("cgi_out", c)
             PROVE  child'[c] = "reaped"
  BY DEF KillsScript
<1>1. handler' # handler
  OBVIOUS
<1>2. ~Dies
  BY <1>1 DEF Dies
<1>3. ASSUME NEW S, NEW n, DropClient(e, S, n), Handling(e), clients[e.fd] # NoConn
      PROVE  child'[c] = "reaped"
  <2>1. e.fd \in Fd
    BY <1>3, EventClient
  <2>2. KillsScript(c)
    BY <1>3, <2>1, DropKills DEF DropClient
  <2> QED
    BY <2>2 DEF KillsScript
<1>4. CASE CgiStarts(e)
  BY <1>4 DEF CgiStarts, IInv, TypeOK
<1>5. ASSUME Handling(e), clients[e.fd] # NoConn, NEW S, NEW n,
             RemoveClient(e.fd, S, n), clients[e.fd] # c
      PROVE  FALSE
  <2>1. handler' = [handler EXCEPT ![clients[e.fd]] = NoHandler]
    BY <1>5 DEF RemoveClient
  <2> QED
    BY <1>5, <2>1 DEF IInv, TypeOK
<1>6. CASE CgiStartsAndEnds(e)
  <2>1. PICK fate \in {"silent", "reaped"} : CgiAnswers(e, net, fate)
    BY <1>6 DEF CgiStartsAndEnds
  <2>2. clients[e.fd] # c /\ Handling(e) /\ clients[e.fd] # NoConn
    BY <1>6 DEF CgiStartsAndEnds, CgiEvent, Writing
  <2> QED
    BY <1>2, <1>5, <2>1, <2>2 DEF CgiAnswers
<1>7. CASE CgiEnds(e)
  <2> DEFINE w == clients[e.fd]
  <2>1. /\ RemoveClient(e.fd, {}, Drained(handler[w].out0, FALSE))
        /\ AtEnd(handler[w].out0) /\ Handling(e) /\ w # NoConn
    BY <1>2, <1>7 DEF CgiEnds, CgiEvent, Writing, CgiAnswers
  <2>2. w # c
    <3>1. ~AtEnd(handler[c].out0)
      BY OwnedFacts DEF AtEnd
    <3> QED
      BY <2>1, <3>1
  <2> QED
    BY <1>5, <2>1, <2>2
<1>8. CASE CgiStartsInVain(e)
  <2>1. clients[e.fd] # c /\ Handling(e) /\ clients[e.fd] # NoConn
    BY <1>8 DEF CgiStartsInVain, CgiEvent, Writing
  <2> QED
    BY <1>5, <1>8, <2>1 DEF CgiStartsInVain
<1>9. CASE RecvFails(e) \/ RespondDone(e)
  BY <1>3, <1>9 DEF RecvFails, RespondDone, Requested, Writing
<1>10. ASSUME NEW rest \in BOOLEAN, RespondPiece(e, rest) PROVE child'[c] = "reaped"
  BY <1>1, <1>2, <1>3, <1>10 DEF RespondPiece, Writing
<1>11. CASE CgiFailsToStart(e)
  <2>1. PICK g \in Garbage : DropClient(e, g, net)
    BY <1>1, <1>11 DEF CgiFailsToStart
  <2>2. Handling(e) /\ clients[e.fd] # NoConn
    BY <1>11 DEF CgiFailsToStart, CgiEvent, Writing
  <2> QED
    BY <1>3, <2>1, <2>2
<1>12. CASE CgiReads(e)
  BY <1>1, <1>3, <1>12 DEF CgiReads, CgiEvent, Writing
<1>13. CASE HandleListeningClient(e) \/ DropUnknown(e)
  BY <1>1, <1>2, <1>13 DEF HandleListeningClient, NewConnection, DropUnknown
<1>14. ASSUME NEW rest \in BOOLEAN,
              \/ RequestGrows(e, rest) \/ UploadOpens(e, rest)
              \/ PartOpensNothing(e, rest) \/ UploadCloses(e, rest)
       PROVE  child'[c] = "reaped"
  BY <1>1, <1>2, <1>14 DEF RequestGrows, UploadOpens, PartOpensNothing, UploadCloses
<1>15. ASSUME NEW ending \in Endings, RequestCompletes(e, ending)
       PROVE  child'[c] = "reaped"
  BY <1>1, <1>2, <1>15 DEF RequestCompletes
<1> QED
  BY <1>4, <1>6, <1>7, <1>8, <1>9, <1>10, <1>11, <1>12, <1>13, <1>14, <1>15
     DEF Dispatch

\* A script whose output the server still reads is killed and waited for whenever
\* its client is removed.
THEOREM ScriptsKilled == Spec => ScriptKilled
<1>1. ASSUME IInv, [Next]_vars, NEW c \in Conn
      PROVE  KillsScript(c)
  <2>1. ASSUME NEW t, Elapse(t) PROVE KillsScript(c)
    <3>1. handler[c] \in HandlerState
      BY <1>1 DEF IInv, TypeOK
    <3>2. handler'[c] = IF InTable(c) /\ handler[c].started
                        THEN [handler[c] EXCEPT !.age = Older(handler[c].age, t)]
                        ELSE handler[c]
      BY <2>1 DEF Elapse
    <3> QED
      BY <3>1, <3>2 DEF KillsScript, HandlerState
  <2>2. ASSUME NEW f \in Fd, HandleTimeOut(f) PROVE KillsScript(c)
    <3>1. CASE Dies
      BY <3>1 DEF Dies, KillsScript
    <3>2. CASE ~Dies
      <4>1. clients[f] # NoConn
        BY <1>1, <2>2 DEF HandleTimeOut, IInv, TypeOK
      <4>2. RemoveClient(f, {}, net) /\ child' = ReapedBy(clients[f])
        BY <2>2, <3>2 DEF HandleTimeOut
      <4> QED
        BY <1>1, <4>1, <4>2, DropKills
    <3> QED
      BY <3>1, <3>2
  <2>3. ASSUME NEW e \in Event, Dispatch(e) PROVE KillsScript(c)
    BY <1>1, <2>3, DispatchKills
  <2>4. CASE World
    BY <2>4 DEF World, Connect, PeerSends, PeerLeaves, ChildEndsOutput, ChildExits,
                KillsScript
  <2>5. CASE UNCHANGED vars
    BY <2>5 DEF vars, KillsScript
  <2> QED
    BY <1>1, <2>1, <2>2, <2>3, <2>4, <2>5 DEF Next, EpollWait, Tick
<1>2. IInv /\ [Next]_vars =>
        \A c \in Conn :
          handler[c].started /\ ~handler'[c].started /\ child[c] = "running"
            /\ fdt[handler[c].out0] = Owned("cgi_out", c)
          => child'[c] = "reaped"
  BY <1>1 DEF KillsScript
<1> QED
  BY <1>2, Invariant, PTL DEF Spec, ScriptKilled
----------------------------------------------------------------------------
(* Without files, uploads and scripts nobody closes a number twice.        *)

\* Responses that need neither a file, an upload nor a script.
PlainEndings == \A ending \in Endings : ending \subseteq {"throw"}

\* With PlainEndings no Client and no CGIHandler remembers a number.
NothingHeld ==
  \A c \in Conn :
    /\ handler[c] = NoHandler
    /\ cl[c].file = NoFd /\ cl[c].upload = NoFd /\ ~cl[c].storing /\ ~cl[c].isCGI

\* Who is in the table has its socket open under the same number.
TableOpen ==
  \A f \in Fd : clients[f] # NoConn => fdt[f] = Owned("sock", clients[f])

PlainInv == NothingHeld /\ TableOpen

LEMMA InitPlain == Init => PlainInv
BY DEF Init, PlainInv, NothingHeld, TableOpen, Blank

\* A step that moves no client and closes nothing.
LEMMA StayPlain ==
  ASSUME PlainInv, UNCHANGED <<clients, fdt, handler>>,
         \A c \in Conn : /\ cl'[c].file = cl[c].file /\ cl'[c].upload = cl[c].upload
                         /\ cl'[c].storing = cl[c].storing
                         /\ cl'[c].isCGI = cl[c].isCGI
  PROVE  PlainInv'
BY DEF PlainInv, NothingHeld, TableOpen

\* Removing a client closes its own number and no other.
LEMMA RemovePlain ==
  ASSUME IInv, PlainInv, NEW f \in Fd, clients[f] # NoConn, NEW n,
         RemoveClient(f, {}, n)
  PROVE  PlainInv'
<1>1. PICK c \in Conn : clients[f] = c
  BY DEF IInv, TypeOK
<1>2. /\ clients' = [clients EXCEPT ![f] = NoConn]
      /\ cl' = [cl EXCEPT ![c] = Blank("deleted")]
      /\ handler' = [handler EXCEPT ![c] = NoHandler]
      /\ fdt' = FdtWithout({} \cup ClosedBy(f))
  BY <1>1 DEF RemoveClient, Shut
<1>3. ClosedBy(f) = {f, NoFd}
  BY <1>1 DEF ClosedBy, ObjectFds, HandlerFds, PlainInv, NothingHeld, NoHandler
<1>4. \A g \in Fd : g # f => fdt'[g] = fdt[g]
  BY <1>2, <1>3, NoFdNotFd DEF FdtWithout
<1>5. NothingHeld'
  BY <1>2 DEF PlainInv, NothingHeld, Blank, IInv, TypeOK
<1>6. TableOpen'
  BY <1>2, <1>4 DEF PlainInv, TableOpen, IInv, TypeOK
<1> QED
  BY <1>5, <1>6 DEF PlainInv

LEMMA DropPlain ==
  ASSUME IInv, PlainInv, NEW e \in Event, clients[e.fd] # NoConn, NEW n,
         DropClient(e, {}, n)
  PROVE  PlainInv'
BY RemovePlain DEF DropClient, Event

\* An accepted connection gets a number nobody in the table has.
LEMMA AcceptPlain ==
  ASSUME IInv, PlainInv, NEW l \in Listener, NEW c \in backlog[l], NEW f \in FreeFds,
         NewConnection(l, c, f)
  PROVE  PlainInv'
<1>1. /\ fdt' = [fdt EXCEPT ![f] = Owned("sock", c)]
      /\ clients' = [clients EXCEPT ![f] = c]
      /\ cl' = [d \in Conn |-> IF d = c THEN Blank("live")
                               ELSE IF d = clients[f] THEN [cl[d] EXCEPT !.obj = "orphan"]
                               ELSE cl[d]]
      /\ UNCHANGED handler
  BY DEF NewConnection
<1>2. c \in Conn /\ f \in Fd
  BY FreeFacts DEF IInv, TypeOK
<1>3. NothingHeld'
  <2>1. clients[f] \notin Conn
    <3>1. fdt[f] = Free
      BY FreeFacts
    <3>2. clients[f] = NoConn
      BY <1>2, <3>1, OwnedFacts DEF PlainInv, TableOpen
    <3> QED
      BY <3>2, ConnAssumption
  <2>2. \A d \in Conn : cl'[d] = IF d = c THEN Blank("live") ELSE cl[d]
    BY <1>1, <2>1
  <2> QED
    BY <1>1, <2>2 DEF PlainInv, NothingHeld, Blank
<1>4. TableOpen'
  BY <1>1, <1>2 DEF PlainInv, TableOpen, IInv, TypeOK
<1> QED
  BY <1>3, <1>4 DEF PlainInv

\* A complete request opens and closes nothing.
LEMMA CompletePlain ==
  ASSUME PlainEndings, IInv, PlainInv, NEW e \in Event, NEW ending \in Endings, ~Dies,
         RequestCompletes(e, ending)
  PROVE  PlainInv'
<1> DEFINE c == clients[e.fd]
<1>1. ending = {}
  BY DEF RequestCompletes, PlainEndings
<1>2. c \in Conn
  BY EventClient DEF RequestCompletes, Requested
<1>3. PICK file \in FileOpened(ending) :
        /\ fdt' = [f \in Fd |-> IF f = file THEN Owned("file", c) ELSE FdtWithout({})[f]]
        /\ cl' = [cl EXCEPT ![c] = Completed(c, ending, file)]
  BY <1>1 DEF RequestCompletes
<1>4. file = NoFd
  BY <1>1 DEF FileOpened
<1>5. fdt' = fdt
  BY <1>3, <1>4, NoFdNotFd DEF FdtWithout, IInv, TypeOK
<1>6. UNCHANGED <<clients, handler>>
  BY DEF RequestCompletes
<1>7. cl[c] \in ClientState
  BY <1>2 DEF IInv, TypeOK
<1> HIDE DEF c
<1>8. /\ Completed(c, ending, file).upload = cl[c].upload
      /\ ~Completed(c, ending, file).storing
      /\ ~Completed(c, ending, file).isCGI
      /\ Completed(c, ending, file).file = NoFd
  <2>1. "cgi" \notin ending
    BY <1>1
  <2> QED
    BY <2>1, <1>4, <1>7 DEF Completed, ClientState
<1>9. NothingHeld'
  BY <1>2, <1>3, <1>6, <1>8 DEF PlainInv, NothingHeld, IInv, TypeOK
<1>10. TableOpen'
  BY <1>5, <1>6 DEF PlainInv, TableOpen
<1> QED
  BY <1>9, <1>10 DEF PlainInv

LEMMA DispatchPlain ==
  ASSUME PlainEndings, IInv, PlainInv, NEW e \in Event, Dispatch(e)
  PROVE  PlainInv'
<1>1. CASE Dies
  BY <1>1, StayPlain DEF Dies, kernelVars
<1>2. CASE ~Dies /\ HandleListeningClient(e)
  <2>1. PICK c \in backlog[e.fd], f \in FreeAt(0) : NewConnection(e.fd, c, f)
    BY <1>2 DEF HandleListeningClient
  <2>2. e.fd \in Listener /\ f \in FreeFds
    BY <1>2, FreeFacts DEF HandleListeningClient
  <2> QED
    BY <2>1, <2>2, AcceptPlain
<1>3. CASE DropUnknown(e)
  <2>1. /\ clients[e.fd] = NoConn /\ UNCHANGED <<clients, cl, handler>>
        /\ fdt' = FdtWithout({e.fd})
    BY <1>3 DEF DropUnknown, Shut
  <2>2. \A f \in Fd : clients[f] # NoConn => fdt'[f] = fdt[f]
    BY <2>1 DEF FdtWithout
  <2> QED
    BY <2>1, <2>2 DEF PlainInv, NothingHeld, TableOpen
<1>4. CASE RecvFails(e) \/ RespondDone(e)
  BY <1>4, DropPlain DEF RecvFails, Requested, RespondDone, Writing
<1>5. ASSUME NEW rest \in BOOLEAN, ~Dies, RequestGrows(e, rest) PROVE PlainInv'
  BY <1>5, StayPlain DEF RequestGrows
<1>6. ASSUME NEW rest \in BOOLEAN, \/ UploadOpens(e, rest)
                                    \/ PartOpensNothing(e, rest)
                                    \/ UploadCloses(e, rest)
      PROVE  FALSE
  <2>1. ~MayStore
    BY DEF MayStore, PlainEndings
  <2>2. Requested(e) /\ cl[clients[e.fd]].storing
    BY <1>6, <2>1 DEF UploadOpens, PartOpensNothing, UploadCloses, Appends
  <2>3. clients[e.fd] \in Conn
    BY <2>2, EventClient DEF Requested
  <2> QED
    BY <2>2, <2>3 DEF PlainInv, NothingHeld
<1>7. ASSUME NEW ending \in Endings, ~Dies, RequestCompletes(e, ending) PROVE PlainInv'
  BY <1>7, CompletePlain
<1>8. ASSUME NEW rest \in BOOLEAN, ~Dies, RespondPiece(e, rest) PROVE PlainInv'
  <2> DEFINE n == Drained(cl[clients[e.fd]].file, rest)
  <2>1. CASE DropClient(e, {}, n)
    BY <1>8, <2>1, DropPlain DEF RespondPiece, Writing
  <2>2. CASE ~DropClient(e, {}, n)
    <3>1. PICK all \in BOOLEAN : cl' = [cl EXCEPT ![clients[e.fd]].sentAll = all]
      BY <1>8, <2>2 DEF RespondPiece, SentAllAfter
    <3>2. UNCHANGED <<clients, handler, fdt>>
      BY <1>8, <2>2 DEF RespondPiece
    <3>3. cl \in [Conn -> ClientState]
      BY DEF IInv, TypeOK
    <3>4. \A c \in Conn : /\ cl'[c].file = cl[c].file /\ cl'[c].upload = cl[c].upload
                          /\ cl'[c].storing = cl[c].storing
                          /\ cl'[c].isCGI = cl[c].isCGI
      BY <3>1, <3>3 DEF ClientState
    <3> QED
      BY <3>2, <3>4, StayPlain
  <2> QED
    BY <2>1, <2>2
<1>9. ASSUME CgiEvent(e) PROVE FALSE
  <2>1. clients[e.fd] \in Conn /\ cl[clients[e.fd]].isCGI
    BY <1>9, EventClient DEF CgiEvent, Writing
  <2> QED
    BY <2>1 DEF PlainInv, NothingHeld
<1> QED
  BY <1>1, <1>2, <1>3, <1>4, <1>5, <1>6, <1>7, <1>8, <1>9
     DEF Dispatch, CgiStarts, CgiStartsInVain, CgiStartsAndEnds, CgiFailsToStart,
         CgiReads, CgiEnds

LEMMA NextPlain ==
  ASSUME PlainEndings, IInv, PlainInv, [Next]_vars
  PROVE  PlainInv'
<1>1. ASSUME NEW t, EpollWait(t) \/ Tick(t) PROVE PlainInv'
  <2>1. UNCHANGED <<clients, fdt>> /\ Elapse(t)
    BY <1>1 DEF EpollWait, Tick
  <2>2. handler' = handler
    <3>1. \A c \in Conn : ~handler[c].started
      BY DEF PlainInv, NothingHeld, NoHandler
    <3> QED
      BY <2>1, <3>1 DEF Elapse, IInv, TypeOK
  <2>3. \A c \in Conn : cl[c] \in ClientState
    BY DEF IInv, TypeOK
  <2>4. ASSUME NEW c \in Conn
        PROVE  /\ cl'[c].file = cl[c].file /\ cl'[c].upload = cl[c].upload
               /\ cl'[c].storing = cl[c].storing /\ cl'[c].isCGI = cl[c].isCGI
    <3>1. cl'[c] = cl[c] \/ cl'[c] = [cl[c] EXCEPT !.age = Older(cl[c].age, t)]
      BY <2>1 DEF Elapse
    <3> QED
      BY <2>3, <3>1 DEF ClientState
  <2> QED
    BY <2>1, <2>2, <2>4, StayPlain
<1>2. ASSUME NEW f \in Fd, HandleTimeOut(f) PROVE PlainInv'
  <2>1. clients[f] # NoConn
    BY <1>2 DEF HandleTimeOut, IInv, TypeOK
  <2>2. CASE Dies
    BY <2>2, StayPlain DEF Dies, kernelVars
  <2>3. CASE ~Dies
    BY <1>2, <2>1, <2>3, RemovePlain DEF HandleTimeOut
  <2> QED
    BY <2>2, <2>3
<1>3. ASSUME NEW e \in Event, Dispatch(e) PROVE PlainInv'
  BY <1>3, DispatchPlain
<1>4. CASE World \/ UNCHANGED vars
  BY <1>4, StayPlain
     DEF World, Connect, PeerSends, PeerLeaves, ChildEndsOutput, ChildExits,
         kernelVars, vars
<1> QED
  BY <1>1, <1>2, <1>3, <1>4 DEF Next

\* As long as responses need neither a file, an upload nor a script, the clients
\* map and the open sockets agree exactly.
THEOREM TableAgrees ==
  ASSUME PlainEndings
  PROVE  Spec => []TableMatchesKernel
<1>1. Init => PlainInv
  BY InitPlain
<1>2. IInv /\ PlainInv /\ [Next]_vars => PlainInv'
  BY NextPlain
<1>3. IInv /\ PlainInv => TableMatchesKernel
  <2> SUFFICES ASSUME IInv, PlainInv, NEW f \in Fd, NEW c \in Conn
               PROVE  clients[f] = c <=> fdt[f] = Owned("sock", c)
    BY DEF TableMatchesKernel
  <2>1. clients[f] = c => fdt[f] = Owned("sock", c)
    BY ConnAssumption DEF PlainInv, TableOpen
  <2>2. fdt[f] = Owned("sock", c) => clients[f] = c
    BY DEF IInv, SocketServed, Owned
  <2> QED
    BY <2>1, <2>2
<1> QED
  BY <1>1, <1>2, <1>3, Invariant, PTL DEF Spec

----------------------------------------------------------------------------
(* The event loop implements the safety of Service.                        *)
(*                                                                         *)
(* A step moves nobody (FrameStep), lets one client go (RemoveStep), or is *)
(* the accept, the end of a request, a piece of a response or a new        *)
(* connection.  For what may end the process, NumbersInv says which        *)
(* numbers are never remembered; that startCGI does not run out of them is *)
(* a matter of counting: every taken number is a different (kind, client), *)
(* and a client without a script has neither pipe.                         *)

Same(d) == PhaseOf(d)' = PhaseOf(d) /\ sent'[d] = sent[d]
Goes(d, from, to) == PhaseOf(d) = from /\ PhaseOf(d)' = to
Hears(d, piece) == sent'[d] = sent[d] \cup {piece}

\* A client to which everything was sent stays one until it is let go.
Lasting(d) ==
  PhaseOf(d) \in {"reading", "answering"} /\ cl[d].sentAll =>
    cl'[d].sentAll \/ PhaseOf(d)' = "gone"

\* What one step of the loop may do to connection d.
ServiceStep(d) ==
  /\ Lasting(d)
  /\ \/ Same(d)
     \/ Goes(d, "away", "waiting") /\ sent'[d] = sent[d]
     \/ Goes(d, "waiting", "reading") /\ sent'[d] = sent[d]
     \/ /\ Goes(d, "reading", "reading")
        /\ "early" \notin sent[d] /\ Hears(d, "early") /\ cl'[d].sentAll
     \/ Goes(d, "reading", "answering") /\ sent'[d] = sent[d]
     \/ Goes(d, "answering", "answering") /\ Hears(d, "answer")
     \/ Goes(d, "answering", "gone") /\ Hears(d, "answer")
     \/ Goes(d, "reading", "gone") /\ sent'[d] = sent[d]
     \/ Goes(d, "answering", "gone") /\ sent'[d] = sent[d]

\* Who was sent something before it had asked is a client to which everything was
\* sent, or has been let go: nothing else is sent to it.
EarlyInv ==
  \A c \in Conn : "early" \in sent[c] =>
    \/ PhaseOf(c) \in {"reading", "answering"} /\ cl[c].sentAll
    \/ PhaseOf(c) = "gone"

----------------------------------------------------------------------------
(* How far a connection has got, and when that stays.                      *)

\* A client in the table has been accepted, and is neither away nor waiting.
LEMMA TablePhase ==
  ASSUME IInv, NEW f \in Fd, NEW c \in Conn, clients[f] = c
  PROVE  /\ cl[c].complete \in BOOLEAN
         /\ PhaseOf(c) = IF cl[c].complete THEN "answering" ELSE "reading"
<1>1. cl[c].complete \in BOOLEAN /\ InTable(c)
  BY DEF IInv, TypeOK, ClientState, InTable
<1>2. cl[c].obj = "live"
  BY ConnAssumption DEF IInv, TableInv
<1>3. net[c].peer # "away" /\ \A l \in Listener : c \notin backlog[l]
  BY <1>1, <1>2 DEF IInv, TableInv
<1> QED
  BY <1>1, <1>3 DEF PhaseOf

\* The events and deadlines of the table are of connections.
LEMMA TableConn ==
  ASSUME IInv, NEW f \in Fd, clients[f] # NoConn
  PROVE  clients[f] \in Conn
BY DEF IInv, TypeOK

LEMMA SamePhase ==
  ASSUME NEW d \in Conn, backlog' = backlog, InTable(d)' = InTable(d),
         (net'[d].peer = "away") = (net[d].peer = "away"),
         InTable(d) => cl'[d].complete = cl[d].complete
  PROVE  PhaseOf(d)' = PhaseOf(d)
BY DEF PhaseOf

\* Closing descriptors takes nobody away, and brings nobody.
LEMMA ShutAway ==
  ASSUME IInv, NEW closed, NEW n, \A c \in Conn : n[c].peer = net[c].peer
  PROVE  \A d \in Conn : (NetWithout(closed, n)[d].peer = "away") = (net[d].peer = "away")
<1> SUFFICES ASSUME NEW d \in Conn
             PROVE  (NetWithout(closed, n)[d].peer = "away") = (net[d].peer = "away")
  OBVIOUS
<1>1. CASE \E f \in closed \cap Fd : fdt[f] = Owned("sock", d)
  <2>1. PICK f \in closed \cap Fd : fdt[f] = Owned("sock", d)
    BY <1>1
  <2>2. fdt[f].kind = "sock" /\ fdt[f].of = d
    BY <2>1 DEF Owned
  <2>3. clients[f] = d
    BY <2>2 DEF IInv, SocketServed
  <2>4. net[d].peer # "away"
    BY <2>3, ConnAssumption DEF IInv, TableInv
  <2>5. NetWithout(closed, n)[d].peer = "gone"
    BY <1>1 DEF NetWithout
  <2> QED
    BY <2>4, <2>5
<1>2. CASE ~\E f \in closed \cap Fd : fdt[f] = Owned("sock", d)
  BY <1>2 DEF NetWithout
<1> QED
  BY <1>1, <1>2

\* A step that changes neither the table nor who has asked, and sends nothing.
LEMMA FrameStep ==
  ASSUME UNCHANGED <<clients, backlog, sent>>,
         \A d \in Conn : (net'[d].peer = "away") = (net[d].peer = "away"),
         \A d \in Conn : /\ cl'[d].complete = cl[d].complete
                         /\ cl'[d].sentAll = cl[d].sentAll
  PROVE  \A d \in Conn : ServiceStep(d)
<1> SUFFICES ASSUME NEW d \in Conn PROVE Same(d)
  BY DEF ServiceStep, Lasting
<1>1. InTable(d)' = InTable(d)
  BY DEF InTable
<1> QED
  BY <1>1, SamePhase DEF Same

\* The client under f is removed: it is gone, and nobody else moves.
LEMMA RemoveStep ==
  ASSUME IInv, NEW f \in Fd, NEW c \in Conn, clients[f] = c, NEW S,
         NEW n \in [Conn -> NetState], \A d \in Conn : n[d].peer = net[d].peer,
         RemoveClient(f, S, n)
  PROVE  /\ Goes(c, IF cl[c].complete THEN "answering" ELSE "reading", "gone")
         /\ \A d \in Conn \ {c} : PhaseOf(d)' = PhaseOf(d)
         /\ \A d \in Conn : Lasting(d)
<1>1. /\ clients' = [clients EXCEPT ![f] = NoConn]
      /\ cl' = [cl EXCEPT ![c] = Blank("deleted")]
      /\ Shut(S \cup ClosedBy(f), n)
  BY DEF RemoveClient
<1>2. /\ backlog' = backlog
      /\ \A d \in Conn : (net'[d].peer = "away") = (net[d].peer = "away")
  <2>1. net' = NetWithout(S \cup ClosedBy(f), n) /\ backlog' = backlog
    BY <1>1 DEF Shut
  <2>2. \A d \in Conn : (NetWithout(S \cup ClosedBy(f), n)[d].peer = "away")
                          = (net[d].peer = "away")
    BY ShutAway
  <2> QED
    BY <2>1, <2>2
<1>3. PhaseOf(c) = IF cl[c].complete THEN "answering" ELSE "reading"
  BY TablePhase
<1>4. clients \in [Fd -> Conn \cup {NoConn}] /\ cl \in [Conn -> ClientState]
  BY DEF IInv, TypeOK
<1>5. \A g \in Fd : clients[g] = c => g = f
  BY ConnAssumption DEF IInv, TableInv
<1>6. PhaseOf(c)' = "gone"
  <2>1. ~InTable(c)'
    BY <1>1, <1>4, <1>5, ConnAssumption DEF InTable
  <2>2. PhaseOf(c) # "away" /\ PhaseOf(c) # "waiting"
    BY <1>3
  <2>3. net[c].peer # "away" /\ ~\E l \in Listener : c \in backlog[l]
    BY <2>2 DEF PhaseOf
  <2>4. net'[c].peer # "away" /\ ~\E l \in Listener : c \in backlog'[l]
    BY <1>2, <2>3
  <2> QED
    BY <2>1, <2>4 DEF PhaseOf
<1>7. ASSUME NEW d \in Conn \ {c} PROVE PhaseOf(d)' = PhaseOf(d)
  <2>1. InTable(d)' = InTable(d)
    BY <1>1, <1>4, ConnAssumption DEF InTable
  <2>2. cl'[d].complete = cl[d].complete
    BY <1>1, <1>4
  <2> QED
    BY <1>2, <2>1, <2>2, SamePhase
<1>8. \A d \in Conn : Lasting(d)
  BY <1>1, <1>4, <1>6 DEF Lasting
<1> QED
  BY <1>3, <1>6, <1>7, <1>8 DEF Goes

\* Nothing has been said to who is let go.
LEMMA LetGoStep ==
  ASSUME IInv, NEW f \in Fd, clients[f] # NoConn, NEW S,
         NEW n \in [Conn -> NetState], \A d \in Conn : n[d].peer = net[d].peer,
         RemoveClient(f, S, n), sent' = sent
  PROVE  \A d \in Conn : ServiceStep(d)
<1>2. PICK c \in Conn : clients[f] = c
  BY TableConn
<1>3. /\ \E from \in {"reading", "answering"} : Goes(c, from, "gone")
      /\ \A d \in Conn \ {c} : PhaseOf(d)' = PhaseOf(d)
      /\ \A d \in Conn : Lasting(d)
  BY <1>2, RemoveStep, TablePhase
<1> QED
  BY <1>3 DEF ServiceStep, Same

----------------------------------------------------------------------------
(* The steps that move a connection.                                       *)

\* The accepted connection is read from; who had its number before is gone.
LEMMA AcceptStep ==
  ASSUME IInv, NEW l \in Listener, NEW c \in backlog[l], NEW f \in FreeFds,
         NewConnection(l, c, f)
  PROVE  \A d \in Conn : ServiceStep(d)
<1>1. /\ backlog' = [backlog EXCEPT ![l] = backlog[l] \ {c}]
      /\ clients' = [clients EXCEPT ![f] = c]
      /\ cl' = [d \in Conn |-> IF d = c THEN Blank("live")
                               ELSE IF d = clients[f] THEN [cl[d] EXCEPT !.obj = "orphan"]
                               ELSE cl[d]]
      /\ UNCHANGED <<net, sent>>
  BY DEF NewConnection
<1>2. /\ clients \in [Fd -> Conn \cup {NoConn}] /\ cl \in [Conn -> ClientState]
      /\ backlog \in [Listener -> SUBSET Conn] /\ f \in Fd /\ c \in Conn
  BY DEF IInv, TypeOK, FreeFds
<1>3. cl[c].obj = "none" /\ net[c].peer # "away"
  BY DEF IInv, TableInv
<1>4. \A m \in Listener : c \notin backlog'[m]
  BY <1>1, <1>2 DEF IInv, TableInv
<1>5. Goes(c, "waiting", "reading")
  <2>1. InTable(c)' /\ cl'[c].complete = FALSE
    BY <1>1, <1>2 DEF InTable, Blank
  <2>2. PhaseOf(c) = "waiting"
    BY <1>3 DEF PhaseOf
  <2>3. PhaseOf(c)' = "reading"
    BY <1>1, <1>3, <1>4, <2>1 DEF PhaseOf
  <2> QED
    BY <2>2, <2>3 DEF Goes
<1>6. ASSUME NEW d \in Conn, d # c PROVE ServiceStep(d)
  <2>1. \A m \in Listener : d \in backlog'[m] <=> d \in backlog[m]
    BY <1>1, <1>2, <1>6
  <2>2. CASE d = clients[f]
    <3>1. \A g \in Fd : clients[g] = d => g = f
      BY <1>2, <2>2, ConnAssumption DEF IInv, TableInv
    <3>2. ~InTable(d)'
      BY <1>1, <1>2, <1>6, <3>1 DEF InTable
    <3>3. PhaseOf(d) \in {"reading", "answering"}
      BY <1>2, <2>2, TablePhase
    <3>4. net[d].peer # "away" /\ ~\E m \in Listener : d \in backlog[m]
      BY <3>3 DEF PhaseOf
    <3>5. PhaseOf(d)' = "gone"
      BY <1>1, <2>1, <3>2, <3>4 DEF PhaseOf
    <3> QED
      BY <1>1, <3>3, <3>5 DEF ServiceStep, Goes, Lasting
  <2>3. CASE d # clients[f]
    <3>1. InTable(d)' = InTable(d) /\ cl'[d] = cl[d]
      BY <1>1, <1>2, <1>6, <2>3 DEF InTable
    <3>2. PhaseOf(d)' = PhaseOf(d)
      BY <1>1, <2>1, <3>1 DEF PhaseOf
    <3> QED
      BY <1>1, <3>1, <3>2 DEF ServiceStep, Same, Lasting
  <2> QED
    BY <2>2, <2>3
<1>7. ServiceStep(c)
  BY <1>1, <1>5 DEF ServiceStep, Lasting, Goes
<1> QED
  BY <1>6, <1>7

\* A peer connects.
LEMMA ConnectStep ==
  ASSUME IInv, NEW c \in Conn, NEW l \in Listener, Connect(c, l)
  PROVE  \A d \in Conn : ServiceStep(d)
<1>1. /\ net[c].peer = "away" /\ net' = [net EXCEPT ![c].peer = "open"]
      /\ backlog' = [backlog EXCEPT ![l] = backlog[l] \cup {c}]
      /\ UNCHANGED <<clients, cl, sent>>
  BY DEF Connect
<1>2. net \in [Conn -> NetState] /\ backlog \in [Listener -> SUBSET Conn]
  BY DEF IInv, TypeOK, NetState
<1>3. Goes(c, "away", "waiting")
  <2>1. net'[c].peer = "open" /\ c \in backlog'[l]
    BY <1>1, <1>2 DEF NetState
  <2> QED
    BY <1>1, <2>1 DEF Goes, PhaseOf
<1>4. ASSUME NEW d \in Conn, d # c PROVE PhaseOf(d)' = PhaseOf(d)
  <2>1. net'[d] = net[d] /\ \A m \in Listener : d \in backlog'[m] <=> d \in backlog[m]
    BY <1>1, <1>2, <1>4
  <2>2. InTable(d)' = InTable(d)
    BY <1>1 DEF InTable
  <2> QED
    BY <1>1, <2>1, <2>2 DEF PhaseOf
<1> QED
  BY <1>1, <1>3, <1>4 DEF ServiceStep, Same, Lasting

\* The request of the client under f is complete; nobody else moves.
LEMMA CompleteStep ==
  ASSUME IInv, NEW f \in Fd, NEW c \in Conn, clients[f] = c, ~cl[c].complete,
         UNCHANGED <<clients, backlog, sent>>,
         \A d \in Conn : (net'[d].peer = "away") = (net[d].peer = "away"),
         cl'[c].complete = TRUE, cl'[c].sentAll = cl[c].sentAll,
         \A d \in Conn \ {c} : cl'[d] = cl[d]
  PROVE  \A d \in Conn : ServiceStep(d)
<1>1. PhaseOf(c) = "reading"
  BY TablePhase
<1>2. InTable(c) /\ \A d \in Conn : InTable(d)' = InTable(d)
  BY DEF InTable
<1>3. net[c].peer # "away" /\ ~\E l \in Listener : c \in backlog[l]
  BY <1>1 DEF PhaseOf
<1>4. PhaseOf(c)' = "answering"
  BY <1>2, <1>3 DEF PhaseOf
<1>5. ASSUME NEW d \in Conn \ {c} PROVE PhaseOf(d)' = PhaseOf(d)
  BY <1>2, SamePhase
<1> QED
  BY <1>1, <1>4, <1>5 DEF ServiceStep, Same, Goes, Lasting

\* A piece of a response is sent to the client under f; before the request is
\* complete it is the only one.
LEMMA AnswerStep ==
  ASSUME IInv, EarlyInv, NEW f \in Fd, NEW c \in Conn, clients[f] = c, ~cl[c].sentAll,
         UNCHANGED <<clients, backlog>>,
         \A d \in Conn : (net'[d].peer = "away") = (net[d].peer = "away"),
         \A d \in Conn : cl'[d].complete = cl[d].complete,
         \A d \in Conn \ {c} : cl'[d].sentAll = cl[d].sentAll,
         ~cl[c].complete => cl'[c].sentAll,
         sent' = [sent EXCEPT ![c] =
                    sent[c] \cup {IF cl[c].complete THEN "answer" ELSE "early"}]
  PROVE  \A d \in Conn : ServiceStep(d)
<1> SUFFICES ASSUME NEW d \in Conn PROVE ServiceStep(d)
  OBVIOUS
<1>1. InTable(d)' = InTable(d)
  BY DEF InTable
<1>2. PhaseOf(d)' = PhaseOf(d)
  BY <1>1, SamePhase
<1>3. sent \in [Conn -> SUBSET Pieces] /\ cl[c].complete \in BOOLEAN
  BY TablePhase DEF IInv, TypeOK
<1>4. Lasting(d)
  BY DEF Lasting
<1>5. CASE d = c /\ cl[c].complete
  <2>1. PhaseOf(d) = "answering" /\ Hears(d, "answer")
    BY <1>3, <1>5, TablePhase DEF Hears
  <2> QED
    BY <1>2, <1>4, <2>1 DEF ServiceStep, Goes
<1>6. CASE d = c /\ ~cl[c].complete
  <2>1. PhaseOf(d) = "reading" /\ Hears(d, "early")
    BY <1>3, <1>6, TablePhase DEF Hears
  <2>2. "early" \notin sent[d]
    BY <1>6, <2>1 DEF EarlyInv
  <2> QED
    BY <1>2, <1>4, <1>6, <2>1, <2>2 DEF ServiceStep, Goes
<1>7. CASE d # c
  BY <1>2, <1>3, <1>4, <1>7 DEF ServiceStep, Same
<1> QED
  BY <1>5, <1>6, <1>7

\* A script's output is sent to the client of e, which is then let go.
LEMMA CgiAnswersStep ==
  ASSUME IInv, NEW e \in Event, clients[e.fd] # NoConn, cl[clients[e.fd]].isCGI,
         NEW n \in [Conn -> NetState], \A c \in Conn : n[c].peer = net[c].peer,
         NEW fate, CgiAnswers(e, n, fate), ~Dies
  PROVE  \A d \in Conn : ServiceStep(d)
<1>1. e.fd \in Fd /\ sent \in [Conn -> SUBSET Pieces]
  BY DEF Event, IInv, TypeOK
<1>2. PICK c \in Conn : clients[e.fd] = c
  BY <1>1, TableConn
<1>3. RemoveClient(e.fd, {}, n) /\ sent' = [sent EXCEPT ![c] = sent[c] \cup {"answer"}]
  BY <1>2 DEF CgiAnswers
<1>4. cl[c].complete
  BY <1>1, <1>2, TablePhase DEF IInv, ObjectInv
<1>5. /\ Goes(c, "answering", "gone")
      /\ \A d \in Conn \ {c} : PhaseOf(d)' = PhaseOf(d)
      /\ \A d \in Conn : Lasting(d)
  BY <1>1, <1>2, <1>3, <1>4, RemoveStep
<1> QED
  BY <1>1, <1>3, <1>5 DEF ServiceStep, Same, Hears

----------------------------------------------------------------------------
(* Every step of the loop: one step of the proof per action.               *)

\* Reading from a descriptor takes no peer away.
LEMMA DrainedAway ==
  ASSUME IInv, NEW f, NEW rest \in BOOLEAN
  PROVE  /\ Drained(f, rest) \in [Conn -> NetState]
         /\ \A d \in Conn : Drained(f, rest)[d].peer = net[d].peer
BY DrainedNet DEF IInv

\* The steps of peers and of children.
LEMMA WorldStep ==
  ASSUME IInv, World
  PROVE  \A d \in Conn : ServiceStep(d)
<1> SUFFICES ASSUME NEW c \in Conn,
                    \/ \E l \in Listener : Connect(c, l)
                    \/ PeerSends(c)
                    \/ \E how \in {"closed", "reset"} : PeerLeaves(c, how)
                    \/ ChildEndsOutput(c) \/ ChildExits(c)
             PROVE  \A d \in Conn : ServiceStep(d)
  BY DEF World
<1>0. net \in [Conn -> NetState]
  BY DEF IInv, TypeOK, NetState
<1>1. CASE \E l \in Listener : Connect(c, l)
  BY <1>1, ConnectStep
<1>2. CASE PeerSends(c)
  <2>1. net' = [net EXCEPT ![c].pending = TRUE]
        /\ UNCHANGED <<clients, backlog, sent, cl>>
    BY <1>2 DEF PeerSends
  <2>2. \A d \in Conn : (net'[d].peer = "away") = (net[d].peer = "away")
    BY <1>0, <2>1 DEF NetState
  <2> QED
    BY <2>1, <2>2, FrameStep
<1>3. ASSUME NEW how \in {"closed", "reset"}, PeerLeaves(c, how)
      PROVE  \A d \in Conn : ServiceStep(d)
  <2>1. net' = [net EXCEPT ![c].peer = how] /\ net[c].peer = "open"
        /\ UNCHANGED <<clients, backlog, sent, cl>>
    BY <1>3 DEF PeerLeaves
  <2>2. \A d \in Conn : (net'[d].peer = "away") = (net[d].peer = "away")
    BY <1>0, <2>1 DEF NetState
  <2> QED
    BY <2>1, <2>2, FrameStep
<1>4. CASE ChildEndsOutput(c) \/ ChildExits(c)
  BY <1>4, FrameStep DEF ChildEndsOutput, ChildExits, kernelVars
<1> QED
  BY <1>1, <1>2, <1>3, <1>4

\* The steps of a client's request.
LEMMA RequestStep ==
  ASSUME IInv, NEW e \in Event, ~Dies,
         \/ RecvFails(e)
         \/ \E rest \in BOOLEAN :
              \/ RequestGrows(e, rest) \/ UploadOpens(e, rest)
              \/ PartOpensNothing(e, rest) \/ UploadCloses(e, rest)
         \/ \E ending \in Endings : RequestCompletes(e, ending)
  PROVE  \A d \in Conn : ServiceStep(d)
<1>1. /\ Requested(e) /\ e.fd \in Fd /\ clients[e.fd] # NoConn
      /\ e \in ready /\ e.ev = "in" /\ e.fd \notin Listener
  BY DEF RecvFails, RequestGrows, UploadOpens, PartOpensNothing, UploadCloses,
         RequestCompletes, Requested, Handling, Event
<1>2. PICK c \in Conn : clients[e.fd] = c
  BY <1>1, TableConn
<1>3. cl \in [Conn -> ClientState] /\ net \in [Conn -> NetState]
  BY DEF IInv, TypeOK, NetState
<1>4. CASE RecvFails(e)
  BY <1>1, <1>3, <1>4, LetGoStep DEF RecvFails, DropClient
<1>5. ASSUME NEW rest \in BOOLEAN, RequestGrows(e, rest)
      PROVE  \A d \in Conn : ServiceStep(d)
  <2>1. net' = Drained(e.fd, rest) /\ UNCHANGED <<clients, backlog, sent, cl>>
    BY <1>5 DEF RequestGrows
  <2> QED
    BY <2>1, DrainedAway, FrameStep
<1>6. ASSUME NEW rest \in BOOLEAN, UploadOpens(e, rest)
      PROVE  \A d \in Conn : ServiceStep(d)
  <2>1. /\ net' = Drained(e.fd, rest) /\ UNCHANGED <<clients, backlog, sent>>
        /\ \E f \in FreeAt(0) : cl' = [cl EXCEPT ![c].upload = f, ![c].storing = TRUE]
    BY <1>2, <1>6 DEF UploadOpens
  <2>2. \A d \in Conn : cl'[d].complete = cl[d].complete /\ cl'[d].sentAll = cl[d].sentAll
    BY <1>3, <2>1 DEF ClientState
  <2>3. \A d \in Conn : (net'[d].peer = "away") = (net[d].peer = "away")
    BY <2>1, DrainedAway
  <2>4. UNCHANGED <<clients, backlog, sent>>
    BY <2>1
  <2> QED
    BY <2>2, <2>3, <2>4, FrameStep
<1>9. ASSUME NEW rest \in BOOLEAN, PartOpensNothing(e, rest)
      PROVE  \A d \in Conn : ServiceStep(d)
  <2>1. /\ net' = Drained(e.fd, rest) /\ UNCHANGED <<clients, backlog, sent>>
        /\ cl' = [cl EXCEPT ![c].storing = TRUE]
    BY <1>2, <1>9 DEF PartOpensNothing
  <2>2. \A d \in Conn : cl'[d].complete = cl[d].complete /\ cl'[d].sentAll = cl[d].sentAll
    BY <1>3, <2>1 DEF ClientState
  <2>3. \A d \in Conn : (net'[d].peer = "away") = (net[d].peer = "away")
    BY <2>1, DrainedAway
  <2> QED
    BY <2>1, <2>2, <2>3, FrameStep
<1>7. ASSUME NEW rest \in BOOLEAN, UploadCloses(e, rest)
      PROVE  \A d \in Conn : ServiceStep(d)
  <2> DEFINE n == Drained(e.fd, rest)
             S0 == BoundaryCloses(c)
  <2>1. /\ net' = NetWithout(S0, n) /\ UNCHANGED <<clients, backlog, sent>>
        /\ \E last \in BOOLEAN :
             cl' = [cl EXCEPT ![c].storing = FALSE, ![c].finished = last]
    BY <1>2, <1>7 DEF UploadCloses, Shut
  <2>2. \A d \in Conn : cl'[d].complete = cl[d].complete /\ cl'[d].sentAll = cl[d].sentAll
    BY <1>3, <2>1 DEF ClientState
  <2>3. \A d \in Conn : n[d].peer = net[d].peer
    BY DrainedAway
  <2> HIDE DEF n, S0
  <2>4. \A d \in Conn : (NetWithout(S0, n)[d].peer = "away") = (net[d].peer = "away")
    BY <2>3, ShutAway
  <2> QED
    BY <2>1, <2>2, <2>4, FrameStep
<1>8. ASSUME NEW ending \in Endings, RequestCompletes(e, ending)
      PROVE  \A d \in Conn : ServiceStep(d)
  <2> DEFINE n == Drained(e.fd, FALSE)
             S0 == IF "store" \in ending THEN {cl[c].upload} ELSE {}
  <2>1. /\ net' = NetWithout(S0, n) /\ UNCHANGED <<clients, backlog, sent>>
        /\ \E file \in FileOpened(ending) :
             cl' = [cl EXCEPT ![c] = Completed(c, ending, file)]
    BY <1>2, <1>8 DEF RequestCompletes
  <2>2. /\ cl'[c].complete = TRUE /\ cl'[c].sentAll = cl[c].sentAll
        /\ \A d \in Conn \ {c} : cl'[d] = cl[d]
    BY <1>3, <2>1 DEF Completed, ClientState
  <2>3. \A d \in Conn : n[d].peer = net[d].peer
    BY DrainedAway
  <2>4. ~cl[c].complete
    BY <1>1, <1>2 DEF IInv, EventInv
  <2> HIDE DEF n, S0
  <2>5. \A d \in Conn : (NetWithout(S0, n)[d].peer = "away") = (net[d].peer = "away")
    BY <2>3, ShutAway
  <2> QED
    BY <1>1, <1>2, <2>1, <2>2, <2>4, <2>5, CompleteStep
<1> QED
  BY <1>4, <1>5, <1>6, <1>7, <1>8, <1>9

\* The steps of a client's response.
LEMMA ResponseStep ==
  ASSUME IInv, EarlyInv, NEW e \in Event, ~Dies,
         \/ \E rest \in BOOLEAN : RespondPiece(e, rest)
         \/ RespondDone(e) \/ CgiStarts(e) \/ CgiStartsInVain(e)
         \/ CgiStartsAndEnds(e) \/ CgiFailsToStart(e)
         \/ CgiReads(e) \/ CgiEnds(e)
  PROVE  \A d \in Conn : ServiceStep(d)
<1>1. /\ Writing(e) /\ e.fd \in Fd /\ clients[e.fd] # NoConn
  BY DEF RespondPiece, RespondDone, CgiStarts, CgiStartsInVain, CgiStartsAndEnds,
         CgiFailsToStart, CgiReads, CgiEnds, CgiEvent, Writing, Event
<1>2. PICK c \in Conn : clients[e.fd] = c
  BY <1>1, TableConn
<1>3. /\ cl \in [Conn -> ClientState] /\ net \in [Conn -> NetState]
  BY DEF IInv, TypeOK, NetState
<1>4. ASSUME NEW rest \in BOOLEAN, RespondPiece(e, rest)
      PROVE  \A d \in Conn : ServiceStep(d)
  <2> DEFINE n == Drained(cl[c].file, rest)
  <2>1. n \in [Conn -> NetState] /\ \A d \in Conn : n[d].peer = net[d].peer
    BY DrainedAway
  <2>2. CASE DropClient(e, {}, n)
    <3> HIDE DEF n
    <3> QED
      BY <1>1, <2>1, <2>2, LetGoStep DEF DropClient
  <2>3. CASE ~DropClient(e, {}, n)
    <3>1. PICK all \in SentAllAfter(c) : cl' = [cl EXCEPT ![c].sentAll = all]
      BY <1>2, <1>4, <2>3 DEF RespondPiece
    <3>2. /\ sent' = [sent EXCEPT ![c] =
                        sent[c] \cup {IF cl[c].complete THEN "answer" ELSE "early"}]
          /\ net' = n /\ UNCHANGED <<clients, backlog>> /\ ~cl[c].sentAll
      BY <1>2, <1>4, <2>3 DEF RespondPiece
    <3>3. /\ \A d \in Conn : cl'[d].complete = cl[d].complete
          /\ \A d \in Conn \ {c} : cl'[d].sentAll = cl[d].sentAll
          /\ cl'[c].sentAll = all
      BY <1>3, <3>1 DEF ClientState
    <3>4. ~cl[c].complete => all = TRUE
      BY DEF SentAllAfter, IInv, ObjectInv
    <3> HIDE DEF n
    <3> QED
      BY <1>1, <1>2, <2>1, <3>2, <3>3, <3>4, AnswerStep
  <2> QED
    BY <2>2, <2>3
<1>5. CASE RespondDone(e)
  BY <1>1, <1>3, <1>5, LetGoStep DEF RespondDone, DropClient
<1>11. CASE CgiStartsInVain(e)
  BY <1>1, <1>3, <1>11, LetGoStep DEF CgiStartsInVain
<1>6. CASE CgiStarts(e)
  BY <1>6, FrameStep DEF CgiStarts
<1>7. CASE CgiStartsAndEnds(e)
  BY <1>1, <1>3, <1>7, CgiAnswersStep DEF CgiStartsAndEnds, CgiEvent
<1>8. CASE CgiFailsToStart(e)
  <2>1. PICK g \in Garbage :
          \/ DropClient(e, g, net)
          \/ Shut(g, net) /\ UNCHANGED <<clients, cl, sent>>
    BY <1>8 DEF CgiFailsToStart
  <2>2. CASE DropClient(e, g, net)
    BY <1>1, <1>3, <2>2, LetGoStep DEF DropClient
  <2>3. CASE Shut(g, net) /\ UNCHANGED <<clients, cl, sent>>
    <3>1. \A d \in Conn : (NetWithout(g, net)[d].peer = "away") = (net[d].peer = "away")
      BY ShutAway
    <3> QED
      BY <2>3, <3>1, FrameStep DEF Shut
  <2> QED
    BY <2>1, <2>2, <2>3
<1>9. CASE CgiReads(e)
  <2> DEFINE n == Drained(handler[c].out0, FALSE)
  <2>1. n \in [Conn -> NetState] /\ \A d \in Conn : n[d].peer = net[d].peer
    BY DrainedAway
  <2>2. DropClient(e, {}, n) \/ (net' = n /\ UNCHANGED <<clients, backlog, sent, cl>>)
    BY <1>2, <1>9 DEF CgiReads
  <2> HIDE DEF n
  <2>3. CASE DropClient(e, {}, n)
    BY <1>1, <2>1, <2>3, LetGoStep DEF DropClient
  <2>4. CASE net' = n /\ UNCHANGED <<clients, backlog, sent, cl>>
    BY <2>1, <2>4, FrameStep
  <2> QED
    BY <2>2, <2>3, <2>4
<1>10. CASE CgiEnds(e)
  <2> DEFINE n == Drained(handler[c].out0, FALSE)
             fate == IF child[c] = "zombie" THEN "reaped" ELSE child[c]
  <2>1. n \in [Conn -> NetState] /\ \A d \in Conn : n[d].peer = net[d].peer
    BY DrainedAway
  <2>2. CgiAnswers(e, n, fate) /\ cl[clients[e.fd]].isCGI
    BY <1>2, <1>10 DEF CgiEnds, CgiEvent
  <2> HIDE DEF n, fate
  <2> QED
    BY <1>1, <2>1, <2>2, CgiAnswersStep
<1> QED
  BY <1>4, <1>5, <1>6, <1>7, <1>8, <1>9, <1>10, <1>11

\* Only a process that lives takes a step, and most leave it alive.
LEMMA NextLives == Next => up /\ (up' = up \/ Dies)
<1> SUFFICES ASSUME Next PROVE up /\ (up' = up \/ Dies)
  OBVIOUS
<1>1. CASE \E t \in 0..MaxLag : EpollWait(t)
  BY <1>1 DEF EpollWait
<1>5. CASE \E t \in 1..MaxBusy : Tick(t)
  BY <1>5 DEF Tick
<1>2. ASSUME NEW f \in Fd, HandleTimeOut(f) PROVE up /\ (up' = up \/ Dies)
  BY <1>2 DEF HandleTimeOut
<1>3. ASSUME NEW e \in Event, Dispatch(e) PROVE up /\ (up' = up \/ Dies)
  <2>1. CASE HandleListeningClient(e) \/ DropUnknown(e) \/ RecvFails(e)
    BY <2>1 DEF HandleListeningClient, DropUnknown, RecvFails, DropClient,
                Requested, Handling, Handled
  <2>2. CASE \E rest \in BOOLEAN :
               \/ RequestGrows(e, rest) \/ UploadOpens(e, rest)
               \/ PartOpensNothing(e, rest) \/ UploadCloses(e, rest)
    BY <2>2 DEF RequestGrows, UploadOpens, PartOpensNothing, UploadCloses, Requested,
                Handling, Handled
  <2>3. ASSUME NEW ending \in Endings, RequestCompletes(e, ending)
        PROVE  up /\ (up' = up \/ Dies)
    BY <2>3 DEF RequestCompletes, Requested, Handling, Handled
  <2>4. CASE (\E rest \in BOOLEAN : RespondPiece(e, rest)) \/ RespondDone(e)
    BY <2>4 DEF RespondPiece, RespondDone, DropClient, Writing, Handling, Handled
  <2>5. CASE \/ CgiStarts(e) \/ CgiStartsInVain(e)
             \/ CgiFailsToStart(e) \/ CgiReads(e)
    BY <2>5 DEF CgiStarts, CgiStartsInVain, CgiFailsToStart, CgiReads, DropClient,
                CgiEvent, Writing, Handling, Handled
  <2>6. CASE CgiStartsAndEnds(e) \/ CgiEnds(e)
    BY <2>6 DEF CgiStartsAndEnds, CgiEnds, CgiAnswers, CgiEvent, Writing, Handling,
                Handled
  <2> QED
    BY <1>3, <2>1, <2>2, <2>3, <2>4, <2>5, <2>6 DEF Dispatch
<1>4. CASE World
  BY <1>4 DEF World, Connect, PeerSends, PeerLeaves, ChildEndsOutput, ChildExits,
              loopVars
<1>6. CASE \E f \in Fd : HandleTimeOut(f)
  BY <1>2, <1>6
<1>7. CASE \E e \in Event : Dispatch(e)
  BY <1>3, <1>7
<1> QED
  BY <1>1, <1>4, <1>5, <1>6, <1>7 DEF Next

\* A step of the loop is one of Service for every connection, or its end.
LEMMA NextStep ==
  ASSUME IInv, EarlyInv, Next, ~Dies
  PROVE  up /\ up' = up /\ \A d \in Conn : ServiceStep(d)
<1>1. up /\ up' = up
  BY NextLives
<1>2. ASSUME NEW t, EpollWait(t) \/ Tick(t) PROVE \A d \in Conn : ServiceStep(d)
  <2>1. /\ UNCHANGED <<clients, backlog, net, sent>>
        /\ \A d \in Conn : cl'[d] = IF InTable(d)
                                    THEN [cl[d] EXCEPT !.age = Older(@, t)] ELSE cl[d]
    BY <1>2 DEF EpollWait, Tick, Elapse
  <2>2. cl \in [Conn -> ClientState]
    BY DEF IInv, TypeOK
  <2>3. \A d \in Conn : cl'[d].complete = cl[d].complete /\ cl'[d].sentAll = cl[d].sentAll
    BY <2>1, <2>2 DEF ClientState
  <2> QED
    BY <2>1, <2>3, FrameStep
<1>3. ASSUME NEW f \in Fd, HandleTimeOut(f) PROVE \A d \in Conn : ServiceStep(d)
  <2>1. clients[f] # NoConn
    BY <1>3 DEF HandleTimeOut, IInv, TypeOK
  <2>2. net \in [Conn -> NetState]
    BY DEF IInv, TypeOK, NetState
  <2> QED
    BY <1>3, <2>1, <2>2, LetGoStep DEF HandleTimeOut
<1>4. ASSUME NEW e \in Event, HandleListeningClient(e)
      PROVE  \A d \in Conn : ServiceStep(d)
  <2>1. PICK c \in backlog[e.fd], f \in FreeAt(0) : NewConnection(e.fd, c, f)
    BY <1>4 DEF HandleListeningClient
  <2>2. e.fd \in Listener /\ f \in FreeFds
    BY <1>4, FreeFacts DEF HandleListeningClient
  <2> QED
    BY <2>1, <2>2, AcceptStep
<1>5. ASSUME NEW e \in Event, DropUnknown(e) PROVE \A d \in Conn : ServiceStep(d)
  <2>1. /\ net' = NetWithout({e.fd}, net)
        /\ UNCHANGED <<clients, backlog, sent, cl>>
    BY <1>5 DEF DropUnknown, Shut
  <2>2. \A d \in Conn : (NetWithout({e.fd}, net)[d].peer = "away")
                          = (net[d].peer = "away")
    BY ShutAway
  <2> QED
    BY <2>1, <2>2, FrameStep
<1>6. ASSUME World PROVE \A d \in Conn : ServiceStep(d)
  BY <1>6, WorldStep
<1> QED
  BY <1>1, <1>2, <1>3, <1>4, <1>5, <1>6, RequestStep, ResponseStep DEF Next, Dispatch

----------------------------------------------------------------------------
(* The refinement.                                                         *)

\* In terms of Service's phase, which is PhaseOf of every connection.
LEMMA ServiceNext ==
  ASSUME \A d \in Conn : ServiceStep(d), up, up' = up
  PROVE  Promise!Next
BY DEF ServiceStep, Same, Goes, Hears, Promise!Next, Promise!Serves, Promise!Stays,
       Promise!Connects, Promise!IsAccepted, Promise!SpokenToEarly, Promise!HasAsked,
       Promise!IsAnswered, Promise!IsAnsweredAndLeaves, Promise!Leaves, Promise!Goes,
       Promise!SaysNothing, Promise!Says

LEMMA InitService == Init => Promise!Init /\ EarlyInv
<1> SUFFICES ASSUME Init PROVE Promise!Init /\ EarlyInv
  OBVIOUS
<1>1. \A c \in Conn : net[c].peer = "away" /\ sent[c] = {}
  BY DEF Init
<1>2. \A c \in Conn : PhaseOf(c) = "away"
  BY <1>1 DEF PhaseOf
<1> QED
  BY <1>1, <1>2 DEF Promise!Init, EarlyInv, Init

LEMMA StepService ==
  IInv /\ EarlyInv /\ [Next]_vars => EarlyInv' /\ [Promise!Next]_(Promise!vars)
<1> SUFFICES ASSUME IInv, EarlyInv, [Next]_vars
             PROVE  EarlyInv' /\ [Promise!Next]_(Promise!vars)
  OBVIOUS
<1>1. CASE Next /\ ~Dies
  <2>1. up /\ up' = up /\ \A d \in Conn : ServiceStep(d)
    BY <1>1, NextStep
  <2>2. EarlyInv'
    <3> SUFFICES ASSUME NEW c \in Conn, "early" \in sent'[c],
                        PhaseOf(c)' # "gone"
                 PROVE  PhaseOf(c)' \in {"reading", "answering"} /\ cl'[c].sentAll
      BY DEF EarlyInv
    <3>1. ServiceStep(c)
      BY <2>1
    <3> QED
      BY <3>1 DEF ServiceStep, Same, Goes, Hears, Lasting, EarlyInv
  <2> QED
    BY <2>1, <2>2, ServiceNext
<1>2. CASE UNCHANGED vars \/ (Next /\ Dies)
  <2>1. /\ UNCHANGED <<clients, cl, backlog, net, sent>>
        /\ up' = up \/ (up /\ ~up')
    BY <1>2, NextLives DEF vars, Dies, kernelVars
  <2>2. \A c \in Conn : InTable(c)' = InTable(c) /\ cl'[c] = cl[c]
    BY <2>1 DEF InTable
  <2>3. \A c \in Conn : PhaseOf(c)' = PhaseOf(c)
    BY <2>1, <2>2, SamePhase
  <2>4. [c \in Conn |-> PhaseOf(c)]' = [c \in Conn |-> PhaseOf(c)]
    BY <2>3
  <2> QED
    BY <2>1, <2>3, <2>4 DEF EarlyInv, Promise!Next, Promise!Ends, Promise!vars
<1> QED
  BY <1>1, <1>2

\* Whatever numbers are closed twice and whatever stale events a batch holds, no
\* connection is accepted twice, comes back after it was let go, is sent more than one
\* piece before its request is complete, or anything before it was accepted or after
\* it was let go.
THEOREM PromiseKept == Spec => Promise!Safety
BY Invariant, InitService, StepService, PTL DEF Spec, Promise!Safety

----------------------------------------------------------------------------
(* The process goes on: which numbers nobody remembers.                    *)

\* Requests that store nothing and end in no exception.
Sturdy == \A ending \in Endings : ending \subseteq {"file", "cgi"}

MayOpen == \E ending \in Endings : "file" \in ending
MayRun == \E ending \in Endings : "cgi" \in ending

\* The kinds of descriptors a client may then have, at most one of each.
ClientKinds ==
  {"sock"} \cup (IF MayOpen THEN {"file"} ELSE {})
           \cup (IF MayRun THEN {"cgi_in", "cgi_out"} ELSE {})

\* startCGI needs six numbers, of which its client keeps two.
EnoughNumbers ==
  MayRun =>
    /\ IsFiniteSet(Fd) /\ IsFiniteSet(Conn)
    /\ Cardinality(Fd \ Listener) >= Cardinality(ClientKinds) * Cardinality(Conn) + 4

\* The listening sockets are nobody's: no table entry, Client or CGIHandler has
\* the number of one, so that no close() is given it.
NumbersInv ==
  /\ \A l \in Listener : fdt[l] = Listening /\ clients[l] = NoConn
  /\ \A c \in Conn : /\ ObjectFds(c) \cap Listener = {}
                     /\ cl[c].upload = NoFd /\ ~cl[c].storing
                     /\ cl[c].isCGI => MayRun
  /\ \A f \in Fd : fdt[f] \in {Free, Listening} \cup [kind : ClientKinds, of : Conn]

RunningInv == NumbersInv /\ KeepsRunning

LEMMA InitNumbers == Init => RunningInv
<1> SUFFICES ASSUME Init PROVE RunningInv
  OBVIOUS
<1>1. NoFd \notin Listener
  BY NoFdNotFd, FdAssumption
<1>2. \A l \in Listener : fdt[l] = Listening /\ clients[l] = NoConn
  BY FdAssumption DEF Init
<1>3. \A c \in Conn : /\ ObjectFds(c) \cap Listener = {}
                      /\ cl[c].upload = NoFd /\ ~cl[c].storing
                      /\ cl[c].isCGI => MayRun
  BY <1>1 DEF Init, ObjectFds, HandlerFds, Blank, NoHandler
<1>4. \A f \in Fd : fdt[f] \in {Free, Listening}
  BY DEF Init
<1> QED
  BY <1>2, <1>3, <1>4 DEF Init, RunningInv, NumbersInv, KeepsRunning

----------------------------------------------------------------------------
(* There is room for a script.                                             *)

Taken == {f \in Fd \ Listener : fdt[f] # Free}

\* A free number is one that is neither taken nor a listening socket's.
LEMMA FreeOrTaken ==
  ASSUME NumbersInv
  PROVE  FreeFds = (Fd \ Listener) \ Taken
<1>1. \A l \in Listener : fdt[l] # Free
  BY OwnedFacts DEF NumbersInv
<1> QED
  BY <1>1 DEF FreeFds, Taken

\* What is taken is the descriptor of a client, and no client has two of a kind.
LEMMA TakenOnce ==
  ASSUME IInv, NumbersInv
  PROVE  /\ \A f \in Taken : \E k \in ClientKinds, c \in Conn : fdt[f] = Owned(k, c)
         /\ \A f, g \in Taken : fdt[f] = fdt[g] => f = g
<1>1. \A f \in Taken : \E k \in ClientKinds, c \in Conn : fdt[f] = Owned(k, c)
  BY DEF Taken, NumbersInv, IInv, EventInv, Owned
<1>2. ASSUME NEW f \in Taken, NEW g \in Taken, fdt[f] = fdt[g] PROVE f = g
  <2>1. PICK k \in ClientKinds, c \in Conn : fdt[f] = Owned(k, c)
    BY <1>1
  <2>2. f \in Fd /\ g \in Fd /\ fdt[g] = Owned(k, c)
    BY <1>2, <2>1 DEF Taken
  <2>3. k \in {"sock", "file", "cgi_in", "cgi_out"}
    BY DEF ClientKinds
  <2>4. CASE k = "sock"
    <3>1. clients[f] = c /\ clients[g] = c
      BY <2>1, <2>2, <2>4, OwnedFacts DEF IInv, SocketServed
    <3> QED
      BY <2>2, <3>1, ConnAssumption DEF IInv, TableInv
  <2>5. CASE k \in {"file", "cgi_in", "cgi_out"}
    BY <2>1, <2>2, <2>5 DEF IInv, Remembered
  <2> QED
    BY <2>3, <2>4, <2>5
<1> QED
  BY <1>1, <1>2

\* A client that has not started its script finds the six numbers it takes.
LEMMA ScriptHasRoom ==
  ASSUME IInv, NumbersInv, EnoughNumbers, NEW c \in Conn,
         cl[c].isCGI, ~handler[c].started
  PROVE  Cardinality(FreeFds) >= 6
<1> DEFINE K == ClientKinds \X Conn
           Pipes == {<<"cgi_in", c>>, <<"cgi_out", c>>}
           owned == [f \in Taken |-> <<fdt[f].kind, fdt[f].of>>]
<1>1. /\ MayRun /\ IsFiniteSet(Fd) /\ IsFiniteSet(Conn)
      /\ Cardinality(Fd \ Listener) >= Cardinality(ClientKinds) * Cardinality(Conn) + 4
  BY DEF NumbersInv, EnoughNumbers
<1>2. IsFiniteSet(ClientKinds)
  <2> DEFINE Four == {"cgi_in", "cgi_out", "sock", "file"}
  <2>1. IsFiniteSet(Four)
    <3>1. IsFiniteSet({"cgi_in"} \cup {"cgi_out"}) /\ IsFiniteSet({"sock"} \cup {"file"})
      BY FS_Singleton, FS_Union
    <3>2. IsFiniteSet(({"cgi_in"} \cup {"cgi_out"}) \cup ({"sock"} \cup {"file"}))
      BY <3>1, FS_Union
    <3>3. Four = ({"cgi_in"} \cup {"cgi_out"}) \cup ({"sock"} \cup {"file"})
      OBVIOUS
    <3> QED
      BY <3>2, <3>3
  <2>2. ClientKinds \subseteq Four
    BY DEF ClientKinds
  <2> QED
    BY <2>1, <2>2, FS_Subset
<1>3. IsFiniteSet(K) /\ Cardinality(K) = Cardinality(ClientKinds) * Cardinality(Conn)
  BY <1>1, <1>2, FS_Product
<1>4. \A f \in Taken : owned[f] \in K \ Pipes
  <2> SUFFICES ASSUME NEW f \in Taken PROVE owned[f] \in K \ Pipes
    OBVIOUS
  <2>1. PICK k \in ClientKinds, d \in Conn : fdt[f] = Owned(k, d)
    BY TakenOnce
  <2>2. owned[f] = <<k, d>> /\ f \in Fd
    BY <2>1, OwnedFacts DEF Taken
  <2>3. handler[c] = NoHandler
    BY DEF IInv, ObjectInv
  <2>4. d = c => k \notin {"cgi_in", "cgi_out"}
    BY <2>1, <2>2, <2>3, NoFdNotFd DEF IInv, Remembered, NoHandler
  <2> QED
    BY <2>2, <2>4
<1>5. \A f, g \in Taken : owned[f] = owned[g] => f = g
  <2> SUFFICES ASSUME NEW f \in Taken, NEW g \in Taken, owned[f] = owned[g]
               PROVE  f = g
    OBVIOUS
  <2>1. PICK k \in ClientKinds, d \in Conn : fdt[f] = Owned(k, d)
    BY TakenOnce
  <2>2. PICK j \in ClientKinds, b \in Conn : fdt[g] = Owned(j, b)
    BY TakenOnce
  <2>3. owned[f] = <<k, d>> /\ owned[g] = <<j, b>>
    BY <2>1, <2>2, OwnedFacts
  <2> QED
    BY <2>1, <2>2, <2>3, TakenOnce
<1>6. owned \in Injection(Taken, K \ Pipes)
  BY <1>4, <1>5 DEF Injection, IsInjective
<1>7. IsFiniteSet(K \ Pipes) /\ Cardinality(K \ Pipes) = Cardinality(K) - 2
  <2>1. "cgi_in" \in ClientKinds /\ "cgi_out" \in ClientKinds
    BY <1>1 DEF ClientKinds
  <2> DEFINE i == <<"cgi_in", c>>
             o == <<"cgi_out", c>>
  <2>2. i \in K /\ o \in K \ {i}
    BY <2>1
  <2>3. K \ Pipes = (K \ {i}) \ {o}
    OBVIOUS
  <2>4. Cardinality(K) \in Nat
    BY <1>3, FS_CardinalityType
  <2> HIDE DEF K, Pipes, i, o
  <2>5. IsFiniteSet(K \ {i}) /\ Cardinality(K \ {i}) = Cardinality(K) - 1
    BY <1>3, <2>2, FS_RemoveElement
  <2>6. /\ IsFiniteSet((K \ {i}) \ {o})
        /\ Cardinality((K \ {i}) \ {o}) = Cardinality(K \ {i}) - 1
    BY <2>2, <2>5, FS_RemoveElement
  <2> DEFINE R == (K \ {i}) \ {o}
  <2>7. IsFiniteSet(R) /\ Cardinality(R) = Cardinality(K) - 2
    BY <2>4, <2>5, <2>6
  <2> HIDE DEF R
  <2> QED
    BY <2>3, <2>7 DEF R
<1> HIDE DEF K, Pipes, owned
<1>8. IsFiniteSet(Taken) /\ Cardinality(Taken) <= Cardinality(K) - 2
  BY <1>6, <1>7, FS_Injection
<1>9. /\ IsFiniteSet(FreeFds)
      /\ Cardinality(FreeFds) = Cardinality(Fd \ Listener) - Cardinality(Taken)
  <2>1. IsFiniteSet(Fd \ Listener)
    BY <1>1, FS_Difference
  <2>2. (Fd \ Listener) \cap Taken = Taken
    BY DEF Taken
  <2> QED
    BY <2>1, <2>2, FreeOrTaken, FS_Difference
<1>10. /\ Cardinality(Taken) \in Nat /\ Cardinality(K) \in Nat
       /\ Cardinality(Fd \ Listener) \in Nat
  BY <1>1, <1>3, <1>8, FS_CardinalityType, FS_Difference
<1> QED
  BY <1>1, <1>3, <1>8, <1>9, <1>10

----------------------------------------------------------------------------
(* No close() is given the number of a listening socket.                   *)

\* A step that opens and closes nothing, and remembers no other number.
LEMMA StayNumbers ==
  ASSUME NumbersInv, UNCHANGED <<clients, fdt>>,
         \A c \in Conn : /\ HandlerFds(c)' = HandlerFds(c)
                         /\ cl'[c].file = cl[c].file /\ cl'[c].upload = cl[c].upload
                         /\ cl'[c].storing = cl[c].storing
                         /\ cl'[c].isCGI = cl[c].isCGI
  PROVE  NumbersInv'
BY DEF NumbersInv, ObjectFds

\* Closing numbers that are nobody's listening socket.
LEMMA ShutNumbers ==
  ASSUME NumbersInv, NEW closed, NEW n, Shut(closed, n), closed \cap Listener = {},
         UNCHANGED <<clients, cl, handler>>
  PROVE  NumbersInv'
<1>1. \A f \in Fd : fdt'[f] = IF f \in closed THEN Free ELSE fdt[f]
  BY DEF Shut, FdtWithout
<1>2. \A l \in Listener : fdt'[l] = Listening
  BY <1>1, FdAssumption DEF NumbersInv
<1>3. \A f \in Fd : fdt'[f] \in {Free, Listening} \cup [kind : ClientKinds, of : Conn]
  BY <1>1 DEF NumbersInv
<1>4. \A c \in Conn : ObjectFds(c)' = ObjectFds(c)
  BY DEF ObjectFds, HandlerFds
<1> QED
  BY <1>2, <1>3, <1>4 DEF NumbersInv

LEMMA RemoveNumbers ==
  ASSUME IInv, NumbersInv, NEW f \in Fd, clients[f] # NoConn, NEW S, NEW n,
         S \cap Listener = {}, RemoveClient(f, S, n)
  PROVE  NumbersInv'
<1>1. PICK c \in Conn : clients[f] = c
  BY DEF IInv, TypeOK
<1>2. /\ clients' = [clients EXCEPT ![f] = NoConn]
      /\ cl' = [cl EXCEPT ![c] = Blank("deleted")]
      /\ handler' = [handler EXCEPT ![c] = NoHandler]
      /\ fdt' = FdtWithout(S \cup ClosedBy(f))
  BY <1>1 DEF RemoveClient, Shut
<1>3. (S \cup ClosedBy(f)) \cap Listener = {}
  BY <1>1 DEF NumbersInv, ClosedBy
<1>4. \A g \in Fd : fdt'[g] = IF g \in S \cup ClosedBy(f) THEN Free ELSE fdt[g]
  BY <1>2 DEF FdtWithout
<1>5. \A l \in Listener : fdt'[l] = Listening /\ clients'[l] = NoConn
  BY <1>2, <1>3, <1>4, FdAssumption DEF NumbersInv, IInv, TypeOK
<1>6. \A d \in Conn : /\ ObjectFds(d)' \cap Listener = {}
                      /\ cl'[d].upload = NoFd /\ ~cl'[d].storing
                      /\ cl'[d].isCGI => MayRun
  <2> TAKE d \in Conn
  <2>1. CASE d = c
    <3>1. cl'[d] = Blank("deleted") /\ handler'[d] = NoHandler
      BY <1>2, <2>1 DEF IInv, TypeOK
    <3>2. ObjectFds(d)' = {NoFd}
      BY <3>1 DEF ObjectFds, HandlerFds, Blank, NoHandler
    <3>3. cl'[d].upload = NoFd /\ ~cl'[d].storing /\ ~cl'[d].isCGI
      BY <3>1 DEF Blank
    <3> QED
      BY <3>2, <3>3, NoFdNotFd, FdAssumption
  <2>2. CASE d # c
    <3>1. cl'[d] = cl[d] /\ handler'[d] = handler[d]
      BY <1>2, <2>2 DEF IInv, TypeOK
    <3> QED
      BY <3>1 DEF NumbersInv, ObjectFds, HandlerFds
  <2> QED
    BY <2>1, <2>2
<1>7. \A g \in Fd : fdt'[g] \in {Free, Listening} \cup [kind : ClientKinds, of : Conn]
  BY <1>4 DEF NumbersInv
<1> QED
  BY <1>5, <1>6, <1>7 DEF NumbersInv

LEMMA DropNumbers ==
  ASSUME IInv, NumbersInv, NEW e \in Event, clients[e.fd] # NoConn, NEW S, NEW n,
         S \cap Listener = {}, DropClient(e, S, n)
  PROVE  NumbersInv'
BY RemoveNumbers DEF DropClient, Event

\* What the kernel hands out is no listening socket's number.
LEMMA FreeNotListener ==
  ASSUME NumbersInv
  PROVE  \A f \in FreeFds : f \in Fd \ Listener
BY OwnedFacts DEF NumbersInv, FreeFds

LEMMA AcceptNumbers ==
  ASSUME IInv, NumbersInv, NEW l \in Listener, NEW c \in backlog[l], NEW f \in FreeFds,
         NewConnection(l, c, f)
  PROVE  NumbersInv'
<1>1. /\ fdt' = [fdt EXCEPT ![f] = Owned("sock", c)]
      /\ clients' = [clients EXCEPT ![f] = c]
      /\ cl' = [d \in Conn |-> IF d = c THEN Blank("live")
                               ELSE IF d = clients[f] THEN [cl[d] EXCEPT !.obj = "orphan"]
                               ELSE cl[d]]
      /\ UNCHANGED handler
  BY DEF NewConnection
<1>2. c \in Conn /\ f \in Fd /\ f \notin Listener
  BY FreeNotListener DEF IInv, TypeOK
<1>3. \A l1 \in Listener : fdt'[l1] = Listening /\ clients'[l1] = NoConn
  BY <1>1, <1>2, FdAssumption DEF NumbersInv, IInv, TypeOK
<1>4. \A d \in Conn : /\ ObjectFds(d)' \cap Listener = {}
                      /\ cl'[d].upload = NoFd /\ ~cl'[d].storing
                      /\ cl'[d].isCGI => MayRun
  <2> TAKE d \in Conn
  <2>1. CASE d = c
    <3>1. cl'[d] = Blank("live") /\ handler'[d] = handler[d]
      BY <1>1, <2>1
    <3>2. ObjectFds(d)' = HandlerFds(d) \cup {NoFd}
      BY <3>1 DEF ObjectFds, HandlerFds, Blank
    <3>3. cl'[d].upload = NoFd /\ ~cl'[d].storing /\ ~cl'[d].isCGI
      BY <3>1 DEF Blank
    <3>4. HandlerFds(d) \cap Listener = {}
      BY DEF NumbersInv, ObjectFds
    <3> QED
      BY <3>2, <3>3, <3>4, NoFdNotFd, FdAssumption
  <2>2. CASE d # c
    <3>1. cl'[d] = cl[d] \/ cl'[d] = [cl[d] EXCEPT !.obj = "orphan"]
      BY <1>1, <2>2
    <3>2. cl[d] \in ClientState
      BY DEF IInv, TypeOK
    <3>3. /\ cl'[d].file = cl[d].file /\ cl'[d].upload = cl[d].upload
          /\ cl'[d].storing = cl[d].storing /\ cl'[d].isCGI = cl[d].isCGI
      BY <3>1, <3>2 DEF ClientState
    <3>4. ObjectFds(d)' = ObjectFds(d)
      BY <1>1, <3>3 DEF ObjectFds, HandlerFds
    <3> QED
      BY <3>3, <3>4 DEF NumbersInv
  <2> QED
    BY <2>1, <2>2
<1>5. Owned("sock", c) \in [kind : ClientKinds, of : Conn]
  BY <1>2 DEF Owned, ClientKinds
<1>6. \A g \in Fd : fdt'[g] \in {Free, Listening} \cup [kind : ClientKinds, of : Conn]
  BY <1>1, <1>5 DEF NumbersInv, IInv, TypeOK
<1> QED
  BY <1>3, <1>4, <1>6 DEF NumbersInv

\* A file to serve is opened at a number nobody has.
LEMMA CompleteNumbers ==
  ASSUME Sturdy, IInv, NumbersInv, NEW e \in Event, NEW ending \in Endings, ~Dies,
         RequestCompletes(e, ending)
  PROVE  NumbersInv'
<1> DEFINE c == clients[e.fd]
<1>1. "store" \notin ending
  BY DEF Sturdy
<1>2. c \in Conn
  BY EventClient DEF RequestCompletes, Requested
<1>3. PICK file \in FileOpened(ending) :
        /\ fdt' = [f \in Fd |-> IF f = file THEN Owned("file", c) ELSE FdtWithout({})[f]]
        /\ cl' = [cl EXCEPT ![c] = Completed(c, ending, file)]
  BY <1>1 DEF RequestCompletes
<1>4. UNCHANGED <<clients, handler>>
  BY DEF RequestCompletes
<1>5. file = NoFd \/ (file \in Fd \ Listener /\ "file" \in ending)
  BY FreeFacts, FreeNotListener DEF FileOpened
<1>6. cl[c] \in ClientState
  BY <1>2 DEF IInv, TypeOK
<1> HIDE DEF c
<1>7. /\ Completed(c, ending, file).upload = cl[c].upload
      /\ ~Completed(c, ending, file).storing
      /\ Completed(c, ending, file).isCGI => "cgi" \in ending
      /\ Completed(c, ending, file).file = file
  BY <1>6 DEF Completed, ClientState
<1>8. \A f \in Fd : fdt'[f] = IF f = file THEN Owned("file", c) ELSE fdt[f]
  BY <1>3 DEF FdtWithout
<1>9. \A l \in Listener : fdt'[l] = Listening /\ clients'[l] = NoConn
  BY <1>4, <1>5, <1>8, FdAssumption, NoFdNotFd DEF NumbersInv
<1>10. \A d \in Conn : /\ ObjectFds(d)' \cap Listener = {}
                       /\ cl'[d].upload = NoFd /\ ~cl'[d].storing
                       /\ cl'[d].isCGI => MayRun
  <2> TAKE d \in Conn
  <2>1. CASE d = c
    <3>1. cl'[d] = Completed(c, ending, file) /\ HandlerFds(d)' = HandlerFds(d)
      BY <1>2, <1>3, <1>4, <2>1 DEF IInv, TypeOK, HandlerFds
    <3>2. ObjectFds(d)' = HandlerFds(d) \cup {file}
      BY <3>1, <1>7 DEF ObjectFds
    <3> QED
      BY <1>5, <1>7, <2>1, <3>1, <3>2, NoFdNotFd, FdAssumption
         DEF NumbersInv, ObjectFds, MayRun
  <2>2. CASE d # c
    <3>1. cl'[d] = cl[d] /\ handler'[d] = handler[d]
      BY <1>3, <1>4, <2>2 DEF IInv, TypeOK
    <3> QED
      BY <3>1 DEF NumbersInv, ObjectFds, HandlerFds
  <2> QED
    BY <2>1, <2>2
<1>11. \A f \in Fd : fdt'[f] \in {Free, Listening} \cup [kind : ClientKinds, of : Conn]
  <2> SUFFICES ASSUME NEW f \in Fd, f = file
               PROVE  fdt'[f] \in [kind : ClientKinds, of : Conn]
    BY <1>8 DEF NumbersInv
  <2>1. "file" \in ClientKinds
    BY <1>5, NoFdNotFd DEF ClientKinds, MayOpen
  <2> QED
    BY <1>2, <1>8, <2>1 DEF Owned
<1> QED
  BY <1>9, <1>10, <1>11 DEF NumbersInv

\* So are the pipes of a script.
LEMMA StartNumbers ==
  ASSUME IInv, NumbersInv, NEW e \in Event, CgiStarts(e)
  PROVE  NumbersInv'
<1> DEFINE c == clients[e.fd]
<1>1. PICK i0 \in FreeAt(0), i1 \in FreeAt(1), o0 \in FreeAt(2), o1 \in FreeAt(3) :
        /\ fdt' = [fdt EXCEPT ![i1] = Owned("cgi_in", c), ![o0] = Owned("cgi_out", c)]
        /\ handler' = [handler EXCEPT ![c] =
             [started |-> TRUE, in0 |-> i0, in1 |-> i1, out0 |-> o0, out1 |-> o1,
              age |-> 0]]
  BY DEF CgiStarts
<1>2. c \in Conn /\ cl[c].isCGI /\ UNCHANGED <<clients, cl>>
  BY EventClient DEF CgiStarts, CgiEvent, Writing
<1>3. {i0, i1, o0, o1} \subseteq Fd \ Listener
  BY FreeFacts, FreeNotListener
<1>4. Owned("cgi_in", c) \in [kind : ClientKinds, of : Conn]
      /\ Owned("cgi_out", c) \in [kind : ClientKinds, of : Conn]
  BY <1>2 DEF Owned, ClientKinds, NumbersInv
<1> HIDE DEF c
<1>5. \A l \in Listener : fdt'[l] = Listening /\ clients'[l] = NoConn
  BY <1>1, <1>2, <1>3, FdAssumption DEF NumbersInv, IInv, TypeOK
<1>6. \A d \in Conn : ObjectFds(d)' \cap Listener = {}
  <2> TAKE d \in Conn
  <2>1. CASE d = c
    <3>1. handler'[d] = [started |-> TRUE, in0 |-> i0, in1 |-> i1, out0 |-> o0,
                         out1 |-> o1, age |-> 0]
      BY <1>1, <1>2, <2>1 DEF IInv, TypeOK
    <3>2. ObjectFds(d)' = {i0, i1, o0, o1} \cup {cl[d].file}
      BY <1>2, <3>1 DEF ObjectFds, HandlerFds
    <3> QED
      BY <1>3, <3>2 DEF NumbersInv, ObjectFds
  <2>2. CASE d # c
    <3>1. cl'[d] = cl[d] /\ handler'[d] = handler[d]
      BY <1>1, <1>2, <2>2 DEF IInv, TypeOK
    <3> QED
      BY <3>1 DEF NumbersInv, ObjectFds, HandlerFds
  <2> QED
    BY <2>1, <2>2
<1>7. \A f \in Fd : fdt'[f] \in {Free, Listening} \cup [kind : ClientKinds, of : Conn]
  BY <1>1, <1>4 DEF NumbersInv, IInv, TypeOK
<1> QED
  BY <1>2, <1>5, <1>6, <1>7 DEF NumbersInv

LEMMA DispatchNumbers ==
  ASSUME Sturdy, EnoughNumbers, IInv, NumbersInv, NEW e \in Event, Dispatch(e)
  PROVE  NumbersInv'
<1>1. CASE Dies
  BY <1>1, StayNumbers DEF Dies, kernelVars, HandlerFds
<1>2. CASE ~Dies /\ HandleListeningClient(e)
  <2>1. PICK c \in backlog[e.fd], f \in FreeAt(0) : NewConnection(e.fd, c, f)
    BY <1>2 DEF HandleListeningClient
  <2>2. e.fd \in Listener /\ f \in FreeFds
    BY <1>2, FreeFacts DEF HandleListeningClient
  <2> QED
    BY <2>1, <2>2, AcceptNumbers
<1>3. CASE DropUnknown(e)
  BY <1>3, ShutNumbers DEF DropUnknown
<1>4. CASE RecvFails(e) \/ RespondDone(e)
  BY <1>4, DropNumbers DEF RecvFails, Requested, RespondDone, Writing
<1>5. ASSUME NEW rest \in BOOLEAN, ~Dies, RequestGrows(e, rest) PROVE NumbersInv'
  BY <1>5, StayNumbers DEF RequestGrows, HandlerFds
<1>6. ASSUME NEW rest \in BOOLEAN,
             \/ UploadOpens(e, rest) \/ PartOpensNothing(e, rest)
             \/ UploadCloses(e, rest)
      PROVE  FALSE
  <2>1. ~MayStore
    BY DEF MayStore, Sturdy
  <2>2. Requested(e) /\ cl[clients[e.fd]].storing
    BY <1>6, <2>1 DEF UploadOpens, PartOpensNothing, UploadCloses, Appends
  <2>3. clients[e.fd] \in Conn
    BY <2>2, EventClient DEF Requested
  <2> QED
    BY <2>2, <2>3 DEF NumbersInv
<1>7. ASSUME NEW ending \in Endings, ~Dies, RequestCompletes(e, ending)
      PROVE  NumbersInv'
  BY <1>7, CompleteNumbers
<1>8. ASSUME NEW rest \in BOOLEAN, ~Dies, RespondPiece(e, rest) PROVE NumbersInv'
  <2> DEFINE n == Drained(cl[clients[e.fd]].file, rest)
  <2>1. CASE DropClient(e, {}, n)
    BY <1>8, <2>1, DropNumbers DEF RespondPiece, Writing
  <2>2. CASE ~DropClient(e, {}, n)
    <3>1. PICK all \in BOOLEAN : cl' = [cl EXCEPT ![clients[e.fd]].sentAll = all]
      BY <1>8, <2>2 DEF RespondPiece, SentAllAfter
    <3>2. UNCHANGED <<clients, handler, fdt>>
      BY <1>8, <2>2 DEF RespondPiece
    <3>3. cl \in [Conn -> ClientState]
      BY DEF IInv, TypeOK
    <3>4. \A c \in Conn : /\ cl'[c].file = cl[c].file /\ cl'[c].upload = cl[c].upload
                          /\ cl'[c].storing = cl[c].storing
                          /\ cl'[c].isCGI = cl[c].isCGI
      BY <3>1, <3>3 DEF ClientState
    <3> QED
      BY <3>2, <3>4, StayNumbers DEF HandlerFds
  <2> QED
    BY <2>1, <2>2
<1>9. CASE CgiStarts(e)
  BY <1>9, StartNumbers
<1>10. CASE CgiFailsToStart(e)
  <2>1. clients[e.fd] \in Conn /\ cl[clients[e.fd]].isCGI
        /\ ~handler[clients[e.fd]].started
    BY <1>10, EventClient DEF CgiFailsToStart, CgiEvent, Writing
  <2>2. CanStart
    BY <2>1, ScriptHasRoom DEF CanStart
  <2>3. PICK g \in Garbage :
          DropClient(e, g, net) \/ (Shut(g, net) /\ UNCHANGED <<clients, cl, handler>>)
    BY <1>10 DEF CgiFailsToStart
  <2>4. g = {}
    BY <2>2 DEF Garbage
  <2>5. CASE DropClient(e, g, net)
    BY <1>10, <2>4, <2>5, DropNumbers DEF CgiFailsToStart, CgiEvent, Writing
  <2>6. CASE Shut(g, net) /\ UNCHANGED <<clients, cl, handler>>
    BY <2>4, <2>6, ShutNumbers
  <2> QED
    BY <2>3, <2>5, <2>6
<1>11. CASE CgiReads(e)
  <2> DEFINE n == Drained(handler[clients[e.fd]].out0, FALSE)
  <2>1. /\ clients[e.fd] # NoConn
        /\ DropClient(e, {}, n) \/ UNCHANGED <<clients, cl, handler, fdt>>
    BY <1>11 DEF CgiReads, CgiEvent, Writing
  <2> HIDE DEF n
  <2>2. CASE DropClient(e, {}, n)
    BY <2>1, <2>2, DropNumbers
  <2>3. CASE UNCHANGED <<clients, cl, handler, fdt>>
    BY <2>3, StayNumbers DEF HandlerFds
  <2> QED
    BY <2>1, <2>2, <2>3
<1>13. CASE CgiStartsInVain(e)
  BY <1>13, EventClient, RemoveNumbers DEF CgiStartsInVain, CgiEvent, Writing, Event
<1>12. ASSUME NEW n, NEW fate, ~Dies, CgiEvent(e), CgiAnswers(e, n, fate)
       PROVE  NumbersInv'
  BY <1>12, EventClient, RemoveNumbers DEF CgiAnswers, CgiEvent, Writing, Event
<1> QED
  BY <1>1, <1>2, <1>3, <1>4, <1>5, <1>6, <1>7, <1>8, <1>9, <1>10, <1>11, <1>12,
     <1>13
     DEF Dispatch, CgiStartsAndEnds, CgiEnds

LEMMA NextNumbers ==
  ASSUME Sturdy, EnoughNumbers, IInv, NumbersInv, [Next]_vars
  PROVE  NumbersInv'
<1>1. ASSUME NEW t, EpollWait(t) \/ Tick(t) PROVE NumbersInv'
  <2>1. UNCHANGED <<clients, fdt>> /\ Elapse(t)
    BY <1>1 DEF EpollWait, Tick
  <2>2. \A c \in Conn : cl[c] \in ClientState /\ handler[c] \in HandlerState
    BY DEF IInv, TypeOK
  <2>3. ASSUME NEW c \in Conn
        PROVE  /\ cl'[c].file = cl[c].file /\ cl'[c].upload = cl[c].upload
               /\ cl'[c].storing = cl[c].storing /\ cl'[c].isCGI = cl[c].isCGI
    <3>1. cl'[c] = cl[c] \/ cl'[c] = [cl[c] EXCEPT !.age = Older(cl[c].age, t)]
      BY <2>1 DEF Elapse
    <3> QED
      BY <2>2, <3>1 DEF ClientState
  <2>4. ASSUME NEW c \in Conn PROVE HandlerFds(c)' = HandlerFds(c)
    <3>1. \/ handler'[c] = handler[c]
          \/ handler'[c] = [handler[c] EXCEPT !.age = Older(handler[c].age, t)]
      BY <2>1 DEF Elapse
    <3>2. /\ handler'[c].in0 = handler[c].in0 /\ handler'[c].in1 = handler[c].in1
          /\ handler'[c].out0 = handler[c].out0 /\ handler'[c].out1 = handler[c].out1
      BY <2>2, <3>1 DEF HandlerState
    <3> QED
      BY <3>2 DEF HandlerFds
  <2> QED
    BY <2>1, <2>3, <2>4, StayNumbers
<1>2. ASSUME NEW f \in Fd, HandleTimeOut(f) PROVE NumbersInv'
  <2>1. clients[f] # NoConn
    BY <1>2 DEF HandleTimeOut, IInv, TypeOK
  <2>2. CASE Dies
    BY <2>2, StayNumbers DEF Dies, kernelVars, HandlerFds
  <2>3. CASE ~Dies
    BY <1>2, <2>1, <2>3, RemoveNumbers DEF HandleTimeOut
  <2> QED
    BY <2>2, <2>3
<1>3. ASSUME NEW e \in Event, Dispatch(e) PROVE NumbersInv'
  BY <1>3, DispatchNumbers
<1>4. CASE World \/ UNCHANGED vars
  BY <1>4, StayNumbers
     DEF World, Connect, PeerSends, PeerLeaves, ChildEndsOutput, ChildExits,
         kernelVars, vars, HandlerFds
<1> QED
  BY <1>1, <1>2, <1>3, <1>4 DEF Next

----------------------------------------------------------------------------
(* What may end the process.                                               *)

\* accept() finds no number, or a peer hangs up.
MayEnd == FreeFds = {} \/ \E c \in Conn : net[c].peer = "closed"

LEMMA KilledByPeer ==
  ASSUME IInv, NEW f \in Fd, "killed" \in SendOutcomes(f)
  PROVE  MayEnd
<1>1. fdt[f].kind = "sock" /\ net[fdt[f].of].peer = "closed"
  BY DEF SendOutcomes
<1>2. fdt[f].of \in Conn
  BY <1>1, SocketOf DEF IInv
<1> QED
  BY <1>1, <1>2 DEF MayEnd

LEMMA DispatchEnds ==
  ASSUME Sturdy, IInv, NumbersInv, NEW e \in Event, Dispatch(e), up, ~up'
  PROVE  MayEnd
<1>0. e.fd \in Fd
  BY DEF Event
<1>1. CASE HandleListeningClient(e)
  <2>1. fdt[e.fd] = Listening
    BY <1>1 DEF HandleListeningClient, NumbersInv
  <2> QED
    BY <1>1, <2>1 DEF HandleListeningClient, Handled, MayEnd
<1>2. ASSUME NEW rest \in BOOLEAN,
             \/ RequestGrows(e, rest) \/ UploadOpens(e, rest)
             \/ PartOpensNothing(e, rest) \/ UploadCloses(e, rest)
      PROVE  FALSE
  <2>1. ~MayStore
    BY DEF MayStore, Sturdy
  <2>2. CASE RequestGrows(e, rest) \/ UploadOpens(e, rest) \/ PartOpensNothing(e, rest)
    BY <2>1, <2>2 DEF RequestGrows, UploadOpens, PartOpensNothing, Handled
  <2>3. CASE UploadCloses(e, rest)
    <3>1. Requested(e) /\ cl[clients[e.fd]].storing
      BY <2>3 DEF UploadCloses, Appends
    <3>2. clients[e.fd] \in Conn
      BY <3>1, EventClient DEF Requested
    <3> QED
      BY <3>1, <3>2 DEF NumbersInv
  <2> QED
    BY <1>2, <2>2, <2>3
<1>3. ASSUME NEW ending \in Endings, RequestCompletes(e, ending) PROVE FALSE
  <2>1. "throw" \notin ending /\ "store" \notin ending
    BY DEF Sturdy
  <2> QED
    BY <1>3, <2>1 DEF RequestCompletes, Handled
<1>4. ASSUME NEW rest \in BOOLEAN, RespondPiece(e, rest) PROVE MayEnd
  BY <1>0, <1>4, KilledByPeer DEF RespondPiece, DropClient, Handled
<1>5. CASE CgiStartsAndEnds(e) \/ CgiEnds(e)
  BY <1>0, <1>5, KilledByPeer DEF CgiStartsAndEnds, CgiEnds, CgiAnswers, Handled
<1>6. CASE \/ DropUnknown(e) \/ RecvFails(e) \/ RespondDone(e)
           \/ CgiStarts(e) \/ CgiStartsInVain(e) \/ CgiFailsToStart(e) \/ CgiReads(e)
  BY <1>6 DEF DropUnknown, RecvFails, RespondDone, DropClient, CgiStarts,
              CgiStartsInVain, CgiFailsToStart, CgiReads, Handled
<1> QED
  BY <1>1, <1>2, <1>3, <1>4, <1>5, <1>6 DEF Dispatch

LEMMA NextEnds ==
  ASSUME Sturdy, IInv, NumbersInv, Next, ~up'
  PROVE  MayEnd /\ MayEnd'
<1>1. up /\ Dies
  BY NextLives
<1>2. ASSUME NEW t, EpollWait(t) \/ Tick(t) PROVE FALSE
  BY <1>1, <1>2 DEF EpollWait, Tick
<1>3. ASSUME NEW f \in Fd, HandleTimeOut(f) PROVE MayEnd
  BY <1>1, <1>3, KilledByPeer DEF HandleTimeOut
<1>4. ASSUME NEW e \in Event, Dispatch(e) PROVE MayEnd
  BY <1>1, <1>4, DispatchEnds
<1>5. ASSUME World PROVE FALSE
  BY <1>1, <1>5 DEF World, Connect, PeerSends, PeerLeaves, ChildEndsOutput,
                    ChildExits, loopVars
<1>6. MayEnd
  BY <1>2, <1>3, <1>4, <1>5 DEF Next
<1> QED
  BY <1>1, <1>6 DEF MayEnd, FreeFds, Dies, kernelVars

\* Whatever numbers are closed twice, the listening sockets stay open, and the
\* process only ends for want of a descriptor or because a peer hung up on it:
\* as long as requests store nothing and end in no exception, and with enough
\* numbers for startCGI (a failed pipe() closes numbers it never had).
THEOREM RunsOn ==
  ASSUME Sturdy, EnoughNumbers
  PROVE  Spec => []KeepsRunning
<1>1. Init => RunningInv
  BY InitNumbers
<1>2. IInv /\ RunningInv /\ [Next]_vars => RunningInv'
  <2> SUFFICES ASSUME IInv, RunningInv, [Next]_vars PROVE RunningInv'
    OBVIOUS
  <2>1. NumbersInv'
    BY NextNumbers DEF RunningInv
  <2>2. (\A l \in Listener : fdt[l] = Listening)'
    BY <2>1 DEF NumbersInv
  <2>3. up' \/ MayEnd'
    <3>1. CASE Next
      BY <3>1, NextEnds DEF RunningInv
    <3>2. CASE UNCHANGED vars
      BY <3>2 DEF vars, RunningInv, KeepsRunning, MayEnd, FreeFds
    <3> QED
      BY <3>1, <3>2
  <2> QED
    BY <2>1, <2>2, <2>3 DEF RunningInv, KeepsRunning, MayEnd
<1>3. RunningInv => KeepsRunning
  BY DEF RunningInv
<1> QED
  BY <1>1, <1>2, <1>3, Invariant, PTL DEF Spec
=============================================================================
