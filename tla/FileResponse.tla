----------------------------- MODULE FileResponse -----------------------------
(***************************************************************************)
(* One response from the first EPOLLOUT event to the close: handleFile     *)
(* reads the next chunk of the file, Response::build puts the headers in   *)
(* front of the first piece, and handleClientResponse sends it.            *)
(*                                                                         *)
(* The bytes of a response are numbered: 0 stands for the status line and  *)
(* the headers, k > 0 for byte k of the file or page, and -1 for the text  *)
(* that tells a peer it has timed out.                                     *)
(*                                                                         *)
(* An upload to the name of a file writes into the file that is there, so  *)
(* it may grow while it is being sent.                                     *)
(***************************************************************************)
EXTENDS Integers, Sequences

CONSTANTS
  ChunkSize,    \* handleFile's buffer (1024 bytes in the code)
  FileSizes,    \* the sizes of the files there are to serve
  PageSizes,    \* the lengths of the pages the server makes up itself
  ShortSends,   \* send() may take less than it is given
  Growing       \* uploads may write to the file

ASSUME ChunkAssumption == ChunkSize \in Nat \ {0}
ASSUME SizeAssumption == FileSizes \subseteq Nat /\ PageSizes \subseteq Nat
ASSUME WorldAssumption == ShortSends \in BOOLEAN /\ Growing \in BOOLEAN

VARIABLES
  fileOpened,   \* there is a file to send (PrepareResponse)
  size,         \* the Content-Length: of the file when it was opened, or of the page
  length,       \* how long the file or page is now
  offset,       \* how far fileStream has been read
  body,         \* Response::body
  sentHeaders,  \* Response::sentHeaders
  sentAll,      \* Client::sentAll
  wire,         \* what the kernel has been given for the peer
  lost,         \* some send() took less than it was given
  outcome       \* "open"; "complete": "Response has been sent"; "broken"

vars == <<fileOpened, size, length, offset, body, sentHeaders, sentAll, wire, lost, outcome>>

Headers == <<0>>
Notice == <<-1>>
Bytes(m, n) == [i \in 1..(n - m) |-> m + i]
Least(m, n) == IF m <= n THEN m ELSE n

----------------------------------------------------------------------------
\* Broken: the buffer is sent whole, however little was read.
ChunkWhole == Bytes(offset, offset + ChunkSize)
\* handleFile: what read() leaves in the buffer.
Chunk == Bytes(offset, Least(offset + ChunkSize, length))

\* At the end of the file the body stays the chunk that was sent before.
BodyAfter == IF fileOpened /\ Chunk # <<>> THEN Chunk ELSE body

\* Broken: a chunk that fills the buffer ends the response.
SentAllEarly == ~fileOpened \/ Len(Chunk) <= ChunkSize
SentAllAfter == ~fileOpened \/ Len(Chunk) < ChunkSize

\* Broken: sentHeaders is not set.
HeadersEveryTime == Headers
HeadersDue == IF sentHeaders THEN <<>> ELSE Headers

\* Response::build
Built == HeadersDue \o BodyAfter

\* send(): how much of n bytes a writable socket takes.
Taken(n) == IF ShortSends THEN 1..n ELSE {n}

\* The bytes send() did not take are not looked at again.
Respond ==
  /\ outcome = "open" /\ ~sentAll
  /\ \E n \in Taken(Len(Built)) :
       /\ wire' = wire \o SubSeq(Built, 1, n)
       /\ lost' = (lost \/ n < Len(Built))
  /\ offset' = IF fileOpened THEN offset + Len(Chunk) ELSE offset
  /\ body' = BodyAfter
  /\ sentAll' = SentAllAfter
  /\ sentHeaders' = TRUE
  /\ UNCHANGED <<fileOpened, size, length, outcome>>

\* send() fails: the client is removed.
Drop ==
  /\ outcome = "open"
  /\ outcome' = "broken"
  /\ UNCHANGED <<fileOpened, size, length, offset, body, sentHeaders, sentAll, wire,
                 lost>>

\* handleTimeOut: a notice is sent, wherever the response has got to.
TimeOut ==
  /\ outcome = "open"
  /\ wire' = wire \o Notice
  /\ outcome' = "broken"
  /\ UNCHANGED <<fileOpened, size, length, offset, body, sentHeaders, sentAll, lost>>

\* "Response has been sent"
Done ==
  /\ outcome = "open" /\ sentAll
  /\ outcome' = "complete"
  /\ UNCHANGED <<fileOpened, size, length, offset, body, sentHeaders, sentAll, wire,
                 lost>>

\* appendBody of another client's request.  Bound: to one of the sizes there are.
Grow ==
  /\ Growing /\ fileOpened /\ outcome = "open"
  /\ length' \in {n \in FileSizes : n > length}
  /\ UNCHANGED <<fileOpened, size, offset, body, sentHeaders, sentAll, wire, lost,
                 outcome>>

Next == Respond \/ Drop \/ TimeOut \/ Done \/ Grow

\* PrepareResponse leaves the body to handleFile; every other response is a page.
Init ==
  /\ \/ fileOpened = TRUE /\ size \in FileSizes /\ body = <<>>
     \/ fileOpened = FALSE /\ size \in PageSizes /\ body = Bytes(0, size)
  /\ length = size /\ offset = 0
  /\ sentHeaders = FALSE /\ sentAll = FALSE
  /\ wire = <<>> /\ lost = FALSE
  /\ outcome = "open"

Spec == Init /\ [][Next]_vars

\* The socket becomes writable again, or the client times out: epoll_wait and the
\* loop go on.
FairSpec == Spec /\ WF_vars(Respond \/ Drop \/ TimeOut \/ Done)

----------------------------------------------------------------------------
(* Properties.                                                             *)

Message == Headers \o Bytes(0, size)

\* Every variable has its type; no more is read than there is.
TypeOK ==
  /\ fileOpened \in BOOLEAN /\ size \in Nat /\ length \in Nat
  /\ size <= length /\ offset \in 0..length
  /\ body \in Seq(1..length)
  /\ sentHeaders \in BOOLEAN /\ sentAll \in BOOLEAN
  /\ wire \in Seq(-1..length) /\ lost \in BOOLEAN
  /\ outcome \in {"open", "complete", "broken"}

\* When every send() took all it was given, a response that is said to be sent
\* has reached the peer whole, though the file may have grown meanwhile; what may
\* follow is more of the file, or a repetition of its last chunk.
WholeAtLeast ==
  outcome = "complete" /\ ~lost =>
    Len(wire) > size /\ SubSeq(wire, 1, size + 1) = Message

\* The last chunk of the file fills the buffer: at the end of the file the body is
\* still that chunk, and is sent a second time.
EndsFull == fileOpened /\ length # 0 /\ length % ChunkSize = 0

\* "Response has been sent" (run_server.cpp, line 103): the peer has got the
\* response, and nothing but the response, in the pieces and with the headers it
\* takes, when every send() took all it was given, the file did not grow and its
\* last chunk is not a full one.
DoneMeansDelivered ==
  outcome = "complete" /\ ~lost /\ length = size /\ ~EndsFull => wire = Message

\* Then it is delivered as Delivery promises.
D == INSTANCE Delivery WITH
       message <- Message,
       Messages <- {Headers \o Bytes(0, n) : n \in FileSizes \cup PageSizes},
       notice <- Notice
Delivers == D!Spec
=============================================================================
