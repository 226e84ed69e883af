-------------------------------- MODULE Upload --------------------------------
(***************************************************************************)
(* One POST request from the end of its headers to its answer: appendData, *)
(* handlePost and the two halves of the multipart parser (srcs/Client.cpp, *)
(* srcs/POST.cpp), and the upload file of srcs/Request.cpp.                *)
(*                                                                         *)
(* TCP cuts the body into segments anywhere, so the parser meets the start *)
(* of a boundary in one recv() and its end in another.  A body is a        *)
(* sequence of the pieces its algorithms look for, and of other bytes; the *)
(* steps of one recv() are operators from one Client record to the next.   *)
(***************************************************************************)
EXTENDS Text, FiniteSets

CONSTANTS
  Requests,    \* the requests a client may make: members of Request
  OldFiles,    \* what may be on the disk under each name beforehand
  MaxSegment   \* the most one recv() returns (2999 bytes in the code)

\* The pieces of a body: a blank line, "--", the boundary parameter, a
\* filename="..." line, a filename= that no line end follows, and two bytes.
Blank == "n"
Dashes == "-"
Mark == "B"
FileName == "f"
CutName == "g"
Piece == {Blank, Dashes, Mark, FileName, CutName, "x", "y"}
SmallMark == "b"   \* Mark in small letters, if it has others

\* kind: what the Content-Type says, "capital" for a boundary with capital letters,
\* which parseHeaders has made small ones by the time it is looked for; length:
\* the Content-Length; body: what the client sends; store: the location's
\* upload_store is usable, or names a directory open() fails in, or is not
\* configured.
Request ==
  [kind : {"plain", "multipart", "capital", "invalid"}, length : Nat, body : Seq(Piece),
   store : {"usable", "unusable", "unset"}]

\* Names of files: the one of a filename= line, and the one generateTmpFile
\* makes of the time.  Bound: a request takes less than the second that is in it.
Names == {"named", "dated"}

ASSUME RequestAssumption == Requests \subseteq Request
ASSUME FilesAssumption == OldFiles \subseteq [Names -> Seq(Piece)]
ASSUME SegmentAssumption == MaxSegment \in Nat \ {0}

VARIABLES
  request,  \* the request being made
  rest,     \* the part of its body still to be received
  client,   \* the fields of its Client and Request, and the disk they write to
  misread   \* history: a segment ended where the parser takes a boundary for data

vars == <<request, rest, client, misread>>

Least(m, n) == IF m <= n THEN m ELSE n

----------------------------------------------------------------------------
(* The upload file of the Request.  An exception is caught by nobody: once  *)
(* up is FALSE, what the rest of a handler computes is never seen.          *)

\* Broken: every write starts the file again.
OverwriteAgain(old, at, s) == s \o Drop(Len(s), old)
Overwrite(old, at, s) == SubSeq(old, 1, at) \o s \o Drop(at + Len(s), old)

\* write() at the file's offset; it fails on a number that is not open.
AppendBody(c, s) ==
  IF c.open THEN [c EXCEPT !.disk[c.file] = Overwrite(@, c.at, s),
                           !.at = @ + Len(s)]
  ELSE [c EXCEPT !.up = FALSE]

\* open(O_CREAT | O_RDWR): what an older file of that name holds stays in it.
GenerateTmpFile(c, name) ==
  IF request.store = "usable" THEN [c EXCEPT !.file = name, !.open = TRUE, !.at = 0]
  ELSE [c EXCEPT !.up = FALSE]

CloseFileUpload(c) == [c EXCEPT !.open = FALSE]

\* errorResponse and reqComplete.
Refuse(c, code) == [c EXCEPT !.answer = code, !.complete = TRUE]

----------------------------------------------------------------------------
(* The multipart parser.                                                   *)

\* std::size_t: a body shorter than the boundary wraps round, and substr() and
\* erase() take the huge result for "all of it".
SafeZone(c) ==
  IF Len(c.body) >= Len(c.boundary) THEN Len(c.body) - Len(c.boundary)
  ELSE Len(c.body)

\* Broken: the bytes held back are cleared with those written.
KeptNothing(c, safe) == <<>>
\* What is held back in case a boundary has begun.
KeptBack(c, safe) == Drop(safe, c.body)

\* Broken: the file is left open at a boundary.
PartGoesOn(c) == [c EXCEPT !.inBody = FALSE]
PartEnds(c) == [CloseFileUpload(c) EXCEPT !.inBody = FALSE]

HandleInBody(c) ==
  LET ended == IF Found(c.endBoundry, c.body)
               THEN [AppendBody(c, Before(c.endBoundry, c.body)) EXCEPT
                       !.body = From(c.endBoundry, c.body), !.finishBody = TRUE]
               ELSE c
      safe == SafeZone(ended) IN
  IF Found(c.boundary, ended.body)
  THEN PartEnds(AppendBody(ended, Before(c.boundary, ended.body)))
  ELSE IF safe > 0
  THEN [AppendBody(ended, SubSeq(ended.body, 1, safe)) EXCEPT
          !.body = KeptBack(ended, safe)]
  ELSE ended

NamesAt(s) == {i \in DOMAIN s : s[i] \in {FileName, CutName}}

\* The first filename= of the body is followed by no line end.
NameUnended(s) ==
  /\ NamesAt(s) # {}
  /\ \A i \in DOMAIN s, j \in NamesAt(s) : s[i] \in {FileName, Blank, Mark} => i < j
PartName(s) == IF NamesAt(s) = {} THEN "dated" ELSE "named"

\* The headers of a part end: whatever of its data, and of all that follows, is
\* there already goes to the new file.
HandleBodyHeaders(c) ==
  LET inside == [c EXCEPT !.inBody = TRUE]
      start == Drop(Find(<<Blank>>, c.body), c.body) IN
  IF ~Found(<<Blank>>, c.body) THEN c
  ELSE IF NameUnended(c.body) THEN inside
  ELSE IF request.store = "unset" THEN Refuse(inside, "500")
  ELSE [AppendBody(GenerateTmpFile(inside, PartName(c.body)), start)
          EXCEPT !.body = <<>>]

\* Broken: the file is left open.
UploadAnswered(c) == [c EXCEPT !.answer = "200", !.complete = TRUE]
\* "Upload done."
UploadDone(c) ==
  [CloseFileUpload(c) EXCEPT !.answer = "200", !.complete = TRUE]

\* Broken: everything received is counted.
ToAppendAll(c, seg) == Len(seg)
ToAppend(c, seg) == Least(Len(seg), c.bodySize)

HandlePost(c, seg) ==
  LET toAppend == ToAppend(c, seg)
      buf == SubSeq(seg, 1, toAppend)
      more == [c EXCEPT !.body = @ \o buf]
      taken == [(IF c.oneBody THEN AppendBody(c, buf)
                 ELSE IF c.inBody /\ ~c.finishBody THEN HandleInBody(more)
                 ELSE HandleBodyHeaders(more)) EXCEPT !.bodySize = @ - toAppend] IN
  IF taken.bodySize = 0 THEN UploadDone(taken) ELSE taken

\* The boundary parameter, as the Request holds it.
Given == IF request.kind = "capital" THEN SmallMark ELSE Mark

\* getContentType, for the first bytes of a body.
BodyBegins(c, seg) ==
  CASE request.kind = "invalid" -> Refuse(c, "400")
    [] request.kind \in {"multipart", "capital"} ->
         HandlePost([c EXCEPT !.boundary = <<Dashes, Given>>,
                              !.endBoundry = <<Dashes, Given, Dashes>>], seg)
    [] request.kind = "plain" ->
         IF request.store = "unset" THEN Refuse([c EXCEPT !.oneBody = TRUE], "500")
         ELSE HandlePost(GenerateTmpFile([c EXCEPT !.oneBody = TRUE], "dated"), seg)

\* appendData with the segment that ends the headers; seg is what follows them.
HeadersEnd(seg) ==
  LET c == [client EXCEPT !.endHeaders = TRUE, !.bodySize = request.length] IN
  IF request.length = 0 THEN Refuse(c, "411")
  ELSE IF seg = <<>> THEN c
  ELSE BodyBegins(c, seg)

AppendData(seg) ==
  IF client.endHeaders THEN HandlePost(client, seg) ELSE HeadersEnd(seg)

----------------------------------------------------------------------------
Received == SubSeq(request.body, 1, Len(request.body) - Len(rest))

Delimiter == <<Dashes, Mark>>
\* The body up to its last boundary.
DataEnd == Max(Occurrences(Delimiter, request.body)) - 1

\* Two ways of cutting a body at which the multipart parser writes (some of) the
\* closing boundary to the file: bytes of it come with the headers of the part, or
\* what is to be looked at is shorter than a boundary, and nothing is held back.
Misreads ==
  \/ client.file = "none" /\ client'.file # "none" /\ Len(Received') > DataEnd
  \/ /\ client.inBody /\ ~client.finishBody
     /\ Len(client.body) + Len(rest) - Len(rest') < Len(client.boundary)

\* recv() returns the next n pieces of the body, behind the end of the headers
\* if they had not ended yet.  Nothing is received once the request is complete.
Receive(n) ==
  /\ client.up /\ ~client.complete
  /\ n <= Len(rest) /\ (n = 0 => ~client.endHeaders)
  /\ client' = AppendData(SubSeq(rest, 1, n))
  /\ rest' = Drop(n, rest) /\ UNCHANGED request
  /\ misread' = (misread \/ (request.kind = "multipart" /\ Misreads))

Next == \E n \in 0..MaxSegment : Receive(n)

NewClient(files) ==
  [up |-> TRUE, endHeaders |-> FALSE, complete |-> FALSE, boundary |-> <<>>,
   endBoundry |-> <<>>, oneBody |-> FALSE, inBody |-> FALSE, finishBody |-> FALSE,
   body |-> <<>>, bodySize |-> 0, file |-> "none", open |-> FALSE, at |-> 0,
   disk |-> files, answer |-> "none"]

Init ==
  /\ request \in Requests
  /\ rest = request.body
  /\ misread = FALSE
  /\ \E files \in OldFiles : client = NewClient(files)

Spec == Init /\ [][Next]_vars

----------------------------------------------------------------------------
(* Properties.                                                             *)

Counted == SubSeq(Received, 1, Least(Len(Received), request.length))

ClientState ==
  [up : BOOLEAN, endHeaders : BOOLEAN, complete : BOOLEAN,
   boundary : Seq(Piece \cup {SmallMark}), endBoundry : Seq(Piece \cup {SmallMark}),
   oneBody : BOOLEAN, inBody : BOOLEAN, finishBody : BOOLEAN, body : Seq(Piece),
   bodySize : Nat, file : Names \cup {"none"}, open : BOOLEAN, at : Nat,
   disk : [Names -> Seq(Piece)], answer : {"none", "200", "400", "411", "500"}]

\* The fields have their types; the file written to has a name.
TypeOK ==
  /\ request \in Requests
  /\ rest \in Seq(Piece)
  /\ client \in ClientState
  /\ client.open => client.file # "none"

\* While a part is being stored, what its file holds followed by what the parser
\* has kept back is exactly the end of what has been received: wherever TCP cuts
\* the body, the bytes of a part are neither lost, repeated nor reordered.
NothingLost ==
  client.up /\ client.open =>
    IsSuffix(SubSeq(client.disk[client.file], 1, client.at) \o client.body, Counted)

\* A body of one part, all of which counts, and the part's data.
OnePart ==
  /\ request.kind = "multipart" /\ request.store = "usable"
  /\ request.length = Len(request.body)
  /\ Cardinality(Occurrences(Delimiter, request.body)) = 2
Data == Behind(<<Blank>>, SubSeq(request.body, 1, DataEnd))

\* What is answered "Upload done." is in its file as it was sent: a body that is no
\* multipart and of which something came with the headers, up to its
\* Content-Length; and the data of a part, wherever the segments end: whole, from the
\* start of the file, and with nothing written behind them but (part of) the closing
\* boundary where the parser took that for data.  Excepted are data that hold a blank
\* line, which may be taken for the end of a part's headers, and boundaries with capital
\* letters, which are never found.
StoredAsSent ==
  client.up /\ client.answer = "200" =>
    /\ client.oneBody =>
         IsPrefix(SubSeq(request.body, 1, request.length), client.disk[client.file])
    /\ OnePart /\ ~Found(<<Blank>>, Data) /\ client.boundary # <<>> =>
         LET stored == SubSeq(client.disk[client.file], 1, client.at)
         IN IsPrefix(Data, stored) /\ (~misread => stored = Data)

\* A request that is not refused is complete when Content-Length bytes of body
\* have come, neither sooner nor later, wherever the segments end; and then its
\* file has been closed, which ~Request would not do.
CompletesExactly ==
  client.up /\ client.endHeaders =>
    /\ client.answer \in {"none", "200"} =>
         (client.complete <=> Len(Received) >= request.length)
    /\ client.complete => ~client.open

\* Until the end of a body has been met, nothing is opened in the place of a file
\* that is open, and what that file holds only grows: parts follow each other.
OnlyGrows ==
  [][client.open /\ client'.open /\ client'.up /\ ~client.finishBody =>
       /\ client'.file = client.file /\ client'.at >= client.at
       /\ SubSeq(client'.disk[client.file], 1, client.at)
            = SubSeq(client.disk[client.file], 1, client.at)]_vars
=============================================================================
