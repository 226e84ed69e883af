-------------------------------- MODULE Serving --------------------------------
(***************************************************************************)
(* What a complete request does: the path its target names (Request.cpp),  *)
(* the location that path belongs to and the file it stands for there      *)
(* (Client.cpp), and what GET, POST and DELETE do with that file.          *)
(*                                                                         *)
(* Requests are served one after the other, each as a whole: the loop does *)
(* not interleave handlers.  What they share is the disk.  A string is a   *)
(* sequence of characters, written "cgi" or ".py" where only the whole of  *)
(* it is ever looked for.                                                  *)
(***************************************************************************)
EXTENDS Text

CONSTANTS
  Servers,       \* the configurations: sequences of locations
  Disks,         \* the trees there may be at the start
  Requests,      \* the requests clients may make
  MaxUrlLength   \* MAX_URL_LENGTH (50 in the code)

\* Any characters, and those decodeUri makes of them.
Chars == STRING \cup {".", "/"}
Strings == Seq(Chars)
Nodes == Seq(Strings)

Location ==
  [path : Strings, root : Strings, methods : SUBSET STRING, index : Seq(Strings),
   autoindex : BOOLEAN, upload_store : Strings, redirected : BOOLEAN, cgi : SUBSET STRING]

\* The directories and files, what cannot be written and searched (access with W_OK
\* and X_OK), and what cannot be read.
Disk ==
  [dirs : SUBSET Nodes, files : SUBSET Nodes, sealed : SUBSET Nodes, hidden : SUBSET Nodes]

\* early: the body begins with the headers.  The names a file it makes may get: the
\* one in the headers of its part, what the query says "filename" is, in order, and
\* the one the clock makes.
Request ==
  [method : {"GET", "POST", "DELETE", "other"}, uri : Strings, malformed : BOOLEAN,
   length : Nat, kind : {"plain", "multipart", "invalid"}, early : BOOLEAN,
   part : Strings, queries : Seq(Strings), stamp : Strings]

ASSUME ServersAssumption == Servers \subseteq Seq(Location)
ASSUME DisksAssumption == \A d \in Disks : d \in Disk /\ d.dirs \cap d.files = {}
ASSUME RequestsAssumption == Requests \subseteq Request
ASSUME LengthAssumption == MaxUrlLength \in Nat

VARIABLES
  server,    \* the locations of the server asked, in the order of the file
  up,        \* the process runs
  disk,      \* the tree of files
  request,   \* history: the last request served
  answer,    \* history: what it was answered
  before     \* history: the disk it was served from

vars == <<server, up, disk, request, answer, before>>

----------------------------------------------------------------------------
(* Paths: Request::splitUri, decodeUri, normalizePath.                     *)

FirstAt(c, s) == SelectInSeq(s, LAMBDA x : x = c)
UpTo(c, s) == IF FirstAt(c, s) = 0 THEN s ELSE SubSeq(s, 1, FirstAt(c, s) - 1)

\* removeFragment, then what stands before the query.
RawPath(uri) == UpTo("?", UpTo("#", uri))

Decoded(c) == CASE c = "%2e" -> "." [] c = "%2f" -> "/" [] OTHER -> c
DecodeUri(s) == [i \in DOMAIN s |-> Decoded(s[i])]

\* std::getline(stream, segment, '/')
Split(s) ==
  FoldLeft(LAMBDA segs, c :
             IF c = "/" THEN Append(segs, <<>>)
             ELSE [segs EXCEPT ![Len(segs)] = Append(@, c)], <<<<>>>>, s)

Walk(kept, segment) ==
  IF segment \in {<<>>, <<".">>} THEN kept
  ELSE IF segment = <<".", ".">> THEN IF kept = <<>> THEN kept ELSE Front(kept)
  ELSE Append(kept, segment)
Segments(s) == FoldLeft(Walk, <<>>, Split(s))

Joined(segs) == FlattenSeq([i \in DOMAIN segs |-> <<"/">> \o segs[i]])

\* Broken: the path is taken as it comes.
PathAsGiven(path) == path
NormalizePath(path) ==
  IF Segments(path) = <<>> THEN <<"/">>
  ELSE Joined(Segments(path)) \o IF Last(path) = "/" THEN <<"/">> ELSE <<>>

\* parseLine and parseHeaders: what of the request is good, and its status.
BadUri(r) == r.uri = <<>> \/ Head(r.uri) # "/"
TooLong(r) == Len(r.uri) > MaxUrlLength
Parsed(r) == r.method # "other" /\ ~BadUri(r) /\ ~TooLong(r)
RequestError(r) == ~Parsed(r) \/ r.malformed
StatusCode(r) ==
  IF r.method # "other" /\ ~BadUri(r) /\ TooLong(r) THEN "414" ELSE "400"

\* Request::path; empty unless parseUri got that far.
Path(r) == IF Parsed(r) THEN NormalizePath(DecodeUri(RawPath(r.uri))) ELSE <<>>

----------------------------------------------------------------------------
(* Locations.                                                              *)

None == 0

\* The first of the locations of S with the longest path, None if S is empty.
Longest(S) ==
  IF S = {} THEN None
  ELSE CHOOSE i \in S : \A j \in S :
         \/ Len(server[j].path) < Len(server[i].path)
         \/ Len(server[j].path) = Len(server[i].path) /\ i <= j

Matches(url) ==
  {i \in DOMAIN server : server[i].path # <<>> /\ IsPrefix(server[i].path, url)}

\* Broken: an empty url is looked for as it is.
FindAsGiven(url) == Longest(Matches(url))
FindMathLocation(url) ==
  Longest(Matches(IF url # <<>> /\ Head(url) = "/" THEN url ELSE <<"/">> \o url))

\* The uri goes on, behind the path of location i, with a new segment.
AtSegment(i, uri) ==
  LET n == Len(server[i].path) IN
  /\ IsPrefix(server[i].path, uri)
  /\ Len(uri) = n \/ uri[n + 1] = "/" \/ server[i].path = <<"/">>

\* Broken: the first match in the file is taken for the best.
FindFirstMatch(uri) == SelectInSeq([i \in DOMAIN server |-> i], LAMBDA i : AtSegment(i, uri))
FindBestMatch(uri) == Longest({i \in DOMAIN server : AtSegment(i, uri)})

WithoutSlash(s) == IF s # <<>> /\ Last(s) = "/" THEN Front(s) ELSE s

JoinPath(loc, path) ==
  WithoutSlash(loc.root) \o
    IF loc.path # <<"/">> /\ IsPrefix(loc.path, path) THEN Drop(Len(loc.path), path)
    ELSE path

----------------------------------------------------------------------------
(* The disk: directories and files by the segments that lead to them; a    *)
(* directory of `sealed` cannot be written, nothing of `hidden` be read.   *)

IsDir(d, path) == Segments(path) \in d.dirs
IsFile(d, path) == Segments(path) \in d.files /\ Last(path) # "/"
Unreadable(d, path) == Segments(path) \in d.hidden

Within(node, top) == IsPrefix(top, node)
Empty(d, node) == \A m \in d.dirs \cup d.files : Within(m, node) => m = node

\* std::remove
Removable(d, node) == Front(node) \notin d.sealed /\ Empty(d, node)
Without(d, node) == [d EXCEPT !.dirs = @ \ {node}, !.files = @ \ {node}]

\* open(O_CREAT): every directory on the way is there, those ".." leads out of too.
WayIsThere(d, path) ==
  \A i \in DOMAIN path : path[i] = "/" => Segments(SubSeq(path, 1, i)) \in d.dirs
Creatable(d, path) ==
  LET node == Segments(path) IN
  /\ WayIsThere(d, path)
  /\ \/ IsFile(d, path)
     \/ Front(node) \in d.dirs \ d.sealed /\ node \notin d.dirs /\ Last(path) # "/"
With(d, path) == [d EXCEPT !.files = @ \cup {Segments(path)}]

----------------------------------------------------------------------------
(* Answers.  A handler is an operator from one state of the request to the *)
(* next; a handler that sets up to FALSE has ended the process.            *)

Page(code) == [code |-> code, node |-> <<>>]
Sent(code, path) == [code |-> code, node |-> Segments(path)]

\* errorResponse; without any location it follows a null pointer.
ErrorResponse(s, r, code) ==
  IF FindMathLocation(Path(r)) = None THEN [s EXCEPT !.up = FALSE]
  ELSE [s EXCEPT !.answer = Page(code)]

\* opendir fails: readdir is called all the same.
ListingDirectory(s, path) ==
  IF Unreadable(s.disk, path) THEN [s EXCEPT !.up = FALSE]
  ELSE [s EXCEPT !.answer = Sent("listing", path)]

PrepareResponse(s, r, path) ==
  IF Unreadable(s.disk, path) THEN ErrorResponse(s, r, "500")
  ELSE [s EXCEPT !.answer = Sent("200", path)]

\* The index files of a directory that are there.
IndexPath(path, i, loc) == WithoutSlash(path) \o <<"/">> \o loc.index[i]
FirstIndex(s, loc, path) ==
  SelectInSeq([i \in DOMAIN loc.index |-> IndexPath(path, i, loc)],
              LAMBDA p : IsFile(s.disk, p))

\* Broken: a directory that must not be listed is not answered.
DirectorySilent(s, r, loc, path) ==
  LET i == FirstIndex(s, loc, path) IN
  IF i # 0 THEN PrepareResponse(s, r, IndexPath(path, i, loc))
  ELSE IF loc.autoindex THEN ListingDirectory(s, path)
  ELSE s
HandleDirectory(s, r, loc, path) ==
  LET i == FirstIndex(s, loc, path) IN
  IF i # 0 THEN PrepareResponse(s, r, IndexPath(path, i, loc))
  ELSE IF loc.autoindex THEN ListingDirectory(s, path)
  ELSE ErrorResponse(s, r, "403")

\* Broken: the methods of the location are not looked at.
AnyMethod(loc, method) == TRUE
AllowedMethod(loc, method) == method \in loc.methods

HandleGET(s, r, loc) ==
  LET path == JoinPath(loc, Path(r)) IN
  IF ~AllowedMethod(loc, "GET") THEN ErrorResponse(s, r, "405")
  ELSE IF loc.redirected THEN [s EXCEPT !.answer = Page("redirect")]
  ELSE IF loc.root = <<>> THEN ErrorResponse(s, r, "500")
  ELSE IF IsDir(s.disk, path) THEN HandleDirectory(s, r, loc, path)
  ELSE IF IsFile(s.disk, path) THEN PrepareResponse(s, r, path)
  ELSE ErrorResponse(s, r, "404")

Deleted(s, path) ==
  [s EXCEPT !.answer = Sent("204", path), !.disk = Without(@, Segments(path))]

\* Broken: what std::remove returns is not looked at.
DeleteDirUnchecked(s, r, path) ==
  IF Unreadable(s.disk, path) \/ ~Empty(s.disk, Segments(path))
  THEN ErrorResponse(s, r, "409")
  ELSE IF Removable(s.disk, Segments(path)) THEN Deleted(s, path)
  ELSE [s EXCEPT !.answer = Sent("204", path)]
HandleDeleteDir(s, r, path) ==
  IF Unreadable(s.disk, path) \/ ~Empty(s.disk, Segments(path))
  THEN ErrorResponse(s, r, "409")
  ELSE IF Removable(s.disk, Segments(path)) THEN Deleted(s, path)
  ELSE ErrorResponse(s, r, "500")

\* What stands before the last slash of a path: nothing for a file directly under /,
\* and access("") fails.
ParentDir(path) ==
  LET slash == SelectLastInSeq(path, LAMBDA c : c = "/") IN
  IF slash = 0 THEN path ELSE SubSeq(path, 1, slash - 1)
AllowedDelete(d, path) ==
  ParentDir(path) # <<>> /\ Segments(ParentDir(path)) \notin d.sealed

HandleDeleteFile(s, r, path) ==
  IF ~AllowedDelete(s.disk, path) THEN ErrorResponse(s, r, "403")
  ELSE IF Removable(s.disk, Segments(path)) THEN Deleted(s, path)
  ELSE ErrorResponse(s, r, "500")

HandleDELETE(s, r, loc) ==
  LET path == JoinPath(loc, Path(r)) IN
  IF ~AllowedMethod(loc, "DELETE") THEN ErrorResponse(s, r, "405")
  ELSE IF loc.root = <<>> THEN ErrorResponse(s, r, "500")
  ELSE IF IsDir(s.disk, path) THEN HandleDeleteDir(s, r, path)
  ELSE IF IsFile(s.disk, path) THEN HandleDeleteFile(s, r, path)
  ELSE ErrorResponse(s, r, "404")

\* checkCGIValid leaves the script in newPath; what is no script and not asked
\* for by GET keeps the answer it has.
Chosen(s, r, loc, path) ==
  IF path # <<>> /\ Last(path) \in loc.cgi THEN [s EXCEPT !.script = path]
  ELSE IF r.method = "GET" THEN HandleGET(s, r, loc)
  ELSE s

CheckCGIValid(s, r, loc) ==
  LET path == JoinPath(loc, Path(r))
      i == FirstIndex(s, loc, path) IN
  IF ~AllowedMethod(loc, r.method) THEN ErrorResponse(s, r, "405")
  ELSE IF IsDir(s.disk, path)
  THEN IF i # 0 THEN Chosen(s, r, loc, IndexPath(path, i, loc))
       ELSE IF loc.autoindex THEN ListingDirectory(s, path)
       ELSE ErrorResponse(s, r, "403")
  ELSE IF IsFile(s.disk, path) THEN Chosen(s, r, loc, path)
  ELSE ErrorResponse(s, r, "404")

Cgi == <<"/", "cgi">>

HandleCompleteRequest(s, r) ==
  LET l == FindMathLocation(Path(r))
      loc == server[l]
      checked == IF loc.path = Cgi THEN CheckCGIValid(s, r, loc) ELSE s IN
  IF ~s.up \/ l = None THEN s
  ELSE CASE checked.up /\ r.method = "GET" -> HandleGET(checked, r, loc)
         [] checked.up /\ r.method = "DELETE" -> HandleDELETE(checked, r, loc)
         [] OTHER -> checked

----------------------------------------------------------------------------
(* Uploads: where the file of a body goes, and what becomes of the request.  *)
(* How the body gets there is the business of Upload.                       *)

\* Broken: the location's path is not taken off.
ConstructWhole(loc, uri) == loc.upload_store \o uri
ConstructFilePath(loc, uri) == loc.upload_store \o Drop(Len(loc.path), uri)

\* The part comes first, then the query, then the clock.  None is looked at: a name
\* may hold slashes and dots, and lead out of the store.
FileName(r) ==
  IF r.kind # "plain" /\ r.part # <<>> THEN r.part
  ELSE IF r.queries # <<>> THEN Last(r.queries)
  ELSE r.stamp

\* constructFilePath and generateTmpFile.  A second answer: with a multipart body
\* that is all there, "Upload done." follows the error.
Stored(s, r) ==
  LET l == FindBestMatch(Path(r))
      path == ConstructFilePath(server[l], Path(r)) \o <<"/">> \o FileName(r)
      failed == ErrorResponse(s, r, "500")
      done == [s EXCEPT !.answer = Page("200")] IN
  IF l = None THEN {[s EXCEPT !.up = FALSE]}
  ELSE IF server[l].upload_store = <<>>
  THEN {failed} \cup (IF r.kind = "plain" \/ ~failed.up THEN {} ELSE {done})
  ELSE IF ~Creatable(s.disk, path) THEN {[s EXCEPT !.up = FALSE]}
  ELSE {[s EXCEPT !.disk = With(@, path), !.answer = Sent("200", path)]}

\* getContentType is asked only of a body that begins with the headers; one that
\* comes later is taken for the parts of an unknown boundary, and a plain one
\* (bound: without blank lines) is not stored.
Uploaded(s, r) ==
  IF r.length = 0 THEN {ErrorResponse(s, r, "411")}
  ELSE IF r.early /\ r.kind = "invalid" THEN {ErrorResponse(s, r, "400")}
  ELSE IF r.early \/ r.kind # "plain" THEN Stored(s, r)
  ELSE {[s EXCEPT !.answer = Page("200")]}

\* handleHeaders, the body, handleCompleteRequest; a script's output is sent in
\* the place of any other answer.
Received(s, r) ==
  IF RequestError(r) THEN {ErrorResponse(s, r, StatusCode(r))}
  ELSE {HandleCompleteRequest(t, r) :
          t \in IF r.method = "POST" THEN Uploaded(s, r) ELSE {s}}

Answered(s) == IF s.script # <<>> THEN Sent("script", s.script) ELSE s.answer

Fresh == [up |-> TRUE, disk |-> disk, answer |-> Page("unset"), script |-> <<>>]

Serve(r) ==
  /\ up
  /\ \E s \in Received(Fresh, r) :
       /\ up' = s.up
       /\ disk' = s.disk
       /\ answer' = IF s.up THEN Answered(s) ELSE Page("none")
  /\ request' = r /\ before' = disk
  /\ UNCHANGED server

Next == \E r \in Requests : Serve(r)

NoRequest ==
  [method |-> "other", uri |-> <<>>, malformed |-> FALSE, length |-> 0,
   kind |-> "plain", early |-> FALSE, part |-> <<>>, queries |-> <<>>, stamp |-> <<>>]

Init ==
  /\ server \in Servers /\ disk \in Disks
  /\ up = TRUE
  /\ request = NoRequest /\ answer = Page("none") /\ before = disk

Spec == Init /\ [][Next]_vars

----------------------------------------------------------------------------
(* Properties.                                                             *)

Codes == {"none", "200", "204", "redirect", "listing", "script", "400",
          "403", "404", "405", "409", "411", "414", "500"}

\* Every variable has its type.  The status of a response, which its constructor
\* leaves uninitialised, has been set unless no location matches the path.
TypeOK ==
  /\ server \in Servers /\ up \in BOOLEAN
  /\ request \in Requests \cup {NoRequest}
  /\ \A d \in {disk, before} : d \in Disk /\ d.dirs \cap d.files = {}
  /\ answer.node \in Nodes
  /\ \/ answer.code \in Codes
     \/ answer.code = "unset" /\ FindMathLocation(Path(request)) = None

\* The path goes on, behind that of its location, with a new segment.
WholeSegments(path) ==
  FindMathLocation(path) # None /\ AtSegment(FindMathLocation(path), path)

\* The two searches for a location, of GET and DELETE and of uploads, find the
\* same one for such a path.
LookupsAgree ==
  WholeSegments(Path(request)) =>
    FindBestMatch(Path(request)) = FindMathLocation(Path(request))

Here == server[FindMathLocation(Path(request))]

\* The location / takes the only slash off the path of an upload: its store must
\* end with one, unless the path is nothing but the slash.
KeepsSlash ==
  Here.path = <<"/">> => Path(request) = <<"/">> \/ Last(Here.upload_store) = "/"

Changed ==
  (before.dirs \ disk.dirs) \cup (disk.dirs \ before.dirs)
    \cup (before.files \ disk.files) \cup (disk.files \ before.files)

\* However a target is written (with dots, encoded, doubled slashes), a DELETE takes
\* away nothing outside of the root of its location, and no other request takes
\* anything away, wherever it ends up writing.  Where an upload may write is not
\* confined: the name of its file may lead anywhere.
Confined ==
  IF request.method = "DELETE"
  THEN WholeSegments(Path(request)) =>
         \A node \in Changed : Within(node, Segments(Here.root))
  ELSE before.dirs \subseteq disk.dirs /\ before.files \subseteq disk.files

\* What GET would answer for a path now.
Get(path) ==
  Answered(HandleCompleteRequest(Fresh,
    [NoRequest EXCEPT !.method = "GET", !.uri = path]))

\* A location that serves what is uploaded to it: a file stored there is what GET
\* then finds under the path of the upload and the file's name, a name without slashes
\* and not made of dots.
RoundTrip ==
  LET path == Path(request)
      name == FileName(request)
      found == Get(WithoutSlash(path) \o <<"/">> \o name) IN
  request.method = "POST" /\ answer.code = "200" /\ answer.node # <<>>
    /\ Segments(name) = <<name>> /\ WholeSegments(path) /\ KeepsSlash
    /\ Here.root # <<>> /\ Segments(Here.root) = Segments(Here.upload_store)
    /\ Here = server[FindMathLocation(WithoutSlash(path) \o <<"/">> \o name)]
  => \/ found.node = answer.node
     \/ "GET" \notin Here.methods \/ Here.redirected \/ answer.node \in disk.hidden

\* After a 204 what the target named is gone, and GET does not find it.
DeletedIsGone ==
  answer.code = "204" =>
    /\ answer.node \in (before.dirs \cup before.files) \ (disk.dirs \cup disk.files)
    /\ Get(Path(request)).code \notin {"200", "listing", "script"}

\* Only uploads look past the methods of a location: a GET or DELETE it does not
\* list finds nothing out and changes nothing.
MethodsHeld ==
  request.method \in {"GET", "DELETE"} /\ answer.code \notin {"none", "unset", "400", "414"}
    => request.method \in Here.methods \/ (answer.code = "405" /\ disk = before)

\* With a location / to fall back on, a request that uploads nothing and asks for
\* no unreadable directory never ends the process, however wrong it is.
Survives ==
  up \/ request.method = "POST"
     \/ (\A i \in DOMAIN server : server[i].path # <<"/">>)
     \/ /\ FindMathLocation(Path(request)) # None
        /\ Unreadable(before, JoinPath(Here, Path(request)))
=============================================================================
