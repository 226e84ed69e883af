# A TLA+ model of webweb

webweb is an HTTP/1.0 server in C++98: one process, one thread, one `epoll`
instance. It serves files and directory listings, stores uploads, deletes files
and runs CGI scripts. This directory holds TLA+ modules of its control, the TLC
runs that check them and the proofs TLAPS checks. Every definition is translated
from the sources; `PROJECT.json` names the lines each one stands for.

## Inventory

| Component | State it keeps | Operations | Interacts with |
|---|---|---|---|
| Event loop (`srcs/run_server.cpp`) | `clients`: map from descriptor number to `Client*`; the batch of events in hand | `run_server`, `handleTimeOut`, `handleListeningClient`, `handleClientRequest`, `handleClientResponse` | everything: it calls every handler, to completion, one at a time |
| Client (`srcs/Client.cpp`, `includes/Client.hpp`) | progress of the request (headers, body, boundary), the response, the file being read, the CGI handler, the time of the last activity | `appendData`, `handleHeaders`, `handleCompleteRequest`, `handleFile`, `isTimedOut`, the searches for a location and a file, `errorResponse` | `Request`, `Response`, `CGIHandler`, the file system |
| Uploads (`srcs/POST.cpp`, `srcs/Request.cpp`) | body kept back, `inBody`, `finishBody`, `bodySize`, the number `uploadFile` | `handlePost`, `handleInBody`, `handleBodyHeaders`, `generateTmpFile`, `appendBody`, `closeFileUpload` | the file system, by descriptor number |
| Request parsing (`srcs/Request.cpp`) | method, path, query, headers, error status | `parseRequest` and what it calls, `getContentLength` | read by `Client`, by `CGIHandler` for a script's environment |
| Methods (`srcs/GET.cpp`, `srcs/DELETE.cpp`, `checkCGIValid`) | none of their own | one answer per request | the file system, the location |
| CGI (`srcs/CGIHandler.cpp`) | two pipes (four numbers), `pid`, the output so far | `buildCGIEnv`, `startCGI`, `readOutput`, `~CGIHandler` | a child process |
| Response (`srcs/Response.cpp`) | status, headers, body, `sentHeaders` | `build` | sent by the loop |
| Server, Location (`srcs/Server.cpp`, `srcs/Location.cpp`) | the configuration, the listening sockets | setters, `init_server`, getters | filled by the parser, read by `Client` |
| Configuration parser (`main.cpp`) | the tokens, the server and the location being read | `tokenizer`, `parser`, `main`'s loop over the servers | builds the servers, hands `servers_fd` to the loop |
| Tables (`srcs/Utils.cpp`) | none | status texts, media types, dates | - |
| Not built (`srcs/ipToBinary.cpp`, `includes/Configstructs.hpp`) | - | - | - |

There is no concurrency inside the process, but there is between it, its peers
and its scripts. What makes it hard is that numbers outlive what they name: the
batch `epoll_wait` filled is worked through after time-outs have closed some of
its descriptors and accepts have given their numbers away; `~CGIHandler` and
`closeFileUpload` close numbers a second time; `Request` never closes its file
when it is destroyed. Beside that, TCP cuts requests anywhere, a script ends its
output and exits in either order and holds copies of other peers' sockets, the
server sleeps in `read()` until a child has called `execve`, `send` may take
less than it is given, a file may grow while it is sent, an error answered in
the middle of `appendData` does not stop the handlers behind it, and one
`currServer` and one `currLocation` serve for every block of the configuration.
`PROJECT.json` lists these as hazards, each at its line.

What makes each component correct:

* start-up: what was read is what was written, and every `listen` has its socket;
* loop and clients: a connection and its `Client` belong together, are watched
  for the right thing, and part within the time-outs; descriptors do not leak;
* request heads: the head ends where its blank line ends, well-formed requests
  and no others are accepted, and a script is told what the client said;
* uploads: what is stored is what was sent, wherever it was cut;
* CGI: the output is answered whole, a script does not outlive its client, and
  the server never waits for a script;
* response: all of it, once, in order;
* methods: nothing is taken away outside the location, what was stored is found,
  what was deleted is not, and a method that is not listed does nothing.

## Modules

| Module | Models | State |
|---|---|---|
| `Startup` | `tokenizer`, `parser`, `main`, `init_server` | `source whole lines tokens i config currServer currLocation inServer inLocation phase nextListen servers_fd bound` |
| `EventLoop` | the loop, the table, the life of `Client`, `CGIHandler` and upload file, with the kernel's descriptor table, `epoll` and the peers | `up ready sweep busy clients cl handler fdt interest backlog net child life sent` |
| `Service` | what the server promises each peer (abstract) | `up phase sent` |
| `EventLoopService` | the mapping from `EventLoop` to `Service` | - |
| `CgiRun` | the server and its scripts as processes, with the pipes between them | `at sock handler child written pipe inherited reply` |
| `RequestHead` | the head of a request: collected, parsed, told to a script | `intent message taken client request env` |
| `Upload` | one POST from the end of its headers to its answer | `request rest client misread` |
| `Delivery` | what a response promises its peer (abstract) | `message wire outcome` |
| `FileResponse` | one response, piece by piece; implements `Delivery` where the code does | `fileOpened size length offset body sentHeaders sentAll wire lost outcome` |
| `Serving` | targets, locations and the methods, over a tree of files | `server up disk request answer before` |
| `Text` | `std::string` as sequences of pieces, for `RequestHead`, `Upload` and `Serving` | - |
| `EventLoopProofs`, `CgiRunProofs`, `FileResponseProofs`, `UploadProofs`, `ServingProofs`, `RequestHeadProofs`, `StartupProofs` | - | the theorems |
| `TextProofs` | - | lemmas on texts, searches and folds, for the last four |
| `MCStartup`, `MCEventLoop`, `MCCgiRun`, `MCRequestHead`, `MCUpload`, `MCFileResponse`, `MCServing` | small instances | - |

The modules meet at named places. `Startup` ends where `EventLoop` begins: with
listening sockets and the server of each. `RequestHead` ends where `Upload`
begins: `bodyStart` is the first segment `Upload` gets, `bodySize` its length.
The ways a request may end in `EventLoop` (`Endings`) are what `Serving`
decides; its upload actions are the file side of what `Upload` does with bytes;
a piece sent there is a step of `FileResponse`; the handlers of scripts are those
of `CgiRun`, which looks inside `startCGI` and `readOutput` (single steps of
`EventLoop`) and leaves out the numbers. `EventLoop` and `Service` are composed
formally, by a refinement that is checked and proved; so are `FileResponse` and
`Delivery`.

### Startup

A word of the file is its text without a semicolon at its end, and whether there
was one; a step of the parser is one turn of its loop, named for its branch.
`Reach` is the last token a branch looks at: `Overrun` is the step of a file that
ends before it, undefined behaviour in the code, where the model stops.
`BehindListen` skips the token the code skips unseen. `InitServer` takes the
lowest number and binds what `inet_addr` and `htons` make of the directive;
`InitServerThrows` is every way it fails, which ends `main`. `source` is what the
author meant; only the properties look at it, through `Meaning`.

### EventLoop

`ready` is the part of the `events` array the loop has not come to; `sweep` is
what `handleTimeOut` has found and not yet removed, so that its removals are
steps of their own. `clients` is the `std::map`. `cl[c]` is the `Client` of
connection `c`: `complete`, `requesting`, `sentAll`, `isCGI` as in the code,
`file` the number under `fileStream`, `upload` the number in `uploadFile`
(never reset, as in the code), `storing`/`finished` for `inBody`/`finishBody`,
`age` for `time(NULL) - lastActivityTime`. `handler[c]` has the four pipe
numbers `CGIHandler` remembers. `fdt` is the kernel's table: which number is
free, and whose it is otherwise. `interest` is epoll's list.

One action per handler: `EpollWait`, `HandleTimeOut`, `HandleListeningClient`,
`DropUnknown`, `RecvFails`, `RequestGrows`, `UploadOpens`, `PartOpensNothing`,
`UploadCloses`, `RequestCompletes`, `RespondPiece`, `RespondDone`, and the outcomes
of the CGI branch: `CgiStarts`, `CgiStartsInVain`, `CgiStartsAndEnds`,
`CgiFailsToStart`, `CgiReads`, `CgiEnds`. That branch ends with a look at `sentAll`
(`run_server.cpp`, 183), which an early piece may have set before the script was
chosen: the client is then removed with its script, unanswered, at its first CGI
event (`CgiStartsInVain`, and a disjunct of `CgiFailsToStart` and `CgiReads`).
`sent` records what each peer was sent, and whether its request was complete by
then. `HandleTimeOut` and everything in `Dispatch` frees numbers with `close` as the
code writes it: by number, whoever has it now. `accept`, `open` and `pipe` return
the lowest free number, so a number is reused at once. `Connect`, `PeerSends`,
`PeerLeaves`, `ChildEndsOutput`, `ChildExits` are the world outside and may happen
between any two calls.

Time passes in `EpollWait` and, up to `MaxBusy` seconds a batch, between the events of
a batch (`Tick`): `time(NULL)` is read anew by every accept, completed request and
started script, while the time-outs are looked for only before the batch. `busy`
counts those seconds.

A `Client` whose socket a stale number has closed stays in the table until its number
is handled or times out. If an accept gets the number first, its entry is overwritten
(`run_server.cpp`, 36), and the object, its file, its pipes and its script are nobody's
from then on: `obj` is `"orphan"`, and no action deletes it.

Sockets that `epoll` may report although a child still holds a copy of them (no
descriptor is close-on-exec) are not modelled here: closing a number ends the
watch. That peers see the end of their connection late is `CgiRun`'s matter.

### Service and EventLoopService

`Service` knows of a connection how far it has got: `away`, `waiting` (in the
backlog), `reading`, `answering`, `gone`. One step of the server may concern several
connections, but each moves along that line, is answered only while `answering`, and
never comes back. The one exception is part of the promise because the code makes
it: while `reading` it may be sent a single `early` piece, by a stale EPOLLOUT event
that reaches `handleClientResponse` before the request does. `LetsGo` says that who
is served is let go, or the process ends. `EventLoopService` reads the phase off
`EventLoop`: an entry of the table that a later connection overwrites is gone like
one that was erased.

### CgiRun

`at` is where the server's one thread is: in its loop, or in `startCGI` or
`readOutput` for some client. `startCGI` is two steps, `StartCGI` up to `fork`
and `StartReturns` when the error pipe reads its end; `readOutput` is one step
for each `read`, between which the script goes on. A pipe is the number of bytes
in it. `inherited` is whose sockets a script got copies of. `Startable` are the
clients whose script `execve` accepts: what the others write to say that they
failed goes to a descriptor they have closed, so no action of the parent's
branch for it exists.

### RequestHead

Text is a sequence of pieces: the characters the parser looks for, escapes, and
words. A step is one `recv` (`AppendData`), cut anywhere; with the blank line
comes the whole of `handleHeaders`, `parseRequest` and `getContentLength`.
`BuildCGIEnv` is what `handleCGI` makes of the request. `intent` is what the
client means, of which `message` is made; only the properties look at it. What
`getline` and `>>` make of a text are its `Parts`: the k-th begins at the k-th place
(`Nth`) where one starts. `Sendable` says what a client can say with a request line
and lines of fields without breaking them; TLC evaluates that all of `request`'s
clients do (`SmallSendable`). The named assumptions ask of the constants that what
a character becomes is a piece, and that changing case makes and unmakes no digit.

### Upload

The fields of `Client` and `Request` a POST touches form one record, `client`;
`handlePost` and the parser are operators from one record to the next, and
`Receive(n)` is one `recv`. A body is a sequence of the pieces the code looks
for: blank line, dashes, boundary, a `filename=` line, and bytes. Cutting may
fall between any two of them. `misread` is a history variable: the body was cut
in one of the two ways at which the parser stores (a part of) its closing
boundary.

### FileResponse and Delivery

The bytes of a response are numbered, so that repetition and loss show. `Respond`
is `handleFile`, `build` and `send`; `Done` is the event after which the loop
says "Response has been sent"; `Grow` is another client's upload to the file
that is being sent; `TimeOut` puts its notice behind whatever has been sent.

### Serving

A request is served as a whole (the loop does not interleave handlers); the disk is
what requests share. Operators carry the names of the functions. `findMathLocation`
compares characters, `findBestMatch` segments; both are here with `joinPath` and
`constructFilePath`. How a body reaches its file is left to `Upload`: here it is
whether one is made, and where. `Chars` are the characters of a path, `Strings` the
texts of them, and a node of the tree is the sequence of segments that lead to it.
The name of an upload is the one of its part, else the last `filename` of the query,
else one made of the clock (`FileName`); none is looked at, and all may hold slashes
and dots. `AllowedDelete` asks `access` of what stands before the last slash of a
path, which is nothing for a file directly under `/`. The constants have the types
`ServersAssumption`, `DisksAssumption`, `RequestsAssumption` and `LengthAssumption`
say; the second says too that nothing is a directory and a file at once.

## Runs

| Run | Instance | Shows |
|---|---|---|
| `startup` | 183 + 162 files in three layouts, whole or cut off after any word | `TypeOK`, `ReadAsMeant`, `WholeFileRead`, `ListensServed` |
| `loop_core` | 3 connections, 3 numbers besides the listener, no files | `TypeOK`, `TableMatchesKernel` |
| `loop_exhausted` | 2 connections, 7 numbers, a file or a script each: more than fit, so that `pipe()` fails while a script runs; a clock that goes on within a batch | `SocketServed`, `NoDescriptorLeak`, `ServedInTime`, `ScriptKilled` |
| `loop_upload` | 2 connections, 4 numbers, uploads | `UploadTracked`, `SocketServed` |
| `loop_promise` | 2 connections, 10 numbers: two scripts at once; fairness | `KeepsRunning`, `KeepsPromise` (refines `Service`, with its liveness) |
| `loop_skips` | an `events` array of four, files | **violates** `NeverSkipsResponse` |
| `cgi` | 3 clients, one of whose scripts cannot be started, pipes of one byte; fairness | `TypeOK`, `WholeOutput`, `NoRunaway`, `StartComesBack`, `PeerSeesEnd` |
| `request` | every pair of 20 header fields, 90 request lines, cut anywhere | `TypeOK`, `HeadEndsExactly`, `FieldsFound`, `LengthTaken`, `ScriptToldTruth` |
| `upload` | plain bodies of up to 4 pieces, one and two parts, boundaries with capitals, new and old files | `TypeOK`, `StoredAsSent`, `CompletesExactly`, `NothingLost`, `OnlyGrows` |
| `response_pieces` | sizes 0..7, chunk 2, sends of any length, files that grow, time-outs | `TypeOK`, `WholeAtLeast`, `DoneMeansDelivered` |
| `response_delivers` | sizes up to 32, chunk 3, no full last chunk, full sends; fairness | `Delivers` (refines `Delivery`, with its liveness) |
| `serving_disk` | 4 configurations, 2 trees, 103 requests in any sequence | `TypeOK`, `Confined`, `RoundTrip`, `DeletedIsGone`, `LookupsAgree`, `MethodsHeld`, `Survives` |

The violated property states what the server prints ("Response has been sent"):
a stale EPOLLOUT event of a client the time-outs removed reaches the client that
got its number in the same batch, and its response is taken for sent before its
request has come. `PROJECT.json` quotes it under `findings`.

The models show more that the code does and no run claims otherwise:

* what a short `send` did not take is never sent, and the response is taken for
  sent (`run_server.cpp`, 91; `WholeAtLeast` and `DoneMeansDelivered` except it);
* the last chunk of a file whose size is a multiple of 1024 is sent twice
  (`Client.cpp`, 182; `EndsFull`);
* the body of a request that is no multipart is stored only if some of it comes
  with the end of the headers (`Client.cpp`, 374): otherwise it is looked
  through for a part's headers, and answered "Upload done." all the same;
* the closing boundary, or a part of it, is stored with the data when it comes in
  the segment that brought the headers of its part, or when what is to be looked
  at is shorter than the boundary (`POST.cpp`, 24; `misread`);
* data with a blank line in it may open another file once a body has come that far;
* a boundary with capital letters is never found, for header values are made
  small, and then nothing is stored (`Request.cpp`, 257);
* the 500 "MISSING UPLOAD STORE" of a multipart body is replaced by the 200 of
  `POST.cpp`, 91, once the body is all there;
* a POST without a length that names a script in `/cgi` is answered 411, and the
  script is run all the same (`Client.cpp`, 308); a POST to `/cgi` that is
  answered 405 has stored its body by then;
* a POST asks no location for its `methods`: where `configFile1.txt`, 58, says
  `methods GET`, it is taken for an upload (`MethodsHeld` speaks of GET and DELETE);
* after `opendir` has failed `listingDirectory` calls `readdir` on the null
  pointer (`GET.cpp`, 41; `Survives` excepts it);
* a script that cannot be started is answered 200 with an empty page: the child
  writes its "E" to a descriptor it has closed (`CGIHandler.cpp`, 290-317);
* a script whose output ends before it exits is not waited for (`CGIHandler.cpp`,
  344): it keeps its copies of the sockets for as long as it likes (`Forgotten`);
* the upload file of a client that leaves in the middle stays open;
* a `Client` whose table entry an accept overwrites is never deleted
  (`run_server.cpp`, 36; `NoDescriptorLeak` and `ServedInTime` except it);
* a client that was sent an early piece whose `sentAll` stuck is removed at the first
  event of its script, unanswered (`run_server.cpp`, 183);
* the name of an upload may lead out of `upload_store` (`POST.cpp`, 50 and
  `Request.cpp`, 272-282): `filename=../x` in the query of a POST is enough;
* of query names that are given twice a script is told the last value only; the
  repository's `cgi-bin/GET.py`, 16, would have taken the first;
* a query is decoded before it is split and not encoded again for the script, so
  an escaped `&` or `=` separates (`ScriptToldTruth` speaks of targets that escape
  nothing); an empty `Content-Length` is an uninitialised number (`Utils.cpp`, 25);
* of a configuration that is cut off the servers that were closed are served;
  without any the loop runs and listens to nothing; `root` and the like outside of
  a location are ignored; a host that is no address binds 255.255.255.255.

Some properties that hold carry a premise that marks what the code does not do:
`TableMatchesKernel` is checked without files, uploads and scripts, whose double
closes make numbers wander (`SocketServed`, which is weaker, is checked and
proved with all of them); `KeepsRunning` excepts the two ways the process does
end: no free number, and SIGPIPE; `UploadTracked` speaks of live clients before
the end boundary; `StoredAsSent` says of the data of a part that they are in the file
whole and in order wherever TCP cuts, but not, where `misread` holds, that nothing of
the closing boundary stands behind them; `Confined` speaks of what a DELETE takes away
and of nothing being taken away otherwise, for where an upload writes is up to the name
it is given; it and `RoundTrip` speak of paths that go on with a whole segment
(`/uploadx` is matched by `/upload`, and its file is looked for beside the root),
`RoundTrip` besides of names that are one segment and of uploads that keep their slash
(under the location `/`, `/x` is stored in `<store>x`); `ScriptToldTruth` says of a
query that every name is told, once, with a value that was sent for it, and leaves open
which of several; `PeerSeesEnd` speaks of a server that keeps coming back to its loop
(a script that writes without end may prevent that) and excepts the copies forgotten
scripts hold; `ListensServed` of addresses of this machine and ports
that fit into 16 bits, where it says which are bound.

### Bounds

* `Conn`: each connection is opened once. Two are enough for one to inherit the
  number of the other; three for two heirs in one batch.
* `Fd`: chosen so that numbers run out, or do not, as the run is about; a script
  needs six for the length of `startCGI`.
* `MaxEvents`: 4 is more than the events two or three clients and a listener can
  have at once. With 1 there would be no stale events.
* `MaxLag`: seconds `epoll_wait` takes at most (1). `MaxBusy`: seconds the handling of
  a batch takes at most: 1 in `loop_exhausted`, which asks about time, 0 in the
  other runs of the loop, where an age only decides which client expires. The time-outs
  of one sweep are all looked for at the same second. `Horizon`: ages stop
  growing beyond the sum of all time-outs, where no comparison tells them apart.
* time-outs of 0 and 1 for 10, 30 and 5: only their comparison with an age counts.
* `PeerSends` stops with the complete request: what comes later is never read.
* `Client`, `PipeSize`, `ReadSize`, `SendRoom`, `MaxOutput` of `CgiRun`: a script
  writes up to twice what its pipe holds and what the answer's one `send` takes;
  three clients, so that a bystander's socket is inherited by two scripts.
* `MaxSegment`, `MaxUrlLength`, `MaxInt`, `ChunkSize`, `PortBound`: smaller than
  2999, 50, the largest int, 1024 and 65536; the instances have inputs below, at
  and above each (`MaxSegment` of `upload` lets a whole body come at once, that
  of `request` cuts the blank line in every way).
* `Names` in `Upload`: a request takes less than the second its dated file name
  is made of.
* `Grow`: a file grows to one of the sizes there are.
* `Layouts`, `Cuts`, `FirstFd`, `LastFd` of `Startup`: two numbers for up to three
  listens, so that `socket` fails as well as `bind`.
* in `Serving`: a plain body that comes behind its headers holds no blank line;
  `Upload` shows what happens to one that does.

`CHECK_DEADLOCK FALSE` is set everywhere: the server may exit (an exception that
reaches `main`, SIGPIPE, a null pointer), start-up, a request and a response end,
and once every connection has been used nothing more need happen.

### Fairness

`EventLoop!Fairness` asks that the process is scheduled: a time-out removal or a
handler that can run does (weak), and `epoll_wait` keeps returning at later
seconds (strong, since `ready` and `sweep` disable it again and again). The one
second limit of `epoll_wait` and the clock justify it. Nothing is asked of peers
or scripts, nor that any particular event is chosen.

`CgiRun!Fairness` asks that the server goes on inside `startCGI` and
`readOutput`, and that a child reaches its `execve` (weak: they are scheduled);
and that the time-out of a script comes in the end (strong, since the loop is left
and entered again: `handleTimeOut` runs at every turn). Of scripts nothing is asked,
not even that one which has closed its output exits: such a script is no longer known
to anybody, and `PeerSeesEnd` excepts the sockets it holds. Nor is it claimed that
`readOutput` comes back: `MaxOutput` would make it so, not the code. `PeerSeesEnd` has
as its premise that the server keeps coming back to its loop.

`FileResponse!FairSpec` asks that a response goes on or is dropped: the loop and
the time-out see to it. It refines the weak fairness of `Delivery`.

## Proofs

### EventLoopProofs

proves, for every set of connections, every set of numbers, every size of the
events array, all time-outs and all `Endings`:

* `TypeCorrect`, `SocketsServed`, `DescriptorsKept`, `UploadsTracked`,
  `ServedOnTime`: `[]TypeOK`, `[]SocketServed`, `[]NoDescriptorLeak`,
  `[]UploadTracked`, `[]ServedInTime`;
* `ScriptsKilled`: the action property `ScriptKilled`;
* `TableAgrees`: `[]TableMatchesKernel`, for `PlainEndings` only: responses without
  files, uploads and scripts (`loop_core`). With them numbers are closed twice and
  the table and the kernel part for a while; `SocketsServed` is what is left then.
  `PlainInv` says that no object remembers a number but its socket's.

The assumptions are those of `EventLoop`: `ConnAssumption` (`NoConn` is no
connection), `FdAssumption` (numbers are naturals, listeners among them),
`TimeAssumption`. TLC evaluates them in every run.

None of the four safety properties is inductive alone. `IInv` adds to them

* `TableInv`: a connection is in the table under one number at most and then its
  `Client` lives; one not accepted yet is untouched and waits at one listener;
* `ObjectInv`: before its request is complete a client has no file and no script;
  a handler exists only once a script was chosen; the number in `uploadFile` is
  never that of the client's own socket (the double close would end it);
* `EventInv`: `epoll` watches listeners and connections only, and an EPOLLIN event
  still in the batch is never of a client whose request is complete: such a
  client got its number in this batch, or has had its only EPOLLIN event;
* `ClockInv`: whoever is past a deadline by more than the seconds the batch has taken
  (`busy`) is in `sweep`; and `life` is at most `age`, plus `REQUEST_TIMEOUT` and the
  seconds of one batch once the request is complete. `ServedInTime` follows:
  `handleTimeOut` runs before any request of the same batch completes.

Why double closes do no harm to sockets is the heart of `SocketServed`: a close
by number frees the number and ends its watch, so whatever is left open is
still under its own number in the table, and `DropUnknown` and `RecvFails` clean
up the entries whose socket is gone. The proof has one lemma per action, under
it one step per conjunct it can disturb, and lemmas for what removals and closes
have in common (`ShutFacts`, `RemoveIInv`, `ShutKeeps`, `FrameIInv`).

The second half proves from the same assumptions `PromiseKept`, that `EventLoop`
implements the safety of `Service`. Each step is taken apart by connection
(`ServiceStep`): it leaves the phase of a connection and what was said to it alone,
or is one of `Service`'s moves for it. That `SpokenToEarly` happens once at most
needs `EarlyInv`: an early piece sets `sentAll`, for a client without a complete
request has no file, and with it set no second one is sent. The lemma of an action
names the connection that moves; `RemoveStep` and `FrameStep` are what they share.

`RunsOn` is `[]KeepsRunning`. What could end the process unasked is a close of
a listening socket's number, and `startCGI` does that when `pipe()` fails: it
closes numbers nobody gave it. So the theorem has two hypotheses. `Sturdy`:
requests store nothing (`generateTmpFile` throws) and end in no exception.
`EnoughNumbers`: if scripts run, there are at least as many numbers as all clients
together can hold, and four more, for `startCGI` needs six of which its client
keeps two. `NumbersInv` says that no table entry, client or handler knows a
listener's number. The rest is counting: each taken number is of one kind
and one client (`TakenOnce`), which bounds how many are taken, so six are free
whenever a client without a script starts one. `loop_promise` satisfies both
hypotheses with its numbers exactly as many as are asked for.

### CgiRunProofs

proves, for any number of clients and any sizes of pipes and buffers, `[]TypeOK`,
`[]WholeOutput` and `[]NoRunaway`. Neither is inductive. `IInv` adds that a
script is between `fork` and `execve` only while `startCGI` waits for it
(`ForkedOnlyInStart`), that the server is only ever busy for a live handler
(`BusyWithLive`), and that all a script has written is in its handler's buffer or
in its pipe as long as its client has no answer (`Counted`, with `Unborn` and
`Fresh` before its start).

### FileResponseProofs

proves, for every size of the buffer, of files and of pages, `[]TypeOK`,
`[]WholeAtLeast` and `[]DoneMeansDelivered`, from the assumptions of
`FileResponse` (a buffer holds at least one byte, sizes are naturals). `IInv` adds

* `Reading`: a file is being read from its headers on, by whole buffers, until the
  response is sent; this is what lets a short read mean the end of the file;
* `PageKept`: a page is not read, so its length and its text stay as they were;
* `Told`: unless a piece was lost, the peer has got the response up to `offset`,
  and at the end at least the whole of it; exactly it, when the file did not grow
  and the end was told by a chunk that did not fill the buffer;
* `Finished`: the loop says "sent" only of a response that says so itself.

`DeliversSafely` is the refinement of `Delivery`, without its liveness. It is
proved under `Friendly`: sends are whole, files do not grow, and no size of a file
is a positive multiple of the buffer. Each of the three is needed: `response_pieces`
reaches what happens without them. `Smooth` carries this along the behaviour. The
bytes of a response are numbered; the lemmas on `Bytes` and `Upto` say that the
pieces follow each other without a gap.

### TextProofs

has what the next four rest on: `Find`, `Before`, `From`, `Drop` and suffixes for
sequences of any length, `FoldLeft` and `FlattenSeq` one member at a time, and
induction. A theorem that takes a predicate cannot be used with these provers;
one about a set can: `LeastNumber` (a set of naturals has a least member, from the
well-foundedness of `<`) and `Induction` (a set with 0 and closed under successor
has all of them). The folds of the community modules are recursive functions
under a `CHOOSE`; `FoldExists` and its neighbours show that they exist and what their
values are, and so a fold over a sequence is the fold over its front and a step.

### UploadProofs

proves, for every set of requests and old files and every size of segments,
`[]TypeOK` (`UploadTyped`), `[]NothingLost` (`UploadLosesNothing`),
`[]CompletesExactly` (`UploadCompletes`), the action property `OnlyGrows`
(`UploadOnlyGrows`) and `[]StoredAsSent` (`UploadStores`). The parser is a
composition of operators on one record; the proof follows it, with a lemma for
each operator that says what it keeps (`Keeps`, `Extends`) of `Fit` states.

`UploadInv` is inductive: the record is `Fit` (typed, its offset inside its file),
what is still to come is the rest of the body, and the client is `Sound`: what was
written since the file was opened, followed by what is kept back (`Pending`), is the
end of what came; bytes stored and bytes awaited add up to `Content-Length`; a
complete request has closed its file.

`UploadStores` has the hypothesis `WellMade`: a multipart body of one part is what
clients make it, the delimiter, headers without a blank line, the blank line, data,
and the closing delimiter (every such body of the `upload` run is). Its invariant,
`PhaseInv`, says where in such a body the parser is: in the headers (`InHeaders`),
past them without a name (`Unnamed`), in the data (`InData`) with a tail kept back
long enough to hold the delimiter's beginning, or done (`DataStored`). Where a cut made
it take (the beginning of) the closing delimiter for data it is past them (`Spilled`):
what is stored and kept back is still the body from the data on, no boundary will be
found any more, and all the data are stored. The first four are `Exact`; `PhaseOf` says
that the phase is one of them as long as nothing was misread.

### ServingProofs

proves, for every configuration, tree and set of requests, `[]TypeOK`
(`ServingTyped`), `[]LookupsAgree` (`SearchesAgree`), `[]Survives`
(`ServingSurvives`), `[]MethodsHeld` (`ServingMethods`), `[]DeletedIsGone`
(`DeletedStaysGone`), `[]Confined` (`ServingConfined`) and `[]RoundTrip`
(`ServingRoundTrip`): all the invariants of `serving_disk`.

Most of it is about text. A path is split at slashes and its segments are walked;
both are folds, and the proofs show that splitting and joining are inverse,
that a normalised path has no segment that is empty, `.` or `..`, that normalising
it again changes nothing, and that it is no longer than what it was made of (so that
what `RoundTrip` asks for is not refused as too long). From these follow where a
path leads that is put together from a root and the rest of a request's path
(`JoinPath`, `ConstructFilePath`): to something within that root, because nothing of
the rest leads up. On the side of the state, `DeletedInv`, `ChangedInv` and
`StoredInv` say what an answer and a change of the tree tell of the request; they are
inductive with `TypeOK` (`ServingTells`).

`ServingRoundTrip` has hypotheses, and `serving_disk` is checked without them:
`PlainNames` (a name is one segment a target need not encode), `ShortNames` (the path of
the upload, with the name behind it, may still be asked for) and `PlainLocations` (of
the locations only `/` ends with a slash: for `location /u/` with root `R`, GET `/u/y`
looks for `Ry`). The others have none: `ServingConfined` holds of names that lead up too.

### RequestHeadProofs

proves, for every set of clients, every limit and every way of cutting a message
into segments, `[]TypeOK` (`RequestHeadTyped`) from the assumptions of `RequestHead`
alone, and under a hypothesis `[]HeadEndsExactly` (`HeadsEndExactly`),
`[]FieldsFound` (`FieldsAreFound`), `[]LengthTaken` (`LengthIsTaken`) and
`[]ScriptToldTruth` (`ScriptsAreToldTruth`).

`IInv` says that what the client object holds is what of the message was received,
and of which types the parser's results are; `Appended` says what one call of
`appendData` does. That `[]TypeOK` needs no hypothesis means that the parser gets
through every text, and that each entry of `buildCGIEnv` has the "=" that `handleCGI`
looks for, with a `QUERY_STRING` among them.

`HInv` adds that once the head has ended, the request is the one `parseRequest`
makes of exactly `HeadOf(intent)`. The reason is where line ends are: `HeadShape`
finds them by induction over the fields, each behind a line that is not empty, so
that two line ends are next to each other only at the end of the head (`WholeHead`),
whatever the body holds and however little of it has come (`BlankLineFound`).

The rest no longer speaks of steps: reading a head again gives what it was made of.
`LinesFound` has the lines, `LineAccepted` the words of the request line (through the
places where words start, `LineStarts`), `FieldRead` one field, its name cut at the
first colon and its value trimmed; `ParsedAs` goes over the fields by induction, with
`Kept` for what the map holds after the first of them: each name with its last value.
`NumberRead` is `stringToInt`, of which changing case must change nothing.

What a script is told is a map again, folded from entries. `EntriesSay` has the nine
variables of the server with what is said under each and shows that no header can say
something under one of their names, for these are told under a name with a prefix;
`ServerTold` follows the fold. `ToldInv` says that the environment is the one
`buildCGIEnv` makes of the request. The query takes the longest way: split into pairs,
decoded, kept in a map, written pair by pair in the order of the map, split and decoded
by the script. What is compared is what there is to read in the query: a set of decoded
pairs (`ScriptReads`), of which those told are among those sent, one for every name.
`PartAdded` and `PartsJoined` are what splitting gives of pieces put
together, `PairMade` the same for one pair; `QueryBack` shows that written and read a
map comes back, if it is plain (`PlainMaps`: decoding leaves its texts alone, no name
holds a "=", no text a "&"), and `QueryRead` that what is read of a plain query is such
a map. `UriPlain` covers the queries that stay in the path instead.

The hypotheses are about clients: `AllUnbroken`, no line holds a line end and no field
is empty; `AllSendable`, no space is in a word of the request line, no colon or space
in a name, and a field without a colon has none in its value either (`Sendable`,
which implies `Unbroken`: `SendableUnbroken`). A client that puts a line end into a
value has sent two fields; it means what it sends, and that is `Sendable` again.

### StartupProofs

proves, for every set of sources, every layout and wherever a file ends, from the
assumptions of `Startup` (`SourceAssumption`, `PortAssumption`, `FdAssumption`) alone
`[]TypeOK` (`StartupTyped`) and `[]ListensServed` (`AllListensServed`), and under a
hypothesis about the sources `[]ReadAsMeant` (`ConfigReadAsMeant`) and
`[]WholeFileRead` (`WholeFilesRead`).

The first two rest on `IInv`. `TypeInv` has the types: that a location holds only
methods the server knows is what the loop before `setMethods` lets through
(`FirstBehindFacts`, `SetTyped`). `BindInv` says that the n-th listen directive of all
servers has the n-th number, with its server in `servers_fd` and its address in the
kernel's table; `ListensFacts` and `ServerServed` count a server's directives in that
order. It holds for whatever was parsed, a file cut off included.

The other two are about what the parser makes of a file, and need an invariant that
knows where in the file the parser is. The tokens of a file are put together the way
its author wrote it (`FileTokens`): `FileTold` shows that tokenizing the lines gives
these tokens in each layout, remarks left out, and `FileCutOff` that a file cut off
anywhere gives their beginning. `ServerEnd`, `ItemEnd` and `DirectiveEnd` are the
places where the servers, items and directives end in the tokens; `PlacesKnown` says
what stands behind each of them, as far as the file goes.

`ReadInv` then says of the parser that it is between two servers (`Outside`), behind
the k-th item of one (`InServer`) or behind the d-th directive of its k-th block
(`InLocation`), and that `currServer` and `currLocation` mean what was written up to
there and nothing else: nothing is left of the location or the server before
(`ServerMeans`, `BodyMeans`). The parser need not stand exactly there. It skips one
token behind the value of `listen`, unseen, and walks word by word over what it does
not know, so `PassedOver` allows it to be before that place, provided no token it
still passes is one it knows. `OutsideTurn`, `ServerTurn` and `LocationTurn` follow
one turn of the loop from each kind of place, one lemma for each branch: the turn
leads to the next place, or the file ends within it (which a whole file does not).
That a directive adds what it says, and to its own field only, is `SetMeans`, from
`BodySet` for the meaning: the last `root` counts, the first `cgi` of an extension,
all names of all `index` directives, without the empty name a semicolon that stands
apart adds to them.

The hypothesis is `AllLegible`: an author ends a file's directives with the words
their branches look at. `LegibleDirective` asks that `root`, `upload_store` and
`autoindex` have one value and `error_page`, `cgi` and `return` two, that only methods
follow `methods`, that an `index` has no empty name, and that a directive the parser
does not know holds no word it does; `LegibleItem` asks the like of a server's items.
The code checks none of this (a `root` without a value takes the next token for one),
so nothing is claimed of other files. `MCStartup` asserts it of the sources of
`startup`.

### What stays with TLC

Liveness (`LetsGo` of `Service` within `KeepsPromise`, `StartComesBack`, `PeerSeesEnd`,
the liveness of `Delivers`): fairness and `ENABLED` are out of these provers' reach.
Every other property a passing run checks is stated by a theorem.

## Not modelled

* Status texts, media types, dates, the text of pages and listings, custom error
  pages (they change the text of an answer only), the bytes of a script's output.
* `fcntl` and `fork` failing in `startCGI`, and a script's standard input, which
  is a pipe the server never writes to.
* A script that writes as fast as `readOutput` reads, which would keep the loop in
  one call: `CgiRun` bounds what a script writes.
* A file that is overwritten in the middle, not at its end, while it is served.
* Two requests that write to one file at once.
* What `epoll` reports of descriptors that a child inherited.
* Getters and `printLocation`; `srcs/ipToBinary.cpp` and
  `includes/Configstructs.hpp`, which are not built; the scripts, pages and
  configuration files, which are data.

## Plan

1. `FileResponse` composed with `Upload` over one file: what a reader sees of a
   file that is being overwritten.
2. `RequestHead` composed with `Upload`: one connection from its first byte to its
   answer.
