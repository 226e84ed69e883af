------------------------------- MODULE Startup -------------------------------
(***************************************************************************)
(* main() up to run_server: the configuration file is split into tokens    *)
(* (tokenizer), the tokens are read into servers and locations (parser),   *)
(* and every server binds a socket for each of its listen directives       *)
(* (init_server).  A step of the parser is one turn of its loop, that is   *)
(* one directive or one token it does not know.  The file is a sequence of *)
(* lines, a line a sequence of words; a word is its text without a         *)
(* semicolon at its end, and whether there was one.                        *)
(*                                                                         *)
(* `source' is what the author of the file meant: servers as sequences of  *)
(* items.  The code never sees it; Meaning says what it should make of it. *)
(***************************************************************************)
EXTENDS Integers, Sequences, SequencesExt

CONSTANTS
  Sources,     \* what files are written from: sequences of servers
  Layouts,     \* subset of {"attached", "apart", "remarks"}
  Cuts,        \* {FALSE}, or BOOLEAN when a file may end anywhere
  HostOf,      \* a word up to its first colon
  NumberOf,    \* atoi() of what follows the first colon of a word, or of it all
  InetAddr,    \* inet_addr() of a host
  Bindable,    \* the addresses bind() takes on this machine
  PortBound,   \* 2^16: htons() keeps that much of a port
  Taken,       \* addresses and ports other processes listen at
  FirstFd, LastFd   \* the descriptor numbers left to main

\* An item of a server is a directive, or a block with directives in it; a directive
\* is the sequence of its words.
ItemType == [words : Seq(STRING), block : BOOLEAN, body : Seq(Seq(STRING))]

ASSUME SourceAssumption == \A servers \in Sources : servers \in Seq(Seq(ItemType))
ASSUME PortAssumption == PortBound \in Nat \ {0}
ASSUME FdAssumption == FirstFd \in Nat /\ LastFd \in Nat

VARIABLES
  source, whole,            \* the author's intent; whether the file is complete
  lines, tokens,            \* the file; std::vector<std::string> tokens
  i,                        \* the parser's index, from 1
  config, currServer, currLocation, inServer, inLocation,   \* locals of parser
  phase,                    \* where main is; "undefined": tokens[] out of range
  nextListen,               \* how far the loops of main and init_server are
  servers_fd, bound         \* std::map servers_fd; the kernel: number -> address

fileVars == <<source, whole, lines>>
parserVars == <<config, currServer, currLocation, inServer, inLocation>>
socketVars == <<nextListen, servers_fd, bound>>
vars == <<fileVars, tokens, i, parserVars, phase, socketVars>>

Methods == {"GET", "POST", "DELETE"}

----------------------------------------------------------------------------
(* The tokenizer.                                                          *)

\* The words of a line up to the first that begins with '#'; a semicolon that
\* ends a word is a token of its own (alone, it leaves an empty token before).
TokensOf(line) ==
  LET remark == {k \in DOMAIN line : line[k].text = "#"}
      words == SubSeq(line, 1, Min(remark \cup {Len(line) + 1}) - 1)
  IN FlattenSeq([k \in DOMAIN words |->
       IF words[k].ends THEN <<words[k].text, ";">> ELSE <<words[k].text>>])

Tokenize ==
  /\ phase = "reading"
  /\ tokens' = FlattenSeq([n \in DOMAIN lines |-> TokensOf(lines[n])])
  /\ phase' = "parsing"
  /\ UNCHANGED <<fileVars, i, parserVars, socketVars>>

----------------------------------------------------------------------------
(* Location and Server as their constructors and setters leave them.       *)

\* std::map::insert keeps the value a key has.
Insert(map, key, value) ==
  [k \in DOMAIN map \cup {key} |-> IF k \in DOMAIN map THEN map[k] ELSE value]

NoLocation ==
  [path |-> "", root |-> "", index |-> <<>>, upload_store |-> "",
   methods |-> <<>>, cgi |-> <<>>, errors |-> <<>>,
   redir |-> <<0, "">>, isRedirection |-> FALSE, autoindex |-> FALSE]
\* Broken: the location is the one before, under a new path.
OldLocation(path) == [currLocation EXCEPT !.path = path]
NewLocation(path) == [NoLocation EXCEPT !.path = path]

NewServer == [listens |-> <<>>, locations |-> <<>>]

----------------------------------------------------------------------------
(* The parser: one turn of its loop.                                       *)

Parsing == phase = "parsing" /\ i <= Len(tokens)
tok == tokens[i]

\* The branch the if-else chain takes for tok, "" for none.
Branch ==
  IF \/ tok \in {"server", "autoindex"}
     \/ tok = "listen" /\ inServer
     \/ tok = "location" /\ inServer /\ ~inLocation
     \/ tok = "error_page" /\ inServer /\ inLocation
     \/ tok = "}" /\ (inLocation \/ inServer)
     \/ tok \in {"root", "index", "upload_store", "methods", "cgi", "return"}
          /\ inLocation
  THEN tok ELSE ""
\* The first of the stops behind tok, or the place behind the last token.
FirstBehind(stops) ==
  Min({j \in i + 1 .. Len(tokens) : tokens[j] \in stops} \cup {Len(tokens) + 1})

\* The last token the branch looks at.
Reach ==
  LET arguments == [server |-> 0, autoindex |-> 1, listen |-> 1, location |-> 1,
                    error_page |-> 2, root |-> 1, upload_store |-> 1, cgi |-> 2]
  IN IF Branch \in {"", "}"} THEN i
     ELSE IF Branch = "index" THEN FirstBehind({";"})
     ELSE IF Branch = "methods" THEN FirstBehind(Range(tokens) \ Methods)
     ELSE IF Branch = "return" THEN i + 2
     ELSE i + arguments[Branch]

Takes(branch) == Parsing /\ Branch = branch /\ Reach <= Len(tokens)

\* Behind "server" and behind the value of "listen" one token is skipped unseen.
ServerBegins ==
  /\ Takes("server")
  /\ currServer' = NewServer /\ inServer' = TRUE /\ i' = i + 2
  /\ UNCHANGED <<fileVars, tokens, config, currLocation, inLocation, phase, socketVars>>

\* Broken: two tokens are skipped.
BehindListenTwo == i + 4
BehindListen == i + 3

Address(word) == [host |-> HostOf[word], port |-> NumberOf[word]]

Listen ==
  /\ Takes("listen")
  /\ currServer' = [currServer EXCEPT !.listens = Append(@, Address(tokens[i + 1]))]
  /\ i' = BehindListen
  /\ UNCHANGED <<fileVars, tokens, config, currLocation, inServer, inLocation,
                 phase, socketVars>>

LocationBegins ==
  /\ Takes("location")
  /\ currLocation' = NewLocation(tokens[i + 1]) /\ inLocation' = TRUE
  /\ i' = Reach + 1
  /\ UNCHANGED <<fileVars, tokens, config, currServer, inServer, phase, socketVars>>

\* What the setter of a directive makes of the current location.
Set(branch) ==
  LET first == tokens[i + 1]
      second == tokens[i + 2]
      list == SubSeq(tokens, i + 1, Reach - 1)
  IN CASE branch = "root" -> [currLocation EXCEPT !.root = first]
       [] branch = "upload_store" -> [currLocation EXCEPT !.upload_store = first]
       [] branch = "index" -> [currLocation EXCEPT !.index = @ \o list]
       [] branch = "methods" -> [currLocation EXCEPT !.methods = @ \o list]
       [] branch = "error_page" ->
            [currLocation EXCEPT !.errors = Insert(@, NumberOf[first], second)]
       [] branch = "cgi" -> [currLocation EXCEPT !.cgi = Insert(@, first, second)]
       [] branch = "return" ->
            [currLocation EXCEPT !.redir = <<NumberOf[first], second>>,
                                 !.isRedirection = TRUE]
       [] branch = "autoindex" ->
            [currLocation EXCEPT !.autoindex = @ \/ first = "on"]

\* The index ends at its semicolon; behind the methods any token is swallowed.
Directive(branch) ==
  /\ Takes(branch)
  /\ currLocation' = Set(branch) /\ i' = Reach + 1
  /\ UNCHANGED <<fileVars, tokens, config, currServer, inServer, inLocation,
                 phase, socketVars>>

LocationEnds ==
  /\ Takes("}") /\ inLocation
  /\ currServer' = [currServer EXCEPT !.locations = Append(@, currLocation)]
  /\ inLocation' = FALSE /\ i' = i + 1
  /\ UNCHANGED <<fileVars, tokens, config, currLocation, inServer, phase, socketVars>>

ServerEnds ==
  /\ Takes("}") /\ ~inLocation
  /\ config' = Append(config, currServer)
  /\ inServer' = FALSE /\ i' = i + 1
  /\ UNCHANGED <<fileVars, tokens, currServer, currLocation, inLocation, phase,
                 socketVars>>

Ignored ==
  /\ Takes("") /\ i' = i + 1
  /\ UNCHANGED <<fileVars, tokens, parserVars, phase, socketVars>>

\* tokens[++i] with nothing there: undefined behaviour.
Overrun ==
  /\ Parsing /\ Reach > Len(tokens)
  /\ phase' = "undefined"
  /\ UNCHANGED <<fileVars, tokens, i, parserVars, socketVars>>

\* parser returns: what is not closed by then is lost.
ParserReturns ==
  /\ phase = "parsing" /\ i > Len(tokens)
  /\ phase' = "binding"
  /\ UNCHANGED <<fileVars, tokens, i, parserVars, socketVars>>

----------------------------------------------------------------------------
(* main's loop over the servers, and init_server's over their listens.     *)

Listens ==
  FlattenSeq([s \in DOMAIN config |->
    [l \in DOMAIN config[s].listens |->
       [server |-> s, said |-> config[s].listens[l]]]])

\* socket() returns the lowest free number.
ListenFd == FirstFd + Cardinality(DOMAIN servers_fd)

\* What is bound for a listen directive: inet_addr() makes 255.255.255.255 of what
\* is no address, htons() drops the upper bits of a port.
Sockaddr(said) == [addr |-> InetAddr[said.host], port |-> said.port % PortBound]

\* bind(): the address is this machine's and nobody has the port, a port the
\* kernel may choose itself (0) apart.
CanBind(a) ==
  /\ a.addr \in Bindable
  /\ \/ a.port = 0
     \/ a \notin Taken /\ \A f \in DOMAIN bound : bound[f] # a

Binding == phase = "binding" /\ nextListen <= Len(Listens)

\* Broken: the entry of the map points to the server main began with, or to the
\* one before.
OwnerBefore(s) == s - 1
OwnerIsFirst(s) == 1
Owner(s) == s

InitServer ==
  LET this == Listens[nextListen] IN
  /\ Binding /\ ListenFd <= LastFd /\ CanBind(Sockaddr(this.said))
  /\ servers_fd' = [f \in DOMAIN servers_fd \cup {ListenFd} |->
                      IF f = ListenFd THEN Owner(this.server) ELSE servers_fd[f]]
  /\ bound' = [f \in DOMAIN servers_fd \cup {ListenFd} |->
                 IF f = ListenFd THEN Sockaddr(this.said) ELSE bound[f]]
  /\ nextListen' = nextListen + 1
  /\ UNCHANGED <<fileVars, tokens, i, parserVars, phase>>

\* socket() or bind() fails: the exception ends main with exit(1).
InitServerThrows ==
  /\ Binding
  /\ ListenFd > LastFd \/ ~CanBind(Sockaddr(Listens[nextListen].said))
  /\ phase' = "failed"
  /\ UNCHANGED <<fileVars, tokens, i, parserVars, socketVars>>

\* run_server is called.
RunServer ==
  /\ phase = "binding" /\ nextListen > Len(Listens)
  /\ phase' = "running"
  /\ UNCHANGED <<fileVars, tokens, i, parserVars, socketVars>>

----------------------------------------------------------------------------
(* How an author writes a configuration: the lines of the file.            *)

Bare(words) == [k \in DOMAIN words |-> [text |-> words[k], ends |-> FALSE]]
\* A directive's words; its semicolon is attached or stands apart.
Written(directive, layout) ==
  IF layout = "apart" THEN Append(Bare(directive), [text |-> "", ends |-> TRUE])
  ELSE [k \in DOMAIN directive |-> [text |-> directive[k], ends |-> k = Len(directive)]]
\* A remark behind the words, that reads like directives.
Remarked(line, layout) ==
  IF layout = "remarks"
  THEN line \o Bare(<<"#", "}", "root", "x">>) ELSE line

ItemLines(item, layout) ==
  IF item.block
  THEN <<Remarked(Bare(item.words \o <<"{">>), layout)>>
         \o [k \in DOMAIN item.body |-> Remarked(Written(item.body[k], layout), layout)]
         \o <<Bare(<<"}">>)>>
  ELSE <<Remarked(Written(item.words, layout), layout)>>
ServerLines(server, layout) ==
  <<Bare(<<"server", "{">>)>>
    \o FlattenSeq([k \in DOMAIN server |-> ItemLines(server[k], layout)])
    \o <<Bare(<<"}">>)>>
FileLines(servers, layout) ==
  FlattenSeq([k \in DOMAIN servers |-> ServerLines(servers[k], layout)])

\* The file's beginnings: some whole lines, and some words of the next.
Beginnings(file) ==
  {SubSeq(file, 1, k) : k \in 0 .. Len(file)} \cup
  UNION {{SubSeq(file, 1, k) \o <<SubSeq(file[k + 1], 1, m)>> :
            m \in 1 .. Len(file[k + 1]) - 1} : k \in 0 .. Len(file) - 1}

Init ==
  /\ source \in Sources
  /\ \E layout \in Layouts, cut \in Cuts :
       LET file == FileLines(source, layout)
       IN lines \in IF cut THEN Beginnings(file) ELSE {file}
  /\ whole = \E layout \in Layouts : lines = FileLines(source, layout)
  /\ tokens = <<>> /\ i = 1
  /\ config = <<>> /\ currServer = NewServer /\ currLocation = NoLocation
  /\ inServer = FALSE /\ inLocation = FALSE
  /\ phase = "reading"
  /\ nextListen = 1 /\ servers_fd = <<>> /\ bound = <<>>

Next ==
  \/ Tokenize
  \/ ServerBegins \/ Listen \/ LocationBegins
  \/ \E branch \in {"root", "index", "upload_store", "methods", "error_page",
                    "cgi", "return", "autoindex"} : Directive(branch)
  \/ LocationEnds \/ ServerEnds \/ Ignored \/ Overrun \/ ParserReturns
  \/ InitServer \/ InitServerThrows \/ RunServer

Spec == Init /\ [][Next]_vars

----------------------------------------------------------------------------
(* Files that can be read: what an author may write.                       *)

\* The words the parser looks for, in a server and in a location.
ServerWords == {"server", "autoindex", "listen", "location", "}"}
LocationWords ==
  {"server", "autoindex", "listen", "error_page", "}", "root", "index", "upload_store",
   "methods", "cgi", "return"}

\* A directive of a location that says one thing: it has the words its branch looks
\* at, the list of an index has no empty name in it, methods are followed by methods,
\* and what the parser does not know holds no word it does.
LegibleDirective(words) ==
  /\ words # <<>> /\ "#" \notin Range(words)
  /\ \/ words[1] \in {"root", "upload_store", "autoindex"} /\ Len(words) = 2
     \/ words[1] \in {"error_page", "cgi", "return"} /\ Len(words) = 3
     \/ words[1] = "index" /\ Range(Tail(words)) \cap {";", ""} = {}
     \/ words[1] = "methods" /\ Range(Tail(words)) \subseteq Methods
     \/ Range(words) \cap LocationWords = {}
LegibleItem(item) ==
  IF item.block
  THEN /\ item.words[1] = "location" /\ Len(item.words) = 2 /\ item.words[2] # "#"
       /\ \A k \in DOMAIN item.body : LegibleDirective(item.body[k])
  ELSE /\ item.words # <<>> /\ "#" \notin Range(item.words)
       /\ \/ item.words[1] = "listen" /\ Len(item.words) = 2
          \/ Range(item.words) \cap ServerWords = {}
Legible(servers) == \A s \in DOMAIN servers : \A k \in DOMAIN servers[s] :
                      LegibleItem(servers[s][k])

----------------------------------------------------------------------------
(* What a file means.                                                      *)

\* The places of a body where directives of a name stand.
Places(body, name) == {k \in DOMAIN body : body[k][1] = name}
\* What the last of them says as its n-th word.
LastSaid(body, name, n, default) ==
  IF Places(body, name) = {} THEN default ELSE body[Max(Places(body, name))][n]
\* What all of them say, one after the other.
Arguments(body, name) ==
  FlattenSeq([k \in DOMAIN body |-> IF body[k][1] = name THEN Tail(body[k]) ELSE <<>>])
\* The first directive with a key decides; keys has that of each place.
Table(body, keys) ==
  [x \in Range(keys) |-> body[Min({k \in DOMAIN keys : keys[k] = x})][3]]

MeaningOfLocation(item) ==
  LET body == item.body
  IN [path |-> item.words[2],
      root |-> LastSaid(body, "root", 2, ""),
      upload_store |-> LastSaid(body, "upload_store", 2, ""),
      index |-> Arguments(body, "index"),
      methods |-> Arguments(body, "methods"),
      cgi |-> Table(body, [k \in Places(body, "cgi") |-> body[k][2]]),
      errors |-> Table(body, [k \in Places(body, "error_page") |-> NumberOf[body[k][2]]]),
      redir |-> IF Places(body, "return") = {} THEN <<0, "">>
                ELSE <<NumberOf[LastSaid(body, "return", 2, "")],
                       LastSaid(body, "return", 3, "")>>,
      isRedirection |-> Places(body, "return") # {},
      autoindex |-> <<"autoindex", "on">> \in Range(body)]

MeaningOfServer(server) ==
  [listens |-> FlattenSeq([k \in DOMAIN server |->
                 IF server[k].words[1] = "listen" THEN <<Address(server[k].words[2])>>
                 ELSE <<>>]),
   locations |-> FlattenSeq([k \in DOMAIN server |->
                   IF server[k].block THEN <<MeaningOfLocation(server[k])>> ELSE <<>>])]

Meaning(servers) == [k \in DOMAIN servers |-> MeaningOfServer(servers[k])]

\* A semicolon that stands apart adds an empty name to an index, which names the
\* directory itself and never a file.
Clean(location) ==
  [location EXCEPT !.index =
     FlattenSeq([k \in DOMAIN @ |-> IF @[k] = "" THEN <<>> ELSE <<@[k]>>])]
Cleaned(servers) ==
  [s \in DOMAIN servers |->
     [servers[s] EXCEPT !.locations = [l \in DOMAIN @ |-> Clean(@[l])]]]

----------------------------------------------------------------------------
(* Properties.                                                             *)

LocationType(l) ==
  /\ DOMAIN l = DOMAIN NoLocation
  /\ Range(l.methods) \subseteq Methods
  /\ l.isRedirection \in BOOLEAN /\ l.autoindex \in BOOLEAN

\* Every variable has its type; the parser is in a location only in a server, and
\* servers_fd names servers of the configuration.
TypeOK ==
  /\ i \in Nat \ {0} /\ nextListen \in Nat \ {0}
  /\ phase \in {"reading", "parsing", "binding", "running", "failed", "undefined"}
  /\ inServer \in BOOLEAN /\ inLocation \in BOOLEAN /\ (inLocation => inServer)
  /\ LocationType(currLocation)
  /\ \A s \in DOMAIN config : \A l \in DOMAIN config[s].locations :
       LocationType(config[s].locations[l])
  /\ \A f \in DOMAIN servers_fd :
       f \in FirstFd .. LastFd /\ servers_fd[f] \in DOMAIN config
  /\ DOMAIN bound = DOMAIN servers_fd

\* However the file is laid out, and wherever it ends, the servers read so far
\* are the first servers written, each with exactly its own listens and locations
\* and nothing left over from the one before (parser reuses currServer,
\* currLocation and its flags).
ReadAsMeant == IsPrefix(Cleaned(config), Meaning(source))

\* A complete file is read to its end: no server is lost, and tokens[] is never
\* read past its last element.
WholeFileRead ==
  whole /\ phase \notin {"reading", "parsing"} =>
    phase # "undefined" /\ Len(config) = Len(source)

\* An address that is one, and a port that a sockaddr_in can hold.
Proper(said) == InetAddr[said.host] \in Bindable /\ said.port \in 1 .. PortBound - 1

\* When run_server is called every listen directive has a socket of its own, the
\* server it stands in is what servers_fd finds for that socket, and no socket is
\* there for anything else: there is no half-started server.  Where the directive
\* gives a proper address, that is where the socket is bound.
ListensServed ==
  phase = "running" =>
    /\ Cardinality(DOMAIN servers_fd) = Len(Listens)
    /\ \A s \in DOMAIN config :
         Cardinality({f \in DOMAIN servers_fd : servers_fd[f] = s})
           = Len(config[s].listens)
    /\ \A n \in DOMAIN Listens : Proper(Listens[n].said) =>
         \E f \in DOMAIN servers_fd :
           /\ servers_fd[f] = Listens[n].server
           /\ bound[f] = [addr |-> InetAddr[Listens[n].said.host],
                          port |-> Listens[n].said.port]
=============================================================================
