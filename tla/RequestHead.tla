----------------------------- MODULE RequestHead -----------------------------
(***************************************************************************)
(* The head of a request: appendData collects it from segments that TCP    *)
(* cuts anywhere, handleHeaders and Request parse it once its blank line   *)
(* is there, and buildCGIEnv makes of it what a script is told.            *)
(*                                                                         *)
(* Text is a sequence of pieces: "\r", "\n", ":", " ", "=", "&", "?", "#",  *)
(* "/", "-", escapes, and words.  `intent' is what the client means to say; *)
(* the code sees only the message made of it.                              *)
(***************************************************************************)
EXTENDS Integers, Text

CONSTANTS
  Intents,       \* what clients mean to say
  MaxSegment,    \* the most one recv() returns (2999 bytes)
  MaxUrlLength,  \* MAX_URL_LENGTH (50)
  MaxInt,        \* the largest int
  LowerOf, UpperOf,   \* tolower() and toupper(), of the pieces they change
  DecodedOf,     \* what an escape stands for
  NumberOf       \* the value of the pieces that are digits

\* Separators and words.
Piece == STRING \cup {"\r", "\n", ":", " ", "=", "&", "?", "#"}
Texts == Seq(Piece)

\* space: what stands before and behind the value; colon: there is one.
Field == [name : Texts, value : Texts, space : Texts, colon : BOOLEAN]
Intent == [method : Texts, target : Texts, protocol : Texts, fields : Seq(Field), body : Texts]

ASSUME IntentsAssumption == Intents \subseteq Intent
ASSUME SegmentAssumption == MaxSegment \in Nat \ {0}
ASSUME UrlAssumption == MaxUrlLength \in Nat
ASSUME TextAssumption ==
  \A change \in {LowerOf, UpperOf, DecodedOf} : \A c \in DOMAIN change : change[c] \in Piece
\* tolower() neither changes a digit or a sign nor makes one.
ASSUME NumberAssumption ==
  /\ MaxInt \in Nat \ {0} /\ \A c \in DOMAIN NumberOf : NumberOf[c] \in Nat
  /\ "-" \notin DOMAIN NumberOf
  /\ \A c \in DOMAIN LowerOf : {c, LowerOf[c]} \cap (DOMAIN NumberOf \cup {"-"}) = {}

VARIABLES
  intent,    \* the client's; fixed
  message,   \* the bytes of it: head and body
  taken,     \* how many of them recv() has returned
  client,    \* Client: headers and what appendData and handleHeaders decide
  request,   \* Request, once there is one
  env        \* what handleCGI hands to startCGI

vars == <<intent, message, taken, client, request, env>>

CRLF == <<"\r", "\n">>
Methods == {<<"GET">>, <<"POST">>, <<"DELETE">>}
ContentLength == <<"content-length">>
Host == <<"host">>

----------------------------------------------------------------------------
(* srcs/Utils.cpp                                                          *)

Changed(s, change) ==
  [k \in DOMAIN s |-> IF s[k] \in DOMAIN change THEN change[s[k]] ELSE s[k]]
ToLowerCase(s) == Changed(s, LowerOf)

Trim(s) ==
  LET inner == {k \in DOMAIN s : s[k] # " "}
  IN IF inner = {} THEN <<>> ELSE SubSeq(s, Min(inner), Max(inner))

\* stringToInt: an empty string leaves the result uninitialised, what is no
\* number gives 0, and what is too large the largest int.
StringToInt(s) ==
  LET Digits(k) == IF k \in DOMAIN s /\ s[k] \in DOMAIN NumberOf
                   THEN Min({NumberOf[s[k]], MaxInt}) ELSE 0
  IN IF s = <<>> THEN -1 .. MaxInt
     ELSE {IF s[1] = "-" THEN -Digits(2) ELSE Digits(1)}

----------------------------------------------------------------------------
(* srcs/Request.cpp.  A step of the parser is an operator from one Request *)
(* to the next; statusCode is 400 from the start.                          *)

NewRequest ==
  [error |-> FALSE, statusCode |-> 400, method |-> <<>>, path |-> <<>>,
   protocol |-> <<>>, queries |-> <<>>, headers |-> <<>>]
Throw(r) == [r EXCEPT !.error = TRUE]

\* map[key] = value
Put(map, key, value) ==
  [k \in DOMAIN map \cup {key} |-> IF k = key THEN value ELSE map[k]]

DecodeUri(s, isQuery) ==
  [k \in DOMAIN s |-> IF s[k] = "+" /\ isQuery THEN " "
                      ELSE IF s[k] \in DOMAIN DecodedOf THEN DecodedOf[s[k]]
                      ELSE s[k]]

NameIn(pair) == IF Found(<<"=">>, pair) THEN Before(<<"=">>, pair) ELSE pair
ValueIn(pair) == IF Found(<<"=">>, pair) THEN Behind(<<"=">>, pair) ELSE <<>>
PutQuery(map, pair) == Put(map, NameIn(pair), ValueIn(pair))
ParseQuery(query) == FoldLeft(PutQuery, <<>>, Parts(query, {"&"}))

\* removeFragment, splitUri; how normalizePath works is Serving's matter.
ParseUri(r, uri) ==
  LET str == IF Found(<<"#">>, uri) THEN Before(<<"#">>, uri) ELSE uri
      split == Found(<<"?">>, str) IN
  IF uri = <<>> \/ Head(uri) # "/" THEN Throw(r)
  ELSE IF Len(uri) > MaxUrlLength THEN Throw([r EXCEPT !.statusCode = 414])
  ELSE [r EXCEPT !.path = DecodeUri(IF split THEN Before(<<"?">>, str) ELSE str, FALSE),
                 !.queries = IF split
                             THEN ParseQuery(DecodeUri(Behind(<<"?">>, str), TRUE))
                             ELSE <<>>]

\* Words are separated by white space of any kind.
ParseLine(raw) ==
  LET words == Parts(Before(CRLF, raw), {" ", "\r", "\n"})
      Word(k) == IF k <= Len(words) THEN words[k] ELSE <<>>
      read == [NewRequest EXCEPT !.method = Word(1), !.protocol = Word(3)]
      parsed == ParseUri(read, Word(2)) IN
  IF Word(1) \notin Methods THEN Throw(read)
  ELSE IF parsed.error THEN parsed
  ELSE IF Word(3) = <<>> THEN Throw(parsed)
  ELSE parsed

\* The lines between the request line and the blank line.
HeaderLines(raw) ==
  LET ends == Occurrences(CRLF, raw)
  IN [k \in 1 .. Cardinality(ends) - 2 |-> SubSeq(raw, Nth(ends, k) + 2, Nth(ends, k + 1) - 1)]

\* Broken: the name is taken as it is written.
KeyAsWritten(line) == Trim(Before(<<":">>, line))
Key(line) == ToLowerCase(Trim(Before(<<":">>, line)))
Value(line) == ToLowerCase(Trim(Behind(<<":">>, line)))

ParseHeader(r, line) ==
  IF r.error THEN r
  ELSE IF ~Found(<<":">>, line) THEN Throw(r)
  ELSE IF Key(line) = <<>> THEN r
  ELSE [r EXCEPT !.headers = Put(@, Key(line), Value(line))]

ParseRequest(raw) ==
  LET line == ParseLine(raw)
  IN IF line.error THEN line ELSE FoldLeft(ParseHeader, line, HeaderLines(raw))

\* Broken: a negative length is converted to size_t.
LengthUnsigned(r) ==
  IF ContentLength \notin DOMAIN r.headers THEN {0}
  ELSE {IF n < 0 THEN 2 * MaxInt + 2 + n ELSE n : n \in StringToInt(r.headers[ContentLength])}
\* The values getContentLength may return.
GetContentLength(r) ==
  IF ContentLength \notin DOMAIN r.headers THEN {0}
  ELSE {IF n >= 0 THEN n ELSE 0 : n \in StringToInt(r.headers[ContentLength])}

----------------------------------------------------------------------------
(* srcs/Client.cpp                                                         *)

NewClient ==
  [headers |-> <<>>, endHeaders |-> FALSE, reqComplete |-> FALSE,
   requestError |-> FALSE, hasBody |-> FALSE, bodySize |-> 0, code |-> 0,
   bodyStart |-> <<>>]

\* handleHeaders, for a request whose getContentLength is n.
HandleHeaders(c, r, n) ==
  IF r.error
  THEN [c EXCEPT !.reqComplete = TRUE, !.requestError = TRUE, !.code = r.statusCode]
  ELSE IF r.method # <<"POST">>
  THEN [c EXCEPT !.bodySize = n, !.reqComplete = TRUE]
  ELSE IF n = 0 THEN [c EXCEPT !.reqComplete = TRUE, !.code = 411]
  ELSE [c EXCEPT !.bodySize = n, !.hasBody = TRUE]

\* Broken: the blank line is looked for in the segment alone.
HeadIn(before, segment) == segment
Collected(before, segment) == before \o segment

\* recv() returns n bytes of the head, and perhaps of the body behind it, which
\* handlePost gets at once.
AppendData(n) ==
  LET headers == Collected(client.headers, SubSeq(message, taken + 1, taken + n))
      headerPos == Find(CRLF \o CRLF, headers) + 3
      raw == SubSeq(headers, 1, headerPos)
      grown == [client EXCEPT !.headers = headers] IN
  /\ ~client.endHeaders /\ taken + n <= Len(message)
  /\ taken' = taken + n
  /\ IF Found(CRLF \o CRLF, headers)
     THEN /\ request' = ParseRequest(raw)
          /\ \E length \in GetContentLength(request') :
               client' = [HandleHeaders(grown, request', length) EXCEPT
                            !.endHeaders = TRUE,
                            !.bodyStart = Drop(headerPos, headers)]
     ELSE client' = grown /\ UNCHANGED request
  /\ UNCHANGED <<intent, message, env>>

----------------------------------------------------------------------------
(* buildCGIEnv and the first lines of handleCGI.                           *)

HeaderOr(r, name, default) ==
  IF name \in DOMAIN r.headers THEN r.headers[name] ELSE default

\* Every query of the map again, with '&' behind each.  The order is the map's;
\* which one is not told apart here.
QueryString(r) ==
  FlattenSeq([k \in DOMAIN SetToSeq(DOMAIN r.queries) |->
    LET name == SetToSeq(DOMAIN r.queries)[k]
    IN name \o <<"=">> \o r.queries[name] \o <<"&">>])

\* A '?' that was escaped is in the path by now.
FromPath(r) == IF Found(<<"?">>, r.path) THEN Behind(<<"?">>, r.path) ELSE <<>>
PathInfo(r) == IF Found(<<"?">>, r.path) THEN Before(<<"?">>, r.path) ELSE <<>>

ServerVariables(r) ==
  LET host == HeaderOr(r, Host, <<"localhost">>)
      port == IF Found(<<":">>, host) THEN Behind(<<":">>, host) ELSE <<"80">>
  IN << <<"REQUEST_METHOD", "=">> \o r.method,
        <<"SERVER_PROTOCOL", "=">> \o r.protocol,
        <<"SCRIPT_NAME", "=">> \o r.path,
        <<"PATH_INFO", "=">> \o PathInfo(r),
        <<"QUERY_STRING", "=">>
           \o (IF DOMAIN r.queries = {} THEN FromPath(r) ELSE QueryString(r)),
        <<"SERVER_NAME", "=">>
           \o (IF Found(<<":">>, host) THEN Before(<<":">>, host) ELSE host),
        <<"SERVER_PORT", "=">> \o port,
        <<"CONTENT_TYPE", "=">> \o HeaderOr(r, <<"content-type">>, <<>>),
        <<"CONTENT_LENGTH", "=">> \o HeaderOr(r, ContentLength, <<"0">>) >>

\* Headers scripts are told of under a name of their own, or not at all.
Unlisted == {<<"content-type">>, ContentLength, <<"authorization">>, <<"connection">>}

\* Broken: no prefix.
MetaBare(name) == Changed(name, UpperOf)
MetaVarName(name) == <<"HTTP_">> \o Changed(name, UpperOf)

HeaderVariables(r) ==
  LET names == SetToSeq(DOMAIN r.headers \ Unlisted)
  IN [k \in DOMAIN names |->
        MetaVarName(names[k]) \o <<"=">> \o r.headers[names[k]]]

\* envMap[what is before the first '='] = what is behind it.
PutEntry(map, entry) == Put(map, Before(<<"=">>, entry), Behind(<<"=">>, entry))
EnvMap(r) == FoldLeft(PutEntry, <<>>, ServerVariables(r) \o HeaderVariables(r))

\* handleCGI: a request whose head was parsed may be one for a script.
BuildCGIEnv ==
  /\ client.endHeaders /\ ~client.requestError /\ env = <<>>
  /\ env' = EnvMap(request)
  /\ UNCHANGED <<intent, message, taken, client, request>>

----------------------------------------------------------------------------
(* What the client means, and the message it makes of it.  A field is a    *)
(* name, a value, spaces around them, and whether there is a colon.        *)

LineOf(it) == it.method \o <<" ">> \o it.target \o <<" ">> \o it.protocol
ContentOf(f) ==
  f.name \o (IF f.colon THEN <<":">> ELSE <<>>) \o f.space \o f.value \o f.space
FieldLine(f) == ContentOf(f) \o CRLF
HeadOf(it) ==
  LineOf(it) \o CRLF
    \o FlattenSeq([k \in DOMAIN it.fields |-> FieldLine(it.fields[k])]) \o CRLF

Init ==
  /\ intent \in Intents
  /\ message = HeadOf(intent) \o intent.body
  /\ taken = 0 /\ client = NewClient /\ request = NewRequest /\ env = <<>>

Next == BuildCGIEnv \/ \E n \in 1 .. MaxSegment : AppendData(n)

Spec == Init /\ [][Next]_vars

----------------------------------------------------------------------------
(* Properties.                                                             *)

\* What a line, a word of the request line, the name of a field and a line without
\* a colon are made of.
Lineless == Piece \ {"\r", "\n"}
Wordly == Piece \ {" ", "\r", "\n"}
Namely == Piece \ {":", " ", "\r", "\n"}
Colonless == Piece \ {":", "\r", "\n"}

\* What a client can say with a request line and lines of fields: no line end within
\* one, no space within a word, and no line that is empty, for that ends the head.
SendableField(f) ==
  /\ f.name \in Seq(Namely) /\ f.value \in Seq(Lineless) /\ f.space \in Seq({" "})
  /\ ~f.colon => f.value \in Seq(Colonless) /\ ContentOf(f) # <<>>
Sendable(it) ==
  /\ it.method \in Seq(Wordly) /\ it.target \in Seq(Wordly) /\ it.protocol \in Seq(Wordly)
  /\ \A k \in DOMAIN it.fields : SendableField(it.fields[k])

WellFormed(it) ==
  /\ it.method \in Methods /\ it.protocol # <<>>
  /\ it.target # <<>> /\ Head(it.target) = "/" /\ Len(it.target) <= MaxUrlLength
  /\ \A k \in DOMAIN it.fields : it.fields[k].colon

\* The fields with a name, however it is spelled.
Named(it, name) ==
  {k \in DOMAIN it.fields : it.fields[k].colon /\ ToLowerCase(it.fields[k].name) = name}
LastValue(it, name) == Trim(it.fields[Max(Named(it, name))].value)

\* The parts have their types; what is handed on as a body is behind the head.
TypeOK ==
  /\ taken \in 0 .. Len(message)
  /\ client.headers = SubSeq(message, 1, taken)
  /\ client.code \in {0, 400, 411, 414} /\ client.bodySize \in 0 .. MaxInt
  /\ request.error \in BOOLEAN /\ request.statusCode \in {400, 414}
  /\ env # <<>> => <<"QUERY_STRING">> \in DOMAIN env

\* The head ends with the segment that completes its blank line, not later, and
\* the bytes of the body that came with it are handed on, all of them and in
\* order, wherever the segments were cut: in the middle of "\r\n\r\n" too.
HeadEndsExactly ==
  LET head == Len(message) - Len(intent.body) IN
  /\ client.endHeaders <=> taken >= head
  /\ client.endHeaders =>
       client.bodyStart = SubSeq(intent.body, 1, taken - head)

\* A request is accepted if and only if it is well formed, and then its fields are
\* found whatever the case of their names and the spaces around their values; of
\* several with one name the last counts.
FieldsFound ==
  client.endHeaders =>
    /\ client.requestError <=> ~WellFormed(intent)
    /\ ~client.requestError =>
         /\ DOMAIN request.headers =
              {ToLowerCase(intent.fields[k].name) : k \in DOMAIN intent.fields} \ {<<>>}
         /\ \A name \in DOMAIN request.headers :
              request.headers[name] = ToLowerCase(LastValue(intent, name))

\* A POST waits for a body exactly if its Content-Length is a number from 1, and
\* for exactly that many bytes as long as the number is an int; it is refused with
\* 411 otherwise, and no other method waits.  An empty value is excepted: the
\* result of stringToInt is then not initialised.
LengthTaken ==
  client.endHeaders /\ ~client.requestError =>
    LET given == Named(intent, ContentLength) # {}
        value == LastValue(intent, ContentLength)
        number == IF given /\ value # <<>> /\ value[1] \in DOMAIN NumberOf
                  THEN NumberOf[value[1]] ELSE 0
    IN (given => value # <<>>) =>
         /\ client.hasBody <=> intent.method = <<"POST">> /\ number > 0
         /\ client.code = 411 <=> intent.method = <<"POST">> /\ number = 0
         /\ client.hasBody => client.bodySize = Min({number, MaxInt})

\* What there is to read in a query: its names with their values, decoded.  A name may
\* have several, and which of them a script takes is the script's matter
\* (cgi-bin/GET.py takes the first).
PairRead(pair) == <<DecodeUri(NameIn(pair), TRUE), DecodeUri(ValueIn(pair), TRUE)>>
ScriptReads(query) ==
  LET pairs == Parts(query, {"&"}) IN {PairRead(pairs[k]) : k \in DOMAIN pairs}

\* Every name that is sent is told once, with a value that was sent for it, and nothing
\* else is told.
ToldOnce(told, sent) ==
  /\ told \subseteq sent
  /\ \A pair \in sent : \E one \in told : \A other \in told : other[1] = pair[1] <=> other = one

Plain(s) == \A k \in DOMAIN s : s[k] # "+" /\ s[k] \notin DOMAIN DecodedOf

\* A script is told what the client said.  Of the query it is told every name, and
\* nothing that was not sent; so whichever of several values it takes, it reads what was
\* sent, unless a name was sent with several: then it is told one of them, and need not
\* find the one it would have taken.  (This as long as the target escapes nothing: the
\* code decodes before it splits, and builds the string anew without encoding.)  And no
\* header takes the place of a variable the server sets itself.
ScriptToldTruth ==
  env # <<>> =>
    LET whole == IF Found(<<"#">>, intent.target) THEN Before(<<"#">>, intent.target)
                 ELSE intent.target
        query == IF Found(<<"?">>, whole) THEN Behind(<<"?">>, whole) ELSE <<>>
    IN /\ Plain(intent.target) =>
            ToldOnce(ScriptReads(env[<<"QUERY_STRING">>]), ScriptReads(query))
       /\ env[<<"REQUEST_METHOD">>] = intent.method
       /\ Named(intent, ContentLength) # {} =>
            env[<<"CONTENT_LENGTH">>] = ToLowerCase(LastValue(intent, ContentLength))
       /\ Named(intent, Host) # {} =>
            LET host == ToLowerCase(LastValue(intent, Host))
            IN host = env[<<"SERVER_NAME">>]
                 \o (IF Found(<<":">>, host) THEN <<":">> \o env[<<"SERVER_PORT">>]
                     ELSE <<>>)
=============================================================================
