---------------------------- MODULE StartupProofs ----------------------------
(***************************************************************************)
(* Proofs about Startup.                                                   *)
(***************************************************************************)
EXTENDS Startup, TextProofs, FiniteSetTheorems

----------------------------------------------------------------------------
(* The types of what the parser builds.                                    *)

\* The texts of words, those that a layout adds among them.
Word == STRING \cup {"", ";", "#", "{", "}", "root", "server", "x"}
WordType == [text : Word, ends : BOOLEAN]
LineType == Seq(WordType)
Addresses == {Address(word) : word \in Word}
Numbers == {NumberOf[word] : word \in Word} \cup {0}
KeyedBy(K) == UNION {[X -> Word] : X \in SUBSET K}
LocationSet ==
  [path : Word, root : Word, index : Seq(Word), upload_store : Word,
   methods : Seq(Methods), cgi : KeyedBy(Word), errors : KeyedBy(Numbers),
   redir : Numbers \X Word, isRedirection : BOOLEAN, autoindex : BOOLEAN]
ServerSet == [listens : Seq(Addresses), locations : Seq(LocationSet)]

\* Short sequences.
LEMMA Tuples ==
  ASSUME NEW S, NEW a \in S
  PROVE  /\ <<a>> \in Seq(S) /\ \A b \in S : <<a, b>> \in Seq(S)
         /\ \A b, c \in S : <<a, b, c>> \in Seq(S)
         /\ \A b, c, d \in S : <<a, b, c, d>> \in Seq(S)
OBVIOUS

\* A function on the first numbers is a sequence.
LEMMA MadeSeq ==
  ASSUME NEW T, NEW n \in Nat, NEW g \in [1..n -> T]
  PROVE  g \in Seq(T) /\ Len(g) = n /\ DOMAIN g = 1..n
<1>1. g \in Seq(T)
  BY SeqDef
<1>2. DOMAIN g = 1..n
  OBVIOUS
<1>3. Len(g) = n
  BY <1>1, <1>2, LenProperties
<1> QED
  BY <1>1, <1>2, <1>3

\* What insert makes of a map.
LEMMA Inserted ==
  ASSUME NEW K, NEW map \in KeyedBy(K), NEW key \in K, NEW value \in Word
  PROVE  Insert(map, key, value) \in KeyedBy(K)
<1> DEFINE D == DOMAIN map \cup {key}
           new == Insert(map, key, value)
<1>1. PICK X \in SUBSET K : map \in [X -> Word]
  BY DEF KeyedBy
<1>2. D \in SUBSET K
  BY <1>1
<1>3. new \in [D -> Word]
  BY <1>1 DEF Insert
<1> QED
  BY <1>2, <1>3 DEF KeyedBy

\* A new location is one.
LEMMA NewLocationTyped ==
  ASSUME NEW path \in Word
  PROVE  NewLocation(path) \in LocationSet /\ NoLocation \in LocationSet
<1>1. \A K : <<>> \in KeyedBy(K)
  <2> SUFFICES ASSUME NEW K PROVE <<>> \in KeyedBy(K)
    OBVIOUS
  <2>1. <<>> \in [{} -> Word]
    BY EmptySeq
  <2> QED
    BY <2>1 DEF KeyedBy
<1>2. /\ <<>> \in Seq(Word) /\ <<>> \in Seq(Methods) /\ <<0, "">> \in Numbers \X Word
      /\ <<>> \in KeyedBy(Word) /\ <<>> \in KeyedBy(Numbers) /\ "" \in Word
  <2>1. 0 \in Numbers /\ "" \in Word
    BY DEF Numbers, Word
  <2>2. <<0, "">> \in Numbers \X Word
    BY <2>1
  <2> QED
    BY <1>1, <2>1, <2>2, EmptySeq
<1>3. NoLocation \in LocationSet
  BY <1>2 DEF NoLocation, LocationSet
<1>4. [NoLocation EXCEPT !.path = path] \in LocationSet
  BY <1>3, ZenonT(60) DEF LocationSet
<1> QED
  BY <1>3, <1>4 DEF NewLocation

\* What a member of LocationSet is.
LEMMA LocationFacts ==
  ASSUME NEW l \in LocationSet
  PROVE  LocationType(l)
<1>1. l.methods \in Seq(Methods)
  BY DEF LocationSet
<1>2. Range(l.methods) \subseteq Methods
  BY <1>1, ElementOfSeq DEF Range
<1>3. DOMAIN l = DOMAIN NoLocation
  BY DEF LocationSet, NoLocation
<1>4. l.isRedirection \in BOOLEAN /\ l.autoindex \in BOOLEAN
  BY DEF LocationSet
<1> QED
  BY <1>2, <1>3, <1>4 DEF LocationType

----------------------------------------------------------------------------
(* The types of the file and of its tokens.                                *)

\* Words without semicolons.
LEMMA BareTyped ==
  ASSUME NEW words \in Seq(Word)
  PROVE  Bare(words) \in LineType
<1>1. Len(words) \in Nat /\ DOMAIN words = 1..Len(words)
  BY LenProperties
<1>2. \A k \in 1..Len(words) : [text |-> words[k], ends |-> FALSE] \in WordType
  BY ElementOfSeq DEF WordType
<1> DEFINE n == Len(words)
<1> HIDE DEF n
<1>3. [k \in 1..n |-> [text |-> words[k], ends |-> FALSE]] \in [1..n -> WordType]
  BY <1>2 DEF n
<1> QED
  BY <1>1, <1>3, MadeSeq DEF Bare, LineType, n

\* A directive as it is written.
LEMMA WrittenTyped ==
  ASSUME NEW directive \in Seq(Word), NEW layout
  PROVE  Written(directive, layout) \in LineType
<1> DEFINE n == Len(directive)
           w(k) == [text |-> directive[k], ends |-> k = n]
<1>1. n \in Nat /\ DOMAIN directive = 1..n /\ \A k \in 1..n : directive[k] \in Word
  BY LenProperties, ElementOfSeq
<1>2. \A k \in 1..n : w(k) \in WordType
  BY <1>1 DEF WordType
<1>3. [text |-> "", ends |-> TRUE] \in WordType
  BY DEF WordType, Word
<1>4. Append(Bare(directive), [text |-> "", ends |-> TRUE]) \in Seq(WordType)
  BY <1>3, BareTyped, AppendProperties DEF LineType
<1>5. [k \in DOMAIN directive |-> w(k)] \in Seq(WordType)
  <2> DEFINE u == [k \in DOMAIN directive |-> w(k)]
  <2> HIDE DEF n, w
  <2>1. u \in [1..n -> WordType]
    BY <1>1, <1>2
  <2> QED
    BY <1>1, <2>1, MadeSeq
<1> QED
  BY <1>4, <1>5 DEF Written, LineType

\* The lines of a block are those of its directives between two others.
LEMMA RemarkedTyped ==
  ASSUME NEW line \in LineType, NEW layout
  PROVE  Remarked(line, layout) \in LineType
<1>1. <<"#", "}", "root", "x">> \in Seq(Word)
  <2>1. "#" \in Word /\ "}" \in Word /\ "root" \in Word /\ "x" \in Word
    BY DEF Word
  <2> QED
    BY ONLY <2>1, Tuples
<1>2. Bare(<<"#", "}", "root", "x">>) \in LineType
  BY <1>1, BareTyped
<1> DEFINE b == Bare(<<"#", "}", "root", "x">>)
<1> HIDE DEF b
<1>3. b \in LineType
  BY <1>2 DEF b
<1>4. line \o b \in LineType
  BY <1>3, ConcatProperties DEF LineType
<1> QED
  BY <1>4 DEF Remarked, b

\* A line of few words.
LEMMA ShortLines ==
  /\ Bare(<<"}">>) \in LineType /\ Bare(<<"server", "{">>) \in LineType
  /\ \A words \in Seq(STRING) : Bare(words \o <<"{">>) \in LineType
<1>1. /\ "}" \in Word /\ "{" \in Word /\ "server" \in Word /\ STRING \subseteq Word
  BY DEF Word
<1>2. <<"}">> \in Seq(Word) /\ <<"{">> \in Seq(Word) /\ <<"server", "{">> \in Seq(Word)
  BY <1>1, Tuples
<1>3. ASSUME NEW words \in Seq(STRING)
      PROVE  words \o <<"{">> \in Seq(Word)
  BY <1>1, <1>2, SeqInto, ConcatProperties
<1> QED
  BY <1>2, <1>3, BareTyped

\* The lines of an item.
LEMMA ItemLinesTyped ==
  ASSUME NEW item \in ItemType, NEW layout
  PROVE  ItemLines(item, layout) \in Seq(LineType)
<1> DEFINE body == item.body
           n == Len(body)
           first == Remarked(Bare(item.words \o <<"{">>), layout)
           others == [k \in DOMAIN body |-> Remarked(Written(body[k], layout), layout)]
           plain == Remarked(Written(item.words, layout), layout)
<1>1. item.words \in Seq(STRING) /\ body \in Seq(Seq(STRING))
  BY DEF ItemType
<1>2. n \in Nat /\ DOMAIN body = 1..n /\ \A k \in 1..n : body[k] \in Seq(STRING)
  BY <1>1, LenProperties, ElementOfSeq
<1>3. \A words \in Seq(STRING) : words \in Seq(Word)
  BY SeqInto DEF Word
<1>4. first \in LineType /\ plain \in LineType /\ Bare(<<"}">>) \in LineType
  BY <1>1, <1>3, ShortLines, RemarkedTyped, WrittenTyped
<1>5. others \in Seq(LineType)
  <2>1. \A k \in 1..n : Remarked(Written(body[k], layout), layout) \in LineType
    BY <1>2, <1>3, RemarkedTyped, WrittenTyped
  <2> HIDE DEF n
  <2>2. others \in [1..n -> LineType]
    BY <1>2, <2>1
  <2> QED
    BY <1>2, <2>2, MadeSeq
<1> DEFINE end == Bare(<<"}">>)
<1> HIDE DEF first, others, plain, end, body, n
<1>6. <<first>> \in Seq(LineType) /\ <<end>> \in Seq(LineType) /\ <<plain>> \in Seq(LineType)
  BY <1>4, Tuples DEF end
<1>7. (<<first>> \o others) \o <<end>> \in Seq(LineType)
  BY <1>5, <1>6, ConcatProperties
<1> QED
  BY <1>6, <1>7 DEF ItemLines, first, others, plain, end, body

\* The lines of a server, and of a file.
LEMMA FileLinesTyped ==
  ASSUME NEW servers \in Seq(Seq(ItemType)), NEW layout
  PROVE  /\ \A s \in DOMAIN servers : ServerLines(servers[s], layout) \in Seq(LineType)
         /\ FileLines(servers, layout) \in Seq(LineType)
<1>1. /\ Len(servers) \in Nat /\ DOMAIN servers = 1..Len(servers)
      /\ \A s \in 1..Len(servers) : servers[s] \in Seq(ItemType)
  BY LenProperties, ElementOfSeq
<1>2. ASSUME NEW server \in Seq(ItemType)
      PROVE  ServerLines(server, layout) \in Seq(LineType)
  <2> DEFINE n == Len(server)
             parts == [k \in DOMAIN server |-> ItemLines(server[k], layout)]
             first == Bare(<<"server", "{">>)
             end == Bare(<<"}">>)
  <2>1. n \in Nat /\ DOMAIN server = 1..n /\ \A k \in 1..n : server[k] \in ItemType
    BY LenProperties, ElementOfSeq
  <2>2. \A k \in 1..n : ItemLines(server[k], layout) \in Seq(LineType)
    BY <2>1, ItemLinesTyped
  <2>3. first \in LineType /\ end \in LineType
    BY ShortLines
  <2> HIDE DEF n
  <2>4. parts \in [1..n -> Seq(LineType)]
    BY <2>1, <2>2
  <2>5. parts \in Seq(Seq(LineType))
    BY <2>1, <2>4, MadeSeq
  <2> HIDE DEF parts, first, end
  <2>6. FlattenSeq(parts) \in Seq(LineType)
    BY <2>5, FlattenFacts
  <2>7. <<first>> \in Seq(LineType) /\ <<end>> \in Seq(LineType)
    BY <2>3
  <2>8. (<<first>> \o FlattenSeq(parts)) \o <<end>> \in Seq(LineType)
    BY <2>6, <2>7, ConcatProperties
  <2> QED
    BY <2>8 DEF ServerLines, parts, first, end
<1> DEFINE n == Len(servers)
           parts == [k \in DOMAIN servers |-> ServerLines(servers[k], layout)]
<1>3. \A k \in 1..n : ServerLines(servers[k], layout) \in Seq(LineType)
  BY <1>1, <1>2
<1>4. n \in Nat /\ DOMAIN servers = 1..n
  BY <1>1
<1> HIDE DEF n
<1>5. parts \in [1..n -> Seq(LineType)]
  BY <1>3, <1>4
<1>6. parts \in Seq(Seq(LineType))
  BY <1>4, <1>5, MadeSeq
<1> HIDE DEF parts
<1>7. FlattenSeq(parts) \in Seq(LineType)
  BY <1>6, FlattenFacts
<1> QED
  BY <1>3, <1>4, <1>7 DEF FileLines, parts

\* A beginning of a file is made of lines.
LEMMA BeginningTyped ==
  ASSUME NEW file \in Seq(LineType), NEW some \in Beginnings(file)
  PROVE  some \in Seq(LineType)
<1>1. Len(file) \in Nat /\ \A k \in 1..Len(file) : file[k] \in Seq(WordType)
  BY LenProperties, ElementOfSeq DEF LineType
<1>2. \A k \in 0..Len(file) : SubSeq(file, 1, k) \in Seq(LineType)
  BY <1>1, SubSeqFacts
<1>3. ASSUME NEW k \in 0 .. Len(file) - 1, NEW m \in 1 .. Len(file[k + 1]) - 1
      PROVE  SubSeq(file, 1, k) \o <<SubSeq(file[k + 1], 1, m)>> \in Seq(LineType)
  <2>1. k + 1 \in 1..Len(file) /\ k \in 0..Len(file)
    BY <1>1
  <2> DEFINE l == file[k + 1]
             w == SubSeq(l, 1, m)
  <2>2. l \in Seq(WordType) /\ Len(l) \in Nat
    BY <1>1, <2>1, LenProperties
  <2>3. m \in Nat /\ m >= 1 /\ m <= Len(l)
    BY <2>2
  <2> HIDE DEF l
  <2>4. w \in LineType
    BY <2>2, <2>3, SubSeqFacts DEF LineType
  <2> HIDE DEF w
  <2>5. <<w>> \in Seq(LineType)
    BY <2>4
  <2> QED
    BY <1>2, <2>1, <2>5, ConcatProperties DEF w, l
<1> DEFINE Ragged(k) == {SubSeq(file, 1, k) \o <<SubSeq(file[k + 1], 1, m)>> :
                           m \in 1 .. Len(file[k + 1]) - 1}
<1>4. \A k \in 0 .. Len(file) - 1 : \A b \in Ragged(k) : b \in Seq(LineType)
  BY <1>3
<1>5. \/ \E k \in 0..Len(file) : some = SubSeq(file, 1, k)
      \/ \E k \in 0 .. Len(file) - 1 : some \in Ragged(k)
  BY DEF Beginnings
<1> HIDE DEF Ragged
<1> QED
  BY <1>2, <1>4, <1>5

\* The tokens of a line, and of a file.
LEMMA TokensOfTyped ==
  ASSUME NEW line \in LineType
  PROVE  TokensOf(line) \in Seq(Word)
<1> DEFINE remark == {k \in DOMAIN line : line[k].text = "#"}
           m == Min(remark \cup {Len(line) + 1})
           words == SubSeq(line, 1, m - 1)
           n == Len(words)
           parts == [k \in DOMAIN words |->
                       IF words[k].ends THEN <<words[k].text, ";">> ELSE <<words[k].text>>]
<1>1. Len(line) \in Nat /\ DOMAIN line = 1..Len(line) /\ line \in Seq(WordType)
  BY LenProperties DEF LineType
<1>2. m \in 1..(Len(line) + 1)
  <2> DEFINE C == remark \cup {Len(line) + 1}
  <2>1. C \in SUBSET Nat /\ C # {} /\ \A k \in C : k \in 1..(Len(line) + 1)
    BY <1>1
  <2> HIDE DEF C
  <2>2. Min(C) \in C
    BY <2>1, MinFacts
  <2> QED
    BY <2>1, <2>2 DEF C
<1> HIDE DEF m
<1>3. words \in Seq(WordType)
  BY <1>1, <1>2, SubSeqFacts
<1> HIDE DEF words
<1>4. n \in Nat /\ DOMAIN words = 1..n /\ \A k \in 1..n : words[k] \in WordType
  BY <1>3, LenProperties, ElementOfSeq
<1>5. ASSUME NEW w \in WordType
      PROVE  (IF w.ends THEN <<w.text, ";">> ELSE <<w.text>>) \in Seq(Word)
  <2>1. w.text \in Word /\ ";" \in Word
    BY DEF WordType, Word
  <2> DEFINE t == w.text
             e == ";"
  <2> HIDE DEF t, e
  <2>2. t \in Word /\ e \in Word
    BY <2>1 DEF t, e
  <2>3. <<t, e>> \in Seq(Word) /\ <<t>> \in Seq(Word)
    BY <2>2
  <2> QED
    BY <2>3 DEF t, e
<1> HIDE DEF n
<1>6. parts \in [1..n -> Seq(Word)]
  BY <1>4, <1>5
<1> HIDE DEF parts
<1>7. parts \in Seq(Seq(Word))
  <2> DEFINE T == Seq(Word)
  <2>1. parts \in [1..n -> T] /\ n \in Nat
    BY <1>4, <1>6
  <2> HIDE DEF T
  <2>2. parts \in Seq(T)
    BY ONLY <2>1, MadeSeq
  <2> QED
    BY <2>2 DEF T
<1>8. FlattenSeq(parts) \in Seq(Word)
  BY <1>7, FlattenFacts
<1> QED
  BY <1>8 DEF TokensOf, parts, words, m

\* All tokens of a file.
TokensIn(file) == FlattenSeq([n \in DOMAIN file |-> TokensOf(file[n])])

\* They are words.
LEMMA TokensTyped ==
  ASSUME NEW file \in Seq(LineType)
  PROVE  /\ [k \in DOMAIN file |-> TokensOf(file[k])] \in Seq(Seq(Word))
         /\ TokensIn(file) \in Seq(Word)
<1> DEFINE n == Len(file)
           parts == [k \in DOMAIN file |-> TokensOf(file[k])]
<1>1. n \in Nat /\ DOMAIN file = 1..n /\ \A k \in 1..n : file[k] \in LineType
  BY LenProperties, ElementOfSeq
<1>2. \A k \in 1..n : TokensOf(file[k]) \in Seq(Word)
  BY <1>1, TokensOfTyped
<1> HIDE DEF n
<1>3. parts \in [1..n -> Seq(Word)]
  BY <1>1, <1>2
<1>4. parts \in Seq(Seq(Word))
  BY <1>1, <1>3, MadeSeq
<1>5. FlattenSeq(parts) \in Seq(Word)
  BY <1>4, FlattenFacts
<1> QED
  BY <1>4, <1>5 DEF TokensIn

----------------------------------------------------------------------------
(* How far a branch of the parser looks.                                   *)

Directives == {"root", "index", "upload_store", "methods", "error_page", "cgi", "return",
               "autoindex"}

\* The first stop behind the current token.
LEMMA FirstBehindFacts ==
  ASSUME tokens \in Seq(Word), i \in Nat \ {0}, i <= Len(tokens), NEW stops
  PROVE  LET f == FirstBehind(stops) IN
         /\ f \in i + 1 .. Len(tokens) + 1
         /\ f <= Len(tokens) => tokens[f] \in stops
         /\ \A j \in i + 1 .. f - 1 : tokens[j] \notin stops
<1> DEFINE n == Len(tokens)
           C == {j \in i + 1 .. n : tokens[j] \in stops} \cup {n + 1}
           f == Min(C)
<1>1. n \in Nat
  BY LenProperties
<1>2. C \in SUBSET Nat /\ C # {} /\ \A j \in C : j \in i + 1 .. n + 1
  BY <1>1
<1>3. f \in C /\ \A j \in C : f <= j
  <2> HIDE DEF C
  <2> QED
    BY <1>2, MinFacts
<1>4. \A j \in i + 1 .. n : tokens[j] \in stops => j \in C
  OBVIOUS
<1>5. f <= n => tokens[f] \in stops
  BY <1>1, <1>3
<1> HIDE DEF C
<1>6. f = FirstBehind(stops)
  BY DEF FirstBehind, C
<1> HIDE DEF f
<1>7. ASSUME NEW j \in i + 1 .. f - 1
      PROVE  tokens[j] \notin stops
  <2>1. f \in Nat /\ f <= n + 1
    BY <1>1, <1>2, <1>3
  <2>2. j \in i + 1 .. n /\ ~(f <= j)
    BY <1>1, <2>1
  <2> QED
    BY <1>3, <1>4, <2>2
<1>8. f \in i + 1 .. n + 1
  BY <1>2, <1>3
<1> QED
  BY <1>5, <1>6, <1>7, <1>8

\* How far each branch looks.
LEMMA ReachIs ==
  /\ Branch \in {"", "}"} => Reach = i
  /\ Branch = "server" => Reach = i + 0
  /\ Branch \in {"autoindex", "listen", "location", "root", "upload_store"} => Reach = i + 1
  /\ Branch \in {"error_page", "cgi", "return"} => Reach = i + 2
  /\ Branch = "index" => Reach = FirstBehind({";"})
  /\ Branch = "methods" => Reach = FirstBehind(Range(tokens) \ Methods)
<1> DEFINE arguments == [server |-> 0, autoindex |-> 1, listen |-> 1, location |-> 1,
                         error_page |-> 2, root |-> 1, upload_store |-> 1, cgi |-> 2]
<1>1. /\ arguments["server"] = 0 /\ arguments["autoindex"] = 1 /\ arguments["listen"] = 1
      /\ arguments["location"] = 1 /\ arguments["error_page"] = 2 /\ arguments["root"] = 1
      /\ arguments["upload_store"] = 1 /\ arguments["cgi"] = 2
  OBVIOUS
<1>2. Reach = IF Branch \in {"", "}"} THEN i
              ELSE IF Branch = "index" THEN FirstBehind({";"})
              ELSE IF Branch = "methods" THEN FirstBehind(Range(tokens) \ Methods)
              ELSE IF Branch = "return" THEN i + 2
              ELSE i + arguments[Branch]
  BY DEF Reach
<1> DEFINE b == Branch
<1> HIDE DEF arguments, b
<1>3. /\ b \in {"", "}"} => Reach = i
      /\ b = "server" => Reach = i + 0
      /\ b \in {"autoindex", "listen", "location", "root", "upload_store"} => Reach = i + 1
      /\ b \in {"error_page", "cgi", "return"} => Reach = i + 2
      /\ b = "index" => Reach = FirstBehind({";"})
      /\ b = "methods" => Reach = FirstBehind(Range(tokens) \ Methods)
  BY <1>1, <1>2 DEF b
<1> QED
  BY <1>3 DEF b

\* What a branch that is taken finds.
LEMMA BranchFinds ==
  ASSUME tokens \in Seq(Word), i \in Nat \ {0}, NEW branch, Takes(branch)
  PROVE  /\ branch \in {"autoindex", "listen", "location", "root", "upload_store"} =>
              tokens[i + 1] \in Word
         /\ branch \in {"error_page", "cgi", "return"} =>
              tokens[i + 1] \in Word /\ tokens[i + 2] \in Word
         /\ branch \in {"index", "methods"} =>
              SubSeq(tokens, i + 1, Reach - 1) \in Seq(Word)
         /\ branch = "methods" =>
              SubSeq(tokens, i + 1, Reach - 1) \in Seq(Methods)
         /\ branch \in Directives \cup {"location"} => Reach \in Nat /\ Reach >= i
<1>1. Branch = branch /\ Reach <= Len(tokens) /\ i <= Len(tokens)
  BY DEF Takes, Parsing
<1>2. Len(tokens) \in Nat /\ \A j \in 1..Len(tokens) : tokens[j] \in Word
  BY LenProperties, ElementOfSeq
<1>3. branch \in {"autoindex", "listen", "location", "root", "upload_store"} =>
        tokens[i + 1] \in Word /\ Reach = i + 1
  <2> SUFFICES ASSUME branch \in {"autoindex", "listen", "location", "root", "upload_store"}
               PROVE  tokens[i + 1] \in Word /\ Reach = i + 1
    OBVIOUS
  <2>1. Reach = i + 1
    BY <1>1, ReachIs
  <2> QED
    BY <1>1, <1>2, <2>1
<1>4. branch \in {"error_page", "cgi", "return"} =>
        tokens[i + 1] \in Word /\ tokens[i + 2] \in Word /\ Reach = i + 2
  <2> SUFFICES ASSUME branch \in {"error_page", "cgi", "return"}
               PROVE  tokens[i + 1] \in Word /\ tokens[i + 2] \in Word /\ Reach = i + 2
    OBVIOUS
  <2>1. Reach = i + 2
    BY <1>1, ReachIs
  <2> QED
    BY <1>1, <1>2, <2>1
<1>5. ASSUME branch \in {"index", "methods"}
      PROVE  /\ Reach \in i + 1 .. Len(tokens)
             /\ SubSeq(tokens, i + 1, Reach - 1) \in Seq(Word)
             /\ branch = "methods" => SubSeq(tokens, i + 1, Reach - 1) \in Seq(Methods)
  <2>1. PICK stops : /\ Reach = FirstBehind(stops)
                     /\ branch = "methods" => stops = Range(tokens) \ Methods
    BY <1>1, <1>5, ReachIs
  <2>2. /\ Reach \in i + 1 .. Len(tokens) + 1
        /\ \A j \in i + 1 .. Reach - 1 : tokens[j] \notin stops
    BY <1>1, <2>1, FirstBehindFacts
  <2> DEFINE r == Reach - 1
             list == SubSeq(tokens, i + 1, r)
  <2>3. Reach \in i + 1 .. Len(tokens) /\ r \in Nat /\ i <= r /\ r < Len(tokens)
    BY <1>1, <1>2, <2>2
  <2>4. /\ list \in Seq(Word) /\ Len(list) = r - i
        /\ \A k \in 1..(r - i) : list[k] = tokens[i + k]
    <3>1. /\ list \in Seq(Word) /\ Len(list) = IF i + 1 <= r THEN r - (i + 1) + 1 ELSE 0
          /\ \A k \in 1..(r - (i + 1) + 1) : list[k] = tokens[(i + 1) + k - 1]
      <4> HIDE DEF r
      <4> QED
        BY <1>2, <2>3, SubSeqFacts
    <3> HIDE DEF list, r
    <3> QED
      BY <2>3, <3>1
  <2>5. ASSUME branch = "methods"
        PROVE  list \in Seq(Methods)
    <3>1. ASSUME NEW k \in 1..(r - i)
          PROVE  list[k] \in Methods
      <4>1. i + k \in i + 1 .. Reach - 1 /\ i + k \in 1..Len(tokens)
        BY <1>2, <2>3, <3>1
      <4>2. tokens[i + k] \in Range(tokens)
        BY <4>1, LenProperties DEF Range
      <4> QED
        BY <2>1, <2>2, <2>4, <2>5, <4>1, <4>2
    <3> HIDE DEF list, r
    <3>2. list \in [1..(r - i) -> Methods] /\ r - i \in Nat
      BY <2>3, <2>4, <3>1, LenProperties
    <3> QED
      BY <3>2, MadeSeq
  <2> QED
    BY <2>3, <2>4, <2>5
<1>6. branch \in Directives \cup {"location"} =>
        \/ branch \in {"autoindex", "location", "root", "upload_store"}
        \/ branch \in {"error_page", "cgi", "return"}
        \/ branch \in {"index", "methods"}
  BY DEF Directives
<1> QED
  BY <1>2, <1>3, <1>4, <1>5, <1>6

\* What a setter leaves is a location.
LEMMA SetTyped ==
  ASSUME tokens \in Seq(Word), i \in Nat \ {0}, currLocation \in LocationSet,
         NEW branch \in Directives, Takes(branch)
  PROVE  Set(branch) \in LocationSet
<1> DEFINE first == tokens[i + 1]
           second == tokens[i + 2]
           list == SubSeq(tokens, i + 1, Reach - 1)
           L == currLocation
<1>1. \A w \in Word : NumberOf[w] \in Numbers
  BY DEF Numbers
<1>2. /\ L.index \in Seq(Word) /\ L.methods \in Seq(Methods) /\ L.cgi \in KeyedBy(Word)
      /\ L.errors \in KeyedBy(Numbers) /\ L.autoindex \in BOOLEAN
  BY DEF LocationSet
<1>3. CASE branch = "root"
  <2>1. first \in Word
    BY <1>3, BranchFinds
  <2>2. [L EXCEPT !.root = first] \in LocationSet
    BY <2>1, ZenonT(60) DEF LocationSet
  <2> QED
    BY <1>3, <2>2 DEF Set
<1>4. CASE branch = "upload_store"
  <2>1. first \in Word
    BY <1>4, BranchFinds
  <2>2. [L EXCEPT !.upload_store = first] \in LocationSet
    BY <2>1, ZenonT(60) DEF LocationSet
  <2> QED
    BY <1>4, <2>2 DEF Set
<1>5. CASE branch = "index"
  <2>1. L.index \o list \in Seq(Word)
    BY <1>2, <1>5, BranchFinds, ConcatProperties
  <2>2. [L EXCEPT !.index = @ \o list] \in LocationSet
    BY <2>1, ZenonT(60) DEF LocationSet
  <2> QED
    BY <1>5, <2>2 DEF Set
<1>6. CASE branch = "methods"
  <2>1. L.methods \o list \in Seq(Methods)
    BY <1>2, <1>6, BranchFinds, ConcatProperties
  <2>2. [L EXCEPT !.methods = @ \o list] \in LocationSet
    BY <2>1, ZenonT(60) DEF LocationSet
  <2> QED
    BY <1>6, <2>2 DEF Set
<1>7. CASE branch = "error_page"
  <2>1. first \in Word /\ second \in Word
    BY <1>7, BranchFinds
  <2>2. Insert(L.errors, NumberOf[first], second) \in KeyedBy(Numbers)
    BY <1>1, <1>2, <2>1, Inserted
  <2>3. [L EXCEPT !.errors = Insert(@, NumberOf[first], second)] \in LocationSet
    BY <2>2, ZenonT(60) DEF LocationSet
  <2> QED
    BY <1>7, <2>3 DEF Set
<1>8. CASE branch = "cgi"
  <2>1. first \in Word /\ second \in Word
    BY <1>8, BranchFinds
  <2>2. Insert(L.cgi, first, second) \in KeyedBy(Word)
    BY <1>2, <2>1, Inserted
  <2>3. [L EXCEPT !.cgi = Insert(@, first, second)] \in LocationSet
    BY <2>2, ZenonT(60) DEF LocationSet
  <2> QED
    BY <1>8, <2>3 DEF Set
<1>9. CASE branch = "return"
  <2>1. first \in Word /\ second \in Word
    BY <1>9, BranchFinds
  <2>2. <<NumberOf[first], second>> \in Numbers \X Word
    BY <1>1, <2>1
  <2>3. [L EXCEPT !.redir = <<NumberOf[first], second>>, !.isRedirection = TRUE] \in LocationSet
    BY <2>2, ZenonT(60) DEF LocationSet
  <2> QED
    BY <1>9, <2>3 DEF Set
<1>10. CASE branch = "autoindex"
  <2>1. (L.autoindex \/ first = "on") \in BOOLEAN
    OBVIOUS
  <2>2. [L EXCEPT !.autoindex = @ \/ first = "on"] \in LocationSet
    BY <2>1, ZenonT(60) DEF LocationSet
  <2> QED
    BY <1>10, <2>2 DEF Set
<1> QED
  BY <1>3, <1>4, <1>5, <1>6, <1>7, <1>8, <1>9, <1>10 DEF Directives

----------------------------------------------------------------------------
(* The listen directives of all servers.                                   *)

EntriesOf(s) ==
  [l \in DOMAIN config[s].listens |-> [server |-> s, said |-> config[s].listens[l]]]
ListenEntry == [server : 1..Len(config), said : Addresses]

\* The n-th listen directive is one of server s when n is behind those of the
\* servers before, and not behind its own.
Counted(off) ==
  /\ off \in [0..Len(config) -> Nat]
  /\ \A s \in 1..Len(config) :
       /\ off[s] = off[s - 1] + Len(config[s].listens)
       /\ off[s] <= Len(Listens)
       /\ \A n \in 1..Len(Listens) : Listens[n].server = s <=> n \in off[s - 1] + 1 .. off[s]

\* Every server has its own stretch of them.
LEMMA ListensFacts ==
  ASSUME config \in Seq(ServerSet)
  PROVE  /\ Listens \in Seq(ListenEntry) /\ Len(Listens) \in Nat
         /\ \A n \in 1..Len(Listens) : Listens[n].server \in 1..Len(config)
         /\ \E off : Counted(off)
<1> DEFINE m == Len(config)
           parts == [s \in DOMAIN config |-> EntriesOf(s)]
<1>1. m \in Nat /\ DOMAIN config = 1..m /\ \A s \in 1..m : config[s] \in ServerSet
  BY LenProperties, ElementOfSeq
<1>2. ASSUME NEW s \in 1..m
      PROVE  /\ EntriesOf(s) \in Seq(ListenEntry) /\ Len(EntriesOf(s)) = Len(config[s].listens)
             /\ Len(EntriesOf(s)) \in Nat
             /\ \A l \in 1..Len(EntriesOf(s)) : EntriesOf(s)[l].server = s
  <2> DEFINE t == config[s].listens
             n == Len(t)
             e == [l \in 1..n |-> [server |-> s, said |-> t[l]]]
  <2>1. t \in Seq(Addresses)
    BY <1>1 DEF ServerSet
  <2>2. n \in Nat /\ DOMAIN t = 1..n /\ \A l \in 1..n : t[l] \in Addresses
    BY <2>1, LenProperties, ElementOfSeq
  <2>3. EntriesOf(s) = e
    BY <2>2 DEF EntriesOf
  <2> HIDE DEF n
  <2>4. \A l \in 1..n : [server |-> s, said |-> t[l]] \in ListenEntry
    BY <2>2 DEF ListenEntry
  <2>5. e \in [1..n -> ListenEntry]
    BY <2>4
  <2>6. e \in Seq(ListenEntry) /\ Len(e) = n
    <3> HIDE DEF e
    <3>1. e \in Seq(ListenEntry)
      BY <2>2, <2>5, MadeSeq
    <3> QED
      BY <2>2, <2>5, <3>1, LenProperties
  <2>7. \A l \in 1..n : e[l].server = s
    OBVIOUS
  <2> QED
    BY <2>2, <2>3, <2>6, <2>7 DEF n
<1>3. parts \in Seq(Seq(ListenEntry)) /\ Len(parts) = m /\ \A s \in 1..m : parts[s] = EntriesOf(s)
  <2> HIDE DEF m
  <2>1. parts \in [1..m -> Seq(ListenEntry)]
    BY <1>1, <1>2
  <2>2. parts \in Seq(Seq(ListenEntry))
    BY <1>1, <2>1, MadeSeq
  <2>3. \A s \in 1..m : parts[s] = EntriesOf(s)
    BY <1>1
  <2> HIDE DEF parts
  <2> QED
    BY <1>1, <2>1, <2>2, <2>3, LenProperties
<1>4. Listens = FlattenSeq(parts)
  BY DEF Listens, EntriesOf
<1> HIDE DEF parts, m
<1>5. FlatPlaces(parts) /\ FlattenSeq(parts) \in Seq(ListenEntry)
  BY <1>3, FlatParts, FlattenFacts
<1> DEFINE off == [s \in 0..m |-> Reached(parts, s)]
           N == Len(Listens)
<1>6. /\ N \in Nat /\ off[0] = 0 /\ \A s \in 0..m : off[s] \in Nat /\ off[s] <= N
      /\ \A s \in 1..m : /\ off[s] = off[s - 1] + Len(parts[s])
                         /\ \A l \in 1..Len(parts[s]) : Listens[off[s - 1] + l] = parts[s][l]
      /\ \A n \in 1..N : \E s \in 1..m : n \in off[s - 1] + 1 .. off[s]
  <2>1. \A s \in 1..m : s \in 0..m /\ s - 1 \in 0..m
    BY <1>1 DEF m
  <2>2. \A s \in 0..m : off[s] = Reached(parts, s)
    OBVIOUS
  <2>3. 0 \in 0..m
    BY <1>1 DEF m
  <2> HIDE DEF off
  <2>4. N = Len(FlattenSeq(parts)) /\ N \in Nat
    BY <1>4, <1>5, LenProperties
  <2>5. /\ Reached(parts, 0) = 0
        /\ \A s \in 0..m : Reached(parts, s) \in Nat /\ Reached(parts, s) <= N
        /\ \A s \in 1..m :
             /\ Reached(parts, s) = Reached(parts, s - 1) + Len(parts[s])
             /\ \A l \in 1..Len(parts[s]) : Listens[Reached(parts, s - 1) + l] = parts[s][l]
        /\ \A n \in 1..N :
             \E s \in 1..m : n \in Reached(parts, s - 1) + 1 .. Reached(parts, s)
    BY <1>3, <1>4, <1>5, <2>4 DEF FlatPlaces
  <2> QED
    BY <2>1, <2>2, <2>3, <2>4, <2>5
<1>7. off \in [0..m -> Nat]
  BY <1>6
<1> HIDE DEF off
<1>8. ASSUME NEW s \in 1..m, NEW n \in off[s - 1] + 1 .. off[s]
      PROVE  n \in 1..N => Listens[n].server = s
  <2> DEFINE l == n - off[s - 1]
  <2>1. off[s - 1] \in Nat /\ off[s] = off[s - 1] + Len(parts[s]) /\ Len(parts[s]) \in Nat
    <3>1. s - 1 \in 0..m
      BY <1>1 DEF m
    <3> QED
      BY <1>2, <1>3, <1>6, <3>1
  <2>2. l \in 1..Len(parts[s]) /\ n = off[s - 1] + l
    BY <2>1
  <2> HIDE DEF l
  <2>3. Listens[n] = parts[s][l] /\ parts[s] = EntriesOf(s)
    BY <1>3, <1>6, <2>2
  <2> QED
    BY <1>2, <2>2, <2>3
<1>9. ASSUME NEW s \in 1..m, NEW n \in 1..N
      PROVE  Listens[n].server = s <=> n \in off[s - 1] + 1 .. off[s]
  <2>1. PICK k \in 1..m : n \in off[k - 1] + 1 .. off[k]
    BY <1>6
  <2>2. Listens[n].server = k
    BY <1>8, <2>1
  <2> QED
    BY <1>8, <2>1, <2>2
<1>10. Counted(off)
  <2>1. \A s \in 1..m : Len(parts[s]) = Len(config[s].listens) /\ off[s] <= N
    BY <1>1, <1>2, <1>3, <1>6
  <2> QED
    BY <1>6, <1>7, <1>9, <2>1 DEF Counted, m
<1>11. Listens \in Seq(ListenEntry)
  BY <1>4, <1>5
<1>12. \A n \in 1..N : Listens[n].server \in 1..m
  <2>1. \A n \in 1..N : Listens[n] \in ListenEntry
    <3> HIDE DEF ListenEntry
    <3> QED
      BY <1>11, ElementOfSeq
  <2> QED
    BY <2>1 DEF ListenEntry, m
<1> QED
  BY <1>6, <1>10, <1>11, <1>12 DEF m

----------------------------------------------------------------------------
(* The inductive invariant.                                                *)

TypeInv ==
  /\ source \in Seq(Seq(ItemType)) /\ lines \in Seq(LineType) /\ tokens \in Seq(Word)
  /\ i \in Nat \ {0} /\ nextListen \in Nat \ {0}
  /\ phase \in {"reading", "parsing", "binding", "running", "failed", "undefined"}
  /\ inServer \in BOOLEAN /\ inLocation \in BOOLEAN /\ (inLocation => inServer)
  /\ currLocation \in LocationSet /\ currServer \in ServerSet /\ config \in Seq(ServerSet)

\* The listens so far have one number each, in their order.
BindInv ==
  /\ nextListen <= Len(Listens) + 1
  /\ DOMAIN servers_fd = FirstFd .. FirstFd + nextListen - 2
  /\ DOMAIN bound = DOMAIN servers_fd
  /\ \A n \in 1 .. nextListen - 1 :
       /\ FirstFd + n - 1 <= LastFd
       /\ servers_fd[FirstFd + n - 1] = Listens[n].server
       /\ bound[FirstFd + n - 1] = Sockaddr(Listens[n].said)
  /\ phase \in {"reading", "parsing"} => nextListen = 1
  /\ phase = "running" => nextListen > Len(Listens)

IInv == TypeInv /\ BindInv

\* The program starts with it.
LEMMA StartsTyped == Init => IInv
<1> SUFFICES ASSUME Init PROVE IInv
  OBVIOUS
<1>1. source \in Seq(Seq(ItemType))
  BY SourceAssumption DEF Init
<1>2. lines \in Seq(LineType)
  <2>1. PICK layout \in Layouts, cut \in Cuts :
          lines \in IF cut THEN Beginnings(FileLines(source, layout))
                    ELSE {FileLines(source, layout)}
    BY DEF Init
  <2>2. FileLines(source, layout) \in Seq(LineType)
    BY <1>1, FileLinesTyped
  <2> QED
    BY <2>1, <2>2, BeginningTyped
<1>3. <<>> \in Seq(Word) /\ <<>> \in Seq(ServerSet) /\ currServer \in ServerSet
      /\ currLocation \in LocationSet
  <2>1. \A S : <<>> \in Seq(S)
    BY EmptySeq
  <2>2. "" \in Word
    BY DEF Word
  <2>3. NoLocation \in LocationSet
    BY <2>2, NewLocationTyped
  <2>4. NewServer \in ServerSet
    BY <2>1 DEF NewServer, ServerSet
  <2> QED
    BY <2>1, <2>3, <2>4 DEF Init
<1>4. TypeInv
  <2>1. /\ tokens = <<>> /\ i = 1 /\ nextListen = 1 /\ config = <<>> /\ phase = "reading"
        /\ inServer = FALSE /\ inLocation = FALSE
    BY DEF Init
  <2>2. i \in Nat \ {0} /\ nextListen \in Nat \ {0}
    BY <2>1
  <2> QED
    BY <1>1, <1>2, <1>3, <2>1, <2>2 DEF TypeInv
<1>5. BindInv
  <2>1. Len(Listens) \in Nat
    BY <1>4, ListensFacts DEF TypeInv
  <2>2. nextListen = 1 /\ phase = "reading" /\ DOMAIN servers_fd = {} /\ DOMAIN bound = {}
    BY DEF Init
  <2>3. FirstFd .. FirstFd + nextListen - 2 = {} /\ 1 .. nextListen - 1 = {}
    BY <2>2, FdAssumption
  <2> QED
    BY <2>1, <2>2, <2>3 DEF BindInv
<1> QED
  BY <1>4, <1>5 DEF IInv

\* While nothing is bound the parser may add servers.
LEMMA Unbound ==
  ASSUME IInv, TypeInv', UNCHANGED socketVars, phase = "parsing",
         phase' \in {"parsing", "binding", "undefined"}
  PROVE  BindInv'
<1>1. nextListen = 1 /\ nextListen' = 1 /\ DOMAIN servers_fd' = FirstFd .. FirstFd + nextListen' - 2
      /\ DOMAIN bound' = DOMAIN servers_fd'
  BY DEF IInv, BindInv, socketVars
<1>2. Len(Listens)' \in Nat
  <2>1. config' \in Seq(ServerSet)
    BY DEF TypeInv
  <2>2. config \in Seq(ServerSet) => Len(Listens) \in Nat
    BY ListensFacts
  <2>3. (config \in Seq(ServerSet) => Len(Listens) \in Nat)'
    BY ListensFacts
  <2> QED
    BY <2>1, <2>3
<1>3. 1 .. nextListen' - 1 = {}
  BY <1>1
<1> QED
  BY <1>1, <1>2, <1>3 DEF BindInv

\* One turn of the parser.
ParserStep ==
  \/ ServerBegins \/ Listen \/ LocationBegins
  \/ \E branch \in Directives : Directive(branch)
  \/ LocationEnds \/ ServerEnds \/ Ignored \/ Overrun \/ ParserReturns

\* It keeps the types.
LEMMA ParserTyped == TypeInv /\ ParserStep => TypeInv'
<1> SUFFICES ASSUME TypeInv, ParserStep PROVE TypeInv'
  OBVIOUS
<1>1. tokens \in Seq(Word) /\ i \in Nat \ {0}
  BY DEF TypeInv
<1>2. i + 2 \in Nat \ {0} /\ i + 1 \in Nat \ {0} /\ i + 3 \in Nat \ {0}
  BY <1>1
<1>3. CASE ServerBegins
  <2>1. NewServer \in ServerSet
    BY EmptySeq DEF NewServer, ServerSet
  <2> QED
    BY <1>2, <1>3, <2>1 DEF ServerBegins, TypeInv, fileVars, socketVars
<1>4. CASE Listen
  <2>1. tokens[i + 1] \in Word
    BY <1>1, <1>4, BranchFinds DEF Listen
  <2> DEFINE address == Address(tokens[i + 1])
  <2>2. address \in Addresses
    BY <2>1 DEF Addresses
  <2> HIDE DEF address
  <2>3. currServer.listens \in Seq(Addresses)
    BY DEF TypeInv, ServerSet
  <2>4. Append(currServer.listens, address) \in Seq(Addresses)
    BY <2>2, <2>3, AppendProperties
  <2>5. [currServer EXCEPT !.listens = Append(@, address)] \in ServerSet
    BY <2>4, ZenonT(60) DEF TypeInv, ServerSet
  <2>6. currServer' \in ServerSet /\ i' \in Nat \ {0}
    BY <1>2, <1>4, <2>5 DEF Listen, BehindListen, address
  <2> QED
    BY <1>4, <2>6 DEF Listen, TypeInv, fileVars, socketVars
<1>5. CASE LocationBegins
  <2>1. tokens[i + 1] \in Word /\ Reach \in Nat /\ Reach >= i /\ inServer
    <3>1. Takes("location")
      BY <1>5 DEF LocationBegins
    <3>2. tokens[i + 1] \in Word /\ Reach \in Nat /\ Reach >= i
      BY <1>1, <3>1, BranchFinds
    <3>3. inServer
      BY <3>1 DEF Takes, Branch
    <3> QED
      BY <3>2, <3>3
  <2>2. currLocation' \in LocationSet /\ i' \in Nat \ {0}
    BY <1>1, <1>5, <2>1, NewLocationTyped DEF LocationBegins
  <2> QED
    BY <1>5, <2>1, <2>2 DEF LocationBegins, TypeInv, fileVars, socketVars
<1>6. ASSUME NEW branch \in Directives, Directive(branch)
      PROVE  TypeInv'
  <2>1. Set(branch) \in LocationSet /\ Reach \in Nat /\ Reach >= i
    <3>1. Takes(branch) /\ currLocation \in LocationSet
      BY <1>6 DEF Directive, TypeInv
    <3>2. Set(branch) \in LocationSet
      BY <1>1, <3>1, SetTyped
    <3>3. Reach \in Nat /\ Reach >= i
      BY <1>1, <3>1, BranchFinds
    <3> QED
      BY <3>2, <3>3
  <2>2. currLocation' \in LocationSet /\ i' \in Nat \ {0}
    BY <1>1, <1>6, <2>1 DEF Directive
  <2> QED
    BY <1>6, <2>2 DEF Directive, TypeInv, fileVars, socketVars
<1>7. CASE LocationEnds
  <2>1. currServer.locations \in Seq(LocationSet) /\ currLocation \in LocationSet
    BY DEF TypeInv, ServerSet
  <2>2. Append(currServer.locations, currLocation) \in Seq(LocationSet)
    BY <2>1, AppendProperties
  <2>3. [currServer EXCEPT !.locations = Append(@, currLocation)] \in ServerSet
    BY <2>2, ZenonT(60) DEF TypeInv, ServerSet
  <2> QED
    BY <1>2, <1>7, <2>3 DEF LocationEnds, TypeInv, fileVars, socketVars
<1>8. CASE ServerEnds
  <2>1. Append(config, currServer) \in Seq(ServerSet)
    BY AppendProperties DEF TypeInv
  <2> QED
    BY <1>2, <1>8, <2>1 DEF ServerEnds, TypeInv, fileVars, socketVars
<1>9. CASE Ignored
  BY <1>2, <1>9 DEF Ignored, TypeInv, fileVars, parserVars, socketVars
<1>10. CASE Overrun
  BY <1>10 DEF Overrun, TypeInv, fileVars, parserVars, socketVars
<1>11. CASE ParserReturns
  BY <1>11 DEF ParserReturns, TypeInv, fileVars, parserVars, socketVars
<1> QED
  BY <1>3, <1>4, <1>5, <1>6, <1>7, <1>8, <1>9, <1>10, <1>11 DEF ParserStep

\* It touches no socket.
LEMMA ParserFrame ==
  ParserStep => /\ UNCHANGED socketVars /\ UNCHANGED tokens /\ UNCHANGED fileVars
                /\ phase = "parsing" /\ phase' \in {"parsing", "binding", "undefined"}
<1> SUFFICES ASSUME ParserStep
             PROVE  /\ UNCHANGED socketVars /\ UNCHANGED tokens /\ UNCHANGED fileVars
                    /\ phase = "parsing" /\ phase' \in {"parsing", "binding", "undefined"}
  OBVIOUS
<1>1. CASE ServerBegins
  BY <1>1 DEF ServerBegins, Takes, Parsing
<1>2. CASE Listen
  BY <1>2 DEF Listen, Takes, Parsing
<1>3. CASE LocationBegins
  BY <1>3 DEF LocationBegins, Takes, Parsing
<1>4. ASSUME NEW branch \in Directives, Directive(branch)
      PROVE  /\ UNCHANGED socketVars /\ UNCHANGED tokens /\ UNCHANGED fileVars
             /\ phase = "parsing" /\ phase' = phase
  BY <1>4 DEF Directive, Takes, Parsing
<1>5. CASE LocationEnds
  BY <1>5 DEF LocationEnds, Takes, Parsing
<1>6. CASE ServerEnds
  BY <1>6 DEF ServerEnds, Takes, Parsing
<1>7. CASE Ignored
  BY <1>7 DEF Ignored, Takes, Parsing
<1>8. CASE Overrun
  BY <1>8 DEF Overrun, Parsing
<1>9. CASE ParserReturns
  BY <1>9 DEF ParserReturns
<1> QED
  BY <1>1, <1>2, <1>3, <1>4, <1>5, <1>6, <1>7, <1>8, <1>9 DEF ParserStep

\* One more listen directive has its socket.
LEMMA InitServerTyped == IInv /\ InitServer => IInv'
<1> SUFFICES ASSUME IInv, InitServer PROVE IInv'
  OBVIOUS
<1> DEFINE m == nextListen
           fd == FirstFd + m - 1
           this == Listens[m]
<1>1. /\ phase = "binding" /\ m <= Len(Listens) /\ ListenFd <= LastFd
      /\ servers_fd' = [f \in DOMAIN servers_fd \cup {ListenFd} |->
                          IF f = ListenFd THEN Owner(this.server) ELSE servers_fd[f]]
      /\ bound' = [f \in DOMAIN servers_fd \cup {ListenFd} |->
                     IF f = ListenFd THEN Sockaddr(this.said) ELSE bound[f]]
      /\ nextListen' = m + 1
      /\ UNCHANGED <<fileVars, tokens, i, parserVars, phase>>
  BY DEF InitServer, Binding
<1>2. /\ m \in Nat \ {0} /\ FirstFd \in Nat
      /\ DOMAIN servers_fd = FirstFd .. FirstFd + m - 2 /\ DOMAIN bound = DOMAIN servers_fd
  BY FdAssumption DEF IInv, TypeInv, BindInv
<1>3. ListenFd = fd
  <2>1. Cardinality(FirstFd .. FirstFd + m - 2) = m - 1
    <3>1. FirstFd \in Int /\ FirstFd + m - 2 \in Int
      BY <1>2
    <3>2. Cardinality(FirstFd .. FirstFd + m - 2)
            = IF FirstFd > FirstFd + m - 2 THEN 0 ELSE (FirstFd + m - 2) - FirstFd + 1
      BY <3>1, FS_Interval
    <3> QED
      BY <1>2, <3>2
  <2> QED
    BY <1>2, <2>1 DEF ListenFd
<1>4. fd \in Nat /\ fd \notin DOMAIN servers_fd
      /\ DOMAIN servers_fd \cup {fd} = FirstFd .. FirstFd + (m + 1) - 2
  BY <1>2
<1>5. TypeInv'
  BY <1>1, <1>2 DEF IInv, TypeInv, fileVars, parserVars
<1>6. Listens' = Listens
  BY <1>1 DEF Listens, parserVars
<1>7. ASSUME NEW n \in 1 .. nextListen' - 1
      PROVE  /\ FirstFd + n - 1 <= LastFd
             /\ servers_fd'[FirstFd + n - 1] = Listens[n].server
             /\ bound'[FirstFd + n - 1] = Sockaddr(Listens[n].said)
  <2>1. CASE n = m
    <3>1. FirstFd + n - 1 = fd /\ fd \in DOMAIN servers_fd \cup {ListenFd}
      BY <1>3, <2>1
    <3> HIDE DEF fd
    <3> QED
      BY <1>1, <1>3, <2>1, <3>1 DEF Owner
  <2>2. CASE n # m
    <3> DEFINE g == FirstFd + n - 1
    <3>1. n \in 1 .. m - 1
      BY <1>1, <1>2, <2>2
    <3>2. g \in DOMAIN servers_fd /\ g # fd
      BY <1>2, <3>1
    <3>3. g <= LastFd /\ servers_fd[g] = Listens[n].server /\ bound[g] = Sockaddr(Listens[n].said)
      BY <3>1 DEF IInv, BindInv
    <3> HIDE DEF g, fd
    <3>4. servers_fd'[g] = servers_fd[g] /\ bound'[g] = bound[g]
      BY <1>1, <1>3, <3>2
    <3> QED
      BY <3>3, <3>4 DEF g
  <2> QED
    BY <2>1, <2>2
<1>8. BindInv'
  <2>1. nextListen' <= Len(Listens)' + 1
    <3>1. Len(Listens) \in Nat
      BY ListensFacts DEF IInv, TypeInv
    <3> QED
      BY <1>1, <1>2, <1>6, <3>1
  <2>2. DOMAIN servers_fd' = FirstFd .. FirstFd + nextListen' - 2 /\ DOMAIN bound' = DOMAIN servers_fd'
    BY <1>1, <1>3, <1>4
  <2>3. phase' = "binding"
    BY <1>1
  <2> QED
    BY <1>6, <1>7, <2>1, <2>2, <2>3 DEF BindInv
<1> QED
  BY <1>5, <1>8 DEF IInv

\* Every step keeps the invariant.
LEMMA StepTyped == IInv /\ [Next]_vars => IInv'
<1> SUFFICES ASSUME IInv, [Next]_vars PROVE IInv'
  OBVIOUS
<1>1. CASE Tokenize
  <2>1. tokens' \in Seq(Word)
    BY <1>1, TokensTyped DEF Tokenize, TokensIn, IInv, TypeInv
  <2>2. TypeInv'
    BY <1>1, <2>1 DEF Tokenize, IInv, TypeInv, fileVars, parserVars, socketVars
  <2>3. Listens' = Listens /\ nextListen = 1 /\ nextListen' = 1 /\ phase' = "parsing"
    BY <1>1 DEF Tokenize, IInv, BindInv, Listens, parserVars, socketVars
  <2>4. BindInv'
    BY <1>1, <2>3 DEF Tokenize, IInv, BindInv, socketVars
  <2> QED
    BY <2>2, <2>4 DEF IInv
<1>2. CASE ParserStep
  <2>1. TypeInv'
    BY <1>2, ParserTyped DEF IInv
  <2> QED
    BY <1>2, <2>1, ParserFrame, Unbound DEF IInv
<1>3. CASE InitServer
  BY <1>3, InitServerTyped
<1>4. CASE InitServerThrows \/ RunServer
  <2>1. /\ UNCHANGED <<fileVars, tokens, i, parserVars, socketVars>>
        /\ phase \notin {"reading", "parsing"}
        /\ phase' \in {"failed", "running"}
        /\ (phase' = "running") => (nextListen > Len(Listens))
    BY <1>4 DEF InitServerThrows, RunServer, Binding
  <2>2. TypeInv'
    BY <2>1 DEF IInv, TypeInv, fileVars, parserVars, socketVars
  <2>3. Listens' = Listens
    BY <2>1 DEF Listens, parserVars
  <2>4. BindInv'
    BY <2>1, <2>3 DEF IInv, BindInv, socketVars
  <2> QED
    BY <2>2, <2>4 DEF IInv
<1>5. CASE UNCHANGED vars
  <2>1. Listens' = Listens
    BY <1>5 DEF vars, Listens, parserVars
  <2>2. TypeInv'
    BY <1>5 DEF vars, IInv, TypeInv, fileVars, parserVars, socketVars
  <2>3. BindInv'
    BY <1>5, <2>1 DEF vars, IInv, BindInv, socketVars
  <2> QED
    BY <2>2, <2>3 DEF IInv
<1> QED
  BY <1>1, <1>2, <1>3, <1>4, <1>5 DEF Next, ParserStep, Directives

\* In every state of the invariant the type invariant holds.
LEMMA InvTyped == IInv => TypeOK
<1> SUFFICES ASSUME IInv PROVE TypeOK
  OBVIOUS
<1>1. LocationType(currLocation)
  BY LocationFacts DEF IInv, TypeInv
<1>2. ASSUME NEW s \in DOMAIN config, NEW l \in DOMAIN config[s].locations
      PROVE  LocationType(config[s].locations[l])
  <2>1. config[s] \in ServerSet
    BY ElementOfSeq, LenProperties DEF IInv, TypeInv
  <2>2. config[s].locations \in Seq(LocationSet)
    BY <2>1 DEF ServerSet
  <2>3. config[s].locations[l] \in LocationSet
    BY <2>2, ElementOfSeq, LenProperties
  <2> QED
    BY <2>3, LocationFacts
<1>3. ASSUME NEW f \in DOMAIN servers_fd
      PROVE  f \in FirstFd .. LastFd /\ servers_fd[f] \in DOMAIN config
  <2> DEFINE n == f - FirstFd + 1
  <2>1. FirstFd \in Nat /\ LastFd \in Nat /\ nextListen \in Nat \ {0} /\ Len(Listens) \in Nat
        /\ config \in Seq(ServerSet)
    BY FdAssumption, ListensFacts DEF IInv, TypeInv
  <2>2. n \in 1 .. nextListen - 1 /\ f = FirstFd + n - 1 /\ n \in 1 .. Len(Listens)
    BY <2>1 DEF IInv, BindInv
  <2> HIDE DEF n
  <2>3. f <= LastFd /\ servers_fd[f] = Listens[n].server
    BY <2>2 DEF IInv, BindInv
  <2>4. Listens[n].server \in 1 .. Len(config)
    BY <2>1, <2>2, ListensFacts
  <2>5. DOMAIN config = 1 .. Len(config)
    BY <2>1, LenProperties
  <2>6. f \in FirstFd .. LastFd
    BY <2>1, <2>2, <2>3
  <2> QED
    BY <2>3, <2>4, <2>5, <2>6
<1> QED
  BY <1>1, <1>2, <1>3 DEF TypeOK, IInv, TypeInv, BindInv

\* A server's sockets are as many as its listen directives: they have the numbers
\* of its own stretch.
LEMMA ServerServed ==
  ASSUME IInv, phase = "running", NEW s \in 1 .. Len(config)
  PROVE  Cardinality({f \in DOMAIN servers_fd : servers_fd[f] = s}) = Len(config[s].listens)
<1>1. PICK off : Counted(off)
  BY ListensFacts DEF IInv, TypeInv
<1>2. Len(config) \in Nat /\ Len(Listens) \in Nat /\ FirstFd \in Nat
      /\ Len(config[s].listens) \in Nat
  <2>1. config[s] \in ServerSet /\ Len(config) \in Nat
    BY ElementOfSeq, LenProperties DEF IInv, TypeInv
  <2>2. Len(config[s].listens) \in Nat
    BY <2>1, LenProperties DEF ServerSet
  <2> QED
    BY <2>1, <2>2, ListensFacts, FdAssumption DEF IInv, TypeInv
<1> DEFINE N == Len(Listens)
           first == off[s - 1]
           last == off[s]
<1>3. /\ first \in Nat /\ last \in Nat /\ last = first + Len(config[s].listens) /\ last <= N
      /\ \A n \in 1..N : Listens[n].server = s <=> n \in first + 1 .. last
  <2>1. s \in 0..Len(config) /\ s - 1 \in 0..Len(config)
    BY <1>2
  <2> QED
    BY <1>1, <2>1 DEF Counted
<1>4. nextListen = N + 1 /\ DOMAIN servers_fd = FirstFd .. FirstFd + N - 1
      /\ \A n \in 1..N : servers_fd[FirstFd + n - 1] = Listens[n].server
  <2>1. nextListen = N + 1
    BY <1>2 DEF IInv, TypeInv, BindInv
  <2>2. DOMAIN servers_fd = FirstFd .. FirstFd + (N + 1) - 2
        /\ \A n \in 1..(N + 1) - 1 : servers_fd[FirstFd + n - 1] = Listens[n].server
    BY <2>1 DEF IInv, BindInv
  <2> HIDE DEF N
  <2>3. (N + 1) - 1 = N /\ FirstFd + (N + 1) - 2 = FirstFd + N - 1
    BY <1>2 DEF N
  <2> QED
    BY <2>1, <2>2, <2>3
<1> DEFINE mine == {f \in DOMAIN servers_fd : servers_fd[f] = s}
           stretch == FirstFd + first .. FirstFd + last - 1
<1> N \in Nat
  BY <1>2
<1> HIDE DEF N, first, last
<1>5. ASSUME NEW f \in DOMAIN servers_fd
      PROVE  servers_fd[f] = s <=> f \in stretch
  <2> DEFINE n == f - FirstFd + 1
  <2>1. n \in 1..N /\ f = FirstFd + n - 1
    BY <1>2, <1>4
  <2>2. n \in first + 1 .. last <=> f \in stretch
    <3>1. f \in Int /\ n \in Int /\ first \in Int /\ last \in Int /\ FirstFd \in Int
      BY <1>2, <1>3, <2>1
    <3>2. first + 1 <= n <=> FirstFd + first <= f
      BY <3>1
    <3>3. n <= last <=> f <= FirstFd + last - 1
      BY <3>1
    <3> HIDE DEF n
    <3> QED
      BY <3>1, <3>2, <3>3
  <2> HIDE DEF n, stretch
  <2>3. servers_fd[f] = Listens[n].server
    BY <1>4, <2>1
  <2> QED
    BY <1>3, <2>1, <2>2, <2>3
<1>6. stretch \subseteq DOMAIN servers_fd
  BY <1>2, <1>3, <1>4
<1>7. mine = stretch
  BY <1>5, <1>6
<1>8. Cardinality(stretch) = last - first
  <2>1. FirstFd + first \in Int /\ FirstFd + last - 1 \in Int
    BY <1>2, <1>3
  <2>2. Cardinality(stretch) = IF FirstFd + first > FirstFd + last - 1 THEN 0
                               ELSE (FirstFd + last - 1) - (FirstFd + first) + 1
    BY <2>1, FS_Interval
  <2> HIDE DEF stretch
  <2> QED
    BY <1>2, <1>3, <2>2
<1>9. last - first = Len(config[s].listens)
  BY <1>2, <1>3
<1> QED
  BY <1>7, <1>8, <1>9

\* In every state of the invariant all listens are served when the loop starts.
LEMMA InvServed == IInv => ListensServed
<1> SUFFICES ASSUME IInv, phase = "running"
             PROVE  /\ Cardinality(DOMAIN servers_fd) = Len(Listens)
                    /\ \A s \in DOMAIN config :
                         Cardinality({f \in DOMAIN servers_fd : servers_fd[f] = s})
                           = Len(config[s].listens)
                    /\ \A n \in DOMAIN Listens : Proper(Listens[n].said) =>
                         \E f \in DOMAIN servers_fd :
                           /\ servers_fd[f] = Listens[n].server
                           /\ bound[f] = [addr |-> InetAddr[Listens[n].said.host],
                                          port |-> Listens[n].said.port]
  BY DEF ListensServed
<1> DEFINE N == Len(Listens)
<1>1. N \in Nat /\ FirstFd \in Nat /\ DOMAIN Listens = 1..N /\ DOMAIN config = 1..Len(config)
  BY ListensFacts, FdAssumption, LenProperties DEF IInv, TypeInv
<1>2. nextListen = N + 1
  BY <1>1 DEF IInv, TypeInv, BindInv
<1>3. DOMAIN servers_fd = FirstFd .. FirstFd + N - 1
  <2>1. DOMAIN servers_fd = FirstFd .. FirstFd + (N + 1) - 2
    BY <1>2 DEF IInv, BindInv
  <2> HIDE DEF N
  <2> QED
    BY <1>1, <2>1
<1>4. Cardinality(DOMAIN servers_fd) = N
  <2> HIDE DEF N
  <2>1. FirstFd \in Int /\ FirstFd + N - 1 \in Int
    BY <1>1
  <2>2. Cardinality(FirstFd .. FirstFd + N - 1)
          = IF FirstFd > FirstFd + N - 1 THEN 0 ELSE (FirstFd + N - 1) - FirstFd + 1
    BY <2>1, FS_Interval
  <2> QED
    BY <1>1, <1>3, <2>2
<1>5. ASSUME NEW n \in DOMAIN Listens, Proper(Listens[n].said)
      PROVE  \E f \in DOMAIN servers_fd :
               /\ servers_fd[f] = Listens[n].server
               /\ bound[f] = [addr |-> InetAddr[Listens[n].said.host],
                              port |-> Listens[n].said.port]
  <2> DEFINE f == FirstFd + n - 1
             said == Listens[n].said
  <2>1. n \in 1 .. nextListen - 1 /\ f \in DOMAIN servers_fd
    BY <1>1, <1>2, <1>3
  <2>2. servers_fd[f] = Listens[n].server /\ bound[f] = Sockaddr(said)
    BY <2>1 DEF IInv, BindInv
  <2>3. said.port % PortBound = said.port
    BY <1>5, PortAssumption DEF Proper
  <2>4. bound[f] = [addr |-> InetAddr[said.host], port |-> said.port]
    BY <2>2, <2>3 DEF Sockaddr
  <2> HIDE DEF f
  <2> QED
    BY <2>1, <2>2, <2>4
<1> QED
  BY <1>1, <1>4, <1>5, ServerServed

\* A sequence with the members of two is their concatenation.
LEMMA ConcatIs ==
  ASSUME NEW S, NEW a \in Seq(S), NEW b \in Seq(S), NEW u \in Seq(S),
         Concatenated(u, a, b)
  PROVE  u = a \o b
<1>1. a \o b \in Seq(S) /\ Concatenated(a \o b, a, b)
  BY ConcatAt
<1> DEFINE v == a \o b
<1>2. ASSUME NEW k \in 1..Len(u)
      PROVE  u[k] = v[k]
  <2>1. CASE k \in 1..Len(a)
    BY <1>1, <2>1 DEF Concatenated
  <2>2. CASE k \notin 1..Len(a)
    <3> DEFINE m == k - Len(a)
    <3>1. m \in 1..Len(b) /\ k = Len(a) + m
      BY <2>2 DEF Concatenated
    <3> HIDE DEF m, v
    <3> QED
      BY <1>1, <3>1 DEF Concatenated, v
  <2> QED
    BY <2>1, <2>2
<1>3. Len(u) = Len(v)
  BY <1>1 DEF Concatenated
<1> HIDE DEF v
<1>4. u = v
  BY <1>1, <1>2, <1>3, SeqEqual DEF v
<1> QED
  BY <1>4 DEF v

\* What the first parts are together.
LEMMA FlatFront ==
  ASSUME NEW S, NEW ss \in Seq(Seq(S))
  PROVE  /\ FlattenSeq(SubSeq(ss, 1, 0)) = <<>>
         /\ SubSeq(ss, 1, Len(ss)) = ss
         /\ \A k \in 0..Len(ss) : FlattenSeq(SubSeq(ss, 1, k)) \in Seq(S)
         /\ \A k \in 1..Len(ss) :
              FlattenSeq(SubSeq(ss, 1, k)) = FlattenSeq(SubSeq(ss, 1, k - 1)) \o ss[k]
<1>1. Len(ss) \in Nat /\ \A k \in 1..Len(ss) : ss[k] \in Seq(S)
  BY LenProperties, ElementOfSeq
<1>2. SubSeq(ss, 1, 0) = <<>> /\ SubSeq(ss, 1, Len(ss)) = ss
  BY SubSeqEmpty, SubSeqFull
<1>3. ASSUME NEW k \in 1..Len(ss)
      PROVE  FlattenSeq(SubSeq(ss, 1, k)) = FlattenSeq(SubSeq(ss, 1, k - 1)) \o ss[k]
  <2> DEFINE a == SubSeq(ss, 1, k - 1)
             x == ss[k]
  <2>1. a \in Seq(Seq(S)) /\ x \in Seq(S) /\ SubSeq(ss, 1, k) = Append(a, x)
    BY FrontMore
  <2> HIDE DEF a, x
  <2>2. FlattenSeq(Append(a, x)) = FlattenSeq(a) \o x
    BY <2>1, FlattenFacts
  <2> QED
    BY <2>1, <2>2 DEF a, x
<1>4. ASSUME NEW k \in 0..Len(ss)
      PROVE  FlattenSeq(SubSeq(ss, 1, k)) \in Seq(S)
  <2> DEFINE a == SubSeq(ss, 1, k)
  <2>1. a \in Seq(Seq(S))
    BY <1>1, SubSeqFacts
  <2> HIDE DEF a
  <2>2. FlattenSeq(a) \in Seq(S)
    BY <2>1, FlattenFacts
  <2> QED
    BY <2>2 DEF a
<1>5. FlattenSeq(<<>>) = <<>>
  BY DEF FlattenSeq
<1> QED
  BY <1>2, <1>3, <1>4, <1>5

\* The parts of two sequences together.
LEMMA FlatConcat ==
  ASSUME NEW S, NEW a \in Seq(Seq(S)), NEW b \in Seq(Seq(S))
  PROVE  FlattenSeq(a \o b) = FlattenSeq(a) \o FlattenSeq(b)
<1> DEFINE n == Len(b)
           B(k) == SubSeq(b, 1, k)
           Good == {k \in Nat : k <= n => FlattenSeq(a \o B(k)) = FlattenSeq(a) \o FlattenSeq(B(k))}
<1>1. n \in Nat /\ B(n) = b /\ B(0) = <<>> /\ FlattenSeq(<<>>) = <<>>
  <2>1. FlattenSeq(<<>>) = <<>>
    BY DEF FlattenSeq
  <2> QED
    BY <2>1, LenProperties, SubSeqEmpty, SubSeqFull
<1>2. 0 \in Good
  <2>1. a \o <<>> = a /\ FlattenSeq(a) \o <<>> = FlattenSeq(a)
    BY FlattenFacts, ConcatEmptySeq
  <2> QED
    BY <1>1, <2>1
<1>3. ASSUME NEW k \in Nat, k \in Good
      PROVE  k + 1 \in Good
  <2> SUFFICES ASSUME k + 1 <= n
               PROVE  FlattenSeq(a \o B(k + 1)) = FlattenSeq(a) \o FlattenSeq(B(k + 1))
    OBVIOUS
  <2> DEFINE m == k + 1
  <2>1. m \in 1..Len(b) /\ m - 1 = k /\ k <= n
    BY <1>1
  <2> HIDE DEF m
  <2>2. /\ B(k) \in Seq(Seq(S)) /\ b[m] \in Seq(S) /\ B(m) = Append(B(k), b[m])
    BY <2>1, FrontMore
  <2>3. FlattenSeq(a \o B(k)) = FlattenSeq(a) \o FlattenSeq(B(k))
    BY <1>3, <2>1
  <2> DEFINE c == B(k)
             x == b[m]
  <2> HIDE DEF B, n
  <2>4. c \in Seq(Seq(S)) /\ x \in Seq(S)
    BY <2>2
  <2> HIDE DEF c, x
  <2>5. a \o Append(c, x) = Append(a \o c, x) /\ a \o c \in Seq(Seq(S))
    BY <2>4, ConcatAppend, ConcatProperties
  <2>6. FlattenSeq(Append(a \o c, x)) = FlattenSeq(a \o c) \o x
    BY <2>4, <2>5, FlattenFacts
  <2>7. FlattenSeq(Append(c, x)) = FlattenSeq(c) \o x /\ FlattenSeq(c) \in Seq(S)
        /\ FlattenSeq(a) \in Seq(S)
    BY <2>4, FlattenFacts
  <2> DEFINE fa == FlattenSeq(a)
             fc == FlattenSeq(c)
  <2> HIDE DEF fa, fc
  <2>8. (fa \o fc) \o x = fa \o (fc \o x)
    <3>1. fa \in Seq(S) /\ fc \in Seq(S)
      BY <2>7 DEF fa, fc
    <3>2. x \in Seq(S)
      BY <2>4
    <3> QED
      BY ONLY <3>1, <3>2, ConcatAssociative
  <2> QED
    BY <2>2, <2>3, <2>5, <2>6, <2>7, <2>8 DEF c, x, fa, fc, m
<1> HIDE DEF Good
<1>4. n \in Good
  BY <1>1, <1>2, <1>3, Induction
<1>5. FlattenSeq(a \o B(n)) = FlattenSeq(a) \o FlattenSeq(B(n))
  BY <1>1, <1>4 DEF Good
<1> HIDE DEF B
<1> QED
  BY <1>1, <1>5

\* One part.
LEMMA FlatOne ==
  ASSUME NEW S, NEW x \in Seq(S)
  PROVE  FlattenSeq(<<x>>) = x
<1>1. <<>> \in Seq(Seq(S)) /\ <<>> \in Seq(S)
  BY EmptySeq
<1>2. FlattenSeq(Append(<<>>, x)) = FlattenSeq(<<>>) \o x /\ FlattenSeq(<<>>) = <<>>
  BY <1>1, FlattenFacts
<1>3. Append(<<>>, x) = <<x>> /\ <<>> \o x = x
  BY ConcatEmptySeq
<1> QED
  BY <1>2, <1>3

\* Parts of one member each.
LEMMA FlatSingles ==
  ASSUME NEW S, NEW s \in Seq(S)
  PROVE  FlattenSeq([k \in DOMAIN s |-> <<s[k]>>]) = s
<1> DEFINE n == Len(s)
           g == [k \in DOMAIN s |-> <<s[k]>>]
           F(k) == FlattenSeq(SubSeq(g, 1, k))
           Good == {k \in Nat : k <= n => F(k) = SubSeq(s, 1, k)}
<1>1. n \in Nat /\ DOMAIN s = 1..n /\ \A k \in 1..n : s[k] \in S
  BY LenProperties, ElementOfSeq
<1>2. \A k \in 1..n : g[k] = <<s[k]>> /\ g[k] \in Seq(S)
  BY <1>1
<1>3. g = [k \in DOMAIN s |-> g[k]]
  OBVIOUS
<1> HIDE DEF g
<1>4. g \in Seq(Seq(S)) /\ Len(g) = n
  <2> DEFINE T == Seq(S)
  <2> HIDE DEF n
  <2>1. g \in [1..n -> T]
    BY <1>1, <1>2, <1>3
  <2> HIDE DEF T
  <2>2. g \in Seq(T) /\ Len(g) = n
    BY <1>1, <2>1, MadeSeq
  <2> QED
    BY <2>2 DEF T
<1>5. F(0) = <<>> /\ SubSeq(g, 1, n) = g /\ \A k \in 1..n : F(k) = F(k - 1) \o g[k]
  BY <1>4, FlatFront
<1>6. SubSeq(s, 1, 0) = <<>> /\ SubSeq(s, 1, n) = s
  BY SubSeqEmpty, SubSeqFull
<1>7. 0 \in Good
  BY <1>5, <1>6
<1>8. ASSUME NEW k \in Nat, k \in Good
      PROVE  k + 1 \in Good
  <2> SUFFICES ASSUME k + 1 <= n PROVE F(k + 1) = SubSeq(s, 1, k + 1)
    OBVIOUS
  <2> DEFINE m == k + 1
  <2>1. m \in 1..n /\ m - 1 = k /\ k <= n
    BY <1>1
  <2> HIDE DEF m
  <2>2. F(m) = F(k) \o <<s[m]>> /\ F(k) = SubSeq(s, 1, k)
    <3> HIDE DEF F, n
    <3> QED
      BY <1>2, <1>5, <1>8, <2>1
  <2>3. SubSeq(s, 1, k) \in Seq(S) /\ s[m] \in S /\ SubSeq(s, 1, m) = Append(SubSeq(s, 1, k), s[m])
    BY <2>1, FrontMore
  <2>4. Append(SubSeq(s, 1, k), s[m]) = SubSeq(s, 1, k) \o <<s[m]>>
    BY <2>3, AppendIsConcat
  <2> QED
    BY <2>2, <2>3, <2>4 DEF m
<1> HIDE DEF Good
<1>9. n \in Good
  BY <1>1, <1>7, <1>8, Induction
<1>10. F(n) = SubSeq(s, 1, n)
  BY <1>1, <1>9 DEF Good
<1> QED
  BY <1>5, <1>6, <1>10 DEF g

----------------------------------------------------------------------------
(* The tokens of a file, as its author wrote it.                           *)

\* The tokens of a directive, an item, a server, a file.
DirectiveTokens(words, layout) ==
  words \o IF layout = "apart" THEN <<"", ";">> ELSE <<";">>
BodyTokens(item, layout) ==
  [d \in DOMAIN item.body |-> DirectiveTokens(item.body[d], layout)]
ItemTokens(item, layout) ==
  IF item.block
  THEN (item.words \o <<"{">>) \o (FlattenSeq(BodyTokens(item, layout)) \o <<"}">>)
  ELSE DirectiveTokens(item.words, layout)
ItemsTokens(server, layout) == [k \in DOMAIN server |-> ItemTokens(server[k], layout)]
ServerTokens(server, layout) ==
  <<"server", "{">> \o (FlattenSeq(ItemsTokens(server, layout)) \o <<"}">>)
ServersTokens(servers, layout) ==
  [s \in DOMAIN servers |-> ServerTokens(servers[s], layout)]
FileTokens(servers, layout) == FlattenSeq(ServersTokens(servers, layout))

\* What a word is in the file, and the words of a line.
Said(word) == IF word.ends THEN <<word.text, ";">> ELSE <<word.text>>
LineTokens(line) == FlattenSeq([k \in DOMAIN line |-> Said(line[k])])

\* They are words.
LEMMA SaidTyped ==
  ASSUME NEW line \in LineType
  PROVE  /\ [k \in DOMAIN line |-> Said(line[k])] \in Seq(Seq(Word))
         /\ Len([k \in DOMAIN line |-> Said(line[k])]) = Len(line)
         /\ LineTokens(line) \in Seq(Word)
<1> DEFINE n == Len(line)
           g == [k \in DOMAIN line |-> Said(line[k])]
<1>1. n \in Nat /\ DOMAIN line = 1..n /\ \A k \in 1..n : line[k] \in WordType
  BY LenProperties, ElementOfSeq DEF LineType
<1>2. ASSUME NEW w \in WordType
      PROVE  Said(w) \in Seq(Word)
  <2>1. w.text \in Word /\ ";" \in Word
    BY DEF WordType, Word
  <2> DEFINE t == w.text
             e == ";"
  <2> HIDE DEF t, e
  <2>2. t \in Word /\ e \in Word
    BY <2>1 DEF t, e
  <2>3. <<t, e>> \in Seq(Word) /\ <<t>> \in Seq(Word)
    BY <2>2
  <2> QED
    BY <2>3 DEF t, e, Said
<1> HIDE DEF n
<1> DEFINE T == Seq(Word)
<1>3. g \in [1..n -> T]
  BY <1>1, <1>2
<1> HIDE DEF g, T
<1>4. g \in Seq(T) /\ Len(g) = n
  BY <1>1, <1>3, MadeSeq
<1>5. g \in Seq(Seq(Word))
  BY <1>4 DEF T
<1>6. FlattenSeq(g) \in Seq(Word)
  BY <1>5, FlattenFacts
<1> QED
  BY <1>4, <1>5, <1>6 DEF g, n, LineTokens

\* Two lines in one.
LEMMA LineConcat ==
  ASSUME NEW a \in LineType, NEW b \in LineType
  PROVE  a \o b \in LineType /\ LineTokens(a \o b) = LineTokens(a) \o LineTokens(b)
<1> DEFINE u == a \o b
           ga == [k \in DOMAIN a |-> Said(a[k])]
           gb == [k \in DOMAIN b |-> Said(b[k])]
           gu == [k \in DOMAIN u |-> Said(u[k])]
<1>1. u \in LineType /\ Concatenated(u, a, b)
  BY ConcatAt DEF LineType
<1> HIDE DEF u
<1>2. /\ ga \in Seq(Seq(Word)) /\ gb \in Seq(Seq(Word)) /\ gu \in Seq(Seq(Word))
      /\ Len(ga) = Len(a) /\ Len(gb) = Len(b) /\ Len(gu) = Len(u)
  BY <1>1, SaidTyped
<1>3. DOMAIN a = 1..Len(a) /\ DOMAIN b = 1..Len(b) /\ DOMAIN u = 1..Len(u)
  BY <1>1, LenProperties DEF LineType
<1>4. /\ Len(a) \in Nat /\ Len(b) \in Nat /\ Len(u) = Len(a) + Len(b)
      /\ \A k \in 1..Len(a) : u[k] = a[k] /\ k \in 1..Len(u)
      /\ \A k \in 1..Len(b) : u[Len(a) + k] = b[k] /\ Len(a) + k \in 1..Len(u)
  BY <1>1 DEF Concatenated
<1>5. \A k \in 1..Len(a) : gu[k] = ga[k]
  BY <1>3, <1>4
<1>6. \A k \in 1..Len(b) : gu[Len(a) + k] = gb[k]
  BY <1>3, <1>4
<1> HIDE DEF ga, gb, gu
<1>7. Concatenated(gu, ga, gb)
  BY <1>2, <1>4, <1>5, <1>6 DEF Concatenated
<1>8. gu = ga \o gb
  BY <1>2, <1>7, ConcatIs
<1>9. FlattenSeq(ga \o gb) = FlattenSeq(ga) \o FlattenSeq(gb)
  BY <1>2, FlatConcat
<1> QED
  BY <1>1, <1>8, <1>9 DEF ga, gb, gu, u, LineTokens

\* The lines of two files in one, and of one line.
LEMMA TokensConcat ==
  ASSUME NEW a \in Seq(LineType), NEW b \in Seq(LineType)
  PROVE  TokensIn(a \o b) = TokensIn(a) \o TokensIn(b)
<1> DEFINE u == a \o b
           ga == [k \in DOMAIN a |-> TokensOf(a[k])]
           gb == [k \in DOMAIN b |-> TokensOf(b[k])]
           gu == [k \in DOMAIN u |-> TokensOf(u[k])]
<1>1. u \in Seq(LineType) /\ Concatenated(u, a, b)
  BY ConcatAt
<1> HIDE DEF u
<1>2. DOMAIN a = 1..Len(a) /\ DOMAIN b = 1..Len(b) /\ DOMAIN u = 1..Len(u)
  BY <1>1, LenProperties
<1>3. /\ Len(a) \in Nat /\ Len(b) \in Nat /\ Len(u) \in Nat /\ Len(u) = Len(a) + Len(b)
      /\ \A k \in 1..Len(a) : u[k] = a[k] /\ k \in 1..Len(u)
      /\ \A k \in 1..Len(b) : u[Len(a) + k] = b[k] /\ Len(a) + k \in 1..Len(u)
  BY <1>1 DEF Concatenated
<1>4. \A k \in 1..Len(a) : gu[k] = ga[k]
  BY <1>2, <1>3
<1>5. \A k \in 1..Len(b) : gu[Len(a) + k] = gb[k]
  BY <1>2, <1>3
<1>6. ga \in Seq(Seq(Word)) /\ gb \in Seq(Seq(Word)) /\ gu \in Seq(Seq(Word))
  BY <1>1, TokensTyped
<1>7. DOMAIN ga = 1..Len(a) /\ DOMAIN gb = 1..Len(b) /\ DOMAIN gu = 1..Len(u)
  BY <1>2
<1> HIDE DEF ga, gb, gu
<1>8. Len(ga) = Len(a) /\ Len(gb) = Len(b) /\ Len(gu) = Len(u)
  BY <1>3, <1>6, <1>7, LenProperties
<1>9. Concatenated(gu, ga, gb)
  BY <1>3, <1>4, <1>5, <1>8 DEF Concatenated
<1>10. gu = ga \o gb
  BY <1>6, <1>9, ConcatIs
<1>11. FlattenSeq(ga \o gb) = FlattenSeq(ga) \o FlattenSeq(gb)
  BY <1>6, FlatConcat
<1> QED
  BY <1>10, <1>11 DEF ga, gb, gu, u, TokensIn

\* A file of one line, and of none.
LEMMA TokensOne ==
  ASSUME NEW line \in LineType
  PROVE  TokensIn(<<line>>) = TokensOf(line) /\ TokensIn(<<>>) = <<>>
<1> DEFINE t == TokensOf(line)
           u == <<line>>
<1>1. t \in Seq(Word)
  BY TokensOfTyped
<1>2. DOMAIN u = {1} /\ u[1] = line
  OBVIOUS
<1> HIDE DEF u
<1>3. [k \in DOMAIN u |-> TokensOf(u[k])] = [k \in {1} |-> t]
  BY <1>2
<1> HIDE DEF t
<1>4. [k \in {1} |-> t] = <<t>>
  OBVIOUS
<1>5. FlattenSeq(<<t>>) = t
  BY <1>1, FlatOne
<1>6. TokensIn(<<>>) = <<>>
  <2>1. [k \in DOMAIN <<>> |-> TokensOf(<<>>[k])] = <<>>
    OBVIOUS
  <2>2. FlattenSeq(<<>>) = <<>>
    BY DEF FlattenSeq
  <2> QED
    BY <2>1, <2>2 DEF TokensIn
<1> QED
  BY <1>3, <1>4, <1>5, <1>6 DEF TokensIn, t, u

\* A file put together from pieces.
LEMMA TokensFlat ==
  ASSUME NEW ls \in Seq(Seq(LineType))
  PROVE  /\ [k \in DOMAIN ls |-> TokensIn(ls[k])] \in Seq(Seq(Word))
         /\ TokensIn(FlattenSeq(ls)) = FlattenSeq([k \in DOMAIN ls |-> TokensIn(ls[k])])
<1> DEFINE n == Len(ls)
           g == [k \in DOMAIN ls |-> TokensIn(ls[k])]
           F(k) == FlattenSeq(SubSeq(ls, 1, k))
           G(k) == FlattenSeq(SubSeq(g, 1, k))
           Good == {k \in Nat : k <= n => TokensIn(F(k)) = G(k)}
           T == Seq(Word)
<1>1. n \in Nat /\ DOMAIN ls = 1..n /\ \A k \in 1..n : ls[k] \in Seq(LineType)
  BY LenProperties, ElementOfSeq
<1>2. \A k \in 1..n : g[k] = TokensIn(ls[k]) /\ g[k] \in T
  BY <1>1, TokensTyped
<1> HIDE DEF n, T
<1>3. g \in [1..n -> T]
  BY <1>1, <1>2
<1> HIDE DEF g
<1>4. g \in Seq(T) /\ Len(g) = n
  BY <1>1, <1>3, MadeSeq
<1>5. g \in Seq(Seq(Word))
  BY <1>4 DEF T
<1>6. /\ F(0) = <<>> /\ F(n) = FlattenSeq(ls) /\ \A k \in 0..n : F(k) \in Seq(LineType)
      /\ \A k \in 1..n : F(k) = F(k - 1) \o ls[k]
  BY FlatFront DEF n
<1>7. G(0) = <<>> /\ G(n) = FlattenSeq(g) /\ \A k \in 1..n : G(k) = G(k - 1) \o g[k]
  BY <1>4, <1>5, FlatFront
<1> HIDE DEF F, G
<1>8. 0 \in Good
  <2>1. <<>> \in LineType
    BY EmptySeq DEF LineType
  <2> QED
    BY <1>6, <1>7, <2>1, TokensOne
<1>9. ASSUME NEW k \in Nat, k \in Good
      PROVE  k + 1 \in Good
  <2> SUFFICES ASSUME k + 1 <= n PROVE TokensIn(F(k + 1)) = G(k + 1)
    OBVIOUS
  <2> DEFINE m == k + 1
  <2>1. m \in 1..n /\ m - 1 = k /\ k <= n /\ k \in 0..n
    BY <1>1
  <2> HIDE DEF m
  <2>2. F(m) = F(k) \o ls[m] /\ G(m) = G(k) \o g[m] /\ TokensIn(F(k)) = G(k)
        /\ F(k) \in Seq(LineType) /\ ls[m] \in Seq(LineType) /\ g[m] = TokensIn(ls[m])
    BY <1>1, <1>2, <1>6, <1>7, <1>9, <2>1
  <2>3. TokensIn(F(k) \o ls[m]) = TokensIn(F(k)) \o TokensIn(ls[m])
    BY <2>2, TokensConcat
  <2>4. TokensIn(F(m)) = G(m)
    BY <2>2, <2>3
  <2> QED
    BY <2>4 DEF m
<1> HIDE DEF Good
<1>10. n \in Good
  BY <1>1, <1>8, <1>9, Induction
<1>11. TokensIn(F(n)) = G(n)
  BY <1>1, <1>10 DEF Good
<1> QED
  BY <1>5, <1>6, <1>7, <1>11 DEF g

\* Two tokens.
LEMMA TwoTokens ==
  ASSUME NEW S, NEW a \in S, NEW b \in S
  PROVE  <<a>> \o <<b>> = <<a, b>>
<1>1. <<a>> \in Seq(S) /\ <<b>> \in Seq(S) /\ <<a, b>> \in Seq(S)
  OBVIOUS
<1> DEFINE x == <<a>>
           y == <<b>>
           u == <<a, b>>
<1>2. Len(x) = 1 /\ Len(y) = 1 /\ Len(u) = 2 /\ x[1] = a /\ y[1] = b /\ u[1] = a /\ u[2] = b
  OBVIOUS
<1> HIDE DEF x, y, u
<1>3. Concatenated(u, x, y)
  BY <1>2 DEF Concatenated
<1>4. u = x \o y
  BY <1>1, <1>3, ConcatIs DEF x, y, u
<1> QED
  BY <1>4 DEF x, y, u

\* A line of one word.
LEMMA LineOne ==
  ASSUME NEW word \in WordType
  PROVE  <<word>> \in LineType /\ LineTokens(<<word>>) = Said(word)
<1> DEFINE u == <<word>>
           t == Said(word)
<1>1. u \in LineType
  BY DEF LineType
<1>2. Len(u) = 1 /\ u[1] = word /\ DOMAIN u = {1}
  OBVIOUS
<1> HIDE DEF u
<1>3. [k \in DOMAIN u |-> Said(u[k])] \in Seq(Seq(Word))
  BY <1>1, SaidTyped
<1>4. [k \in DOMAIN u |-> Said(u[k])] = [k \in {1} |-> t]
  BY <1>2
<1> HIDE DEF t
<1>5. [k \in {1} |-> t] = <<t>>
  OBVIOUS
<1>6. t \in Seq(Word)
  <2> DEFINE g == [k \in {1} |-> t]
  <2>1. g \in Seq(Seq(Word)) /\ Len(g) = 1
    BY <1>3, <1>4, <1>5
  <2>2. g[1] \in Seq(Word)
    <3> HIDE DEF g
    <3> QED
      BY <2>1, ElementOfSeq
  <2> QED
    BY <2>2
<1>7. FlattenSeq(<<t>>) = t
  BY <1>6, FlatOne
<1> QED
  BY <1>1, <1>4, <1>5, <1>7 DEF LineTokens, t, u

\* Words without semicolons are the tokens.
LEMMA BareTokens ==
  ASSUME NEW words \in Seq(Word)
  PROVE  LineTokens(Bare(words)) = words
<1>1. DOMAIN Bare(words) = DOMAIN words
  BY DEF Bare
<1>2. \A k \in DOMAIN words : Said(Bare(words)[k]) = <<words[k]>>
  BY DEF Said, Bare
<1>3. [k \in DOMAIN Bare(words) |-> Said(Bare(words)[k])] = [k \in DOMAIN words |-> <<words[k]>>]
  BY <1>1, <1>2
<1> QED
  BY <1>3, FlatSingles DEF LineTokens

\* The tokens of a directive are its words and what ends it.
LEMMA WrittenTokens ==
  ASSUME NEW words \in Seq(Word), words # <<>>, NEW layout
  PROVE  LineTokens(Written(words, layout)) = DirectiveTokens(words, layout)
<1>1. ";" \in Word /\ "" \in Word
  BY DEF Word
<1>2. CASE layout = "apart"
  <2> DEFINE e == [text |-> "", ends |-> TRUE]
             b == Bare(words)
  <2>1. e \in WordType /\ Said(e) = <<"", ";">>
    BY <1>1 DEF WordType, Said
  <2>2. b \in LineType /\ LineTokens(b) = words
    BY BareTyped, BareTokens
  <2> HIDE DEF e, b
  <2>3. Append(b, e) = b \o <<e>>
    BY <2>1, <2>2, AppendIsConcat DEF LineType
  <2>4. LineTokens(b \o <<e>>) = words \o <<"", ";">>
    <3>1. <<e>> \in LineType /\ LineTokens(<<e>>) = <<"", ";">>
      BY <2>1, LineOne
    <3> QED
      BY <2>2, <3>1, LineConcat
  <2> QED
    BY <1>2, <2>3, <2>4 DEF Written, DirectiveTokens, b, e
<1>3. CASE layout # "apart"
  <2> DEFINE f == Front(words)
             l == Last(words)
             e == [text |-> l, ends |-> TRUE]
             b == Bare(f)
             n == Len(words)
             w == Written(words, layout)
  <2>1. l \in Word /\ f \in Seq(Word) /\ Append(f, l) = words /\ Len(f) = n - 1 /\ n \in Nat
    BY FrontLast, LenProperties
  <2>2. e \in WordType /\ Said(e) = <<l, ";">>
    BY <2>1 DEF WordType, Said
  <2>3. b \in LineType /\ LineTokens(b) = f
    BY <2>1, BareTyped, BareTokens
  <2>4. w \in LineType
    BY WrittenTyped
  <2>5. DOMAIN words = 1..n /\ DOMAIN f = 1..(n - 1) /\ n # 0
    <3>1. words = <<>> <=> n = 0
      BY EmptySeq, LenProperties
    <3> QED
      BY <2>1, <3>1, LenProperties
  <2>6. Len(b) = n - 1 /\ Len(w) = n
    <3>1. DOMAIN b = 1..(n - 1) /\ DOMAIN w = 1..n
      BY <1>3, <2>5 DEF Bare, Written
    <3> HIDE DEF b, w
    <3> QED
      BY <2>1, <2>3, <2>4, <2>5, <3>1, LenProperties DEF LineType
  <2>7. words[n] = l /\ \A k \in 1..(n - 1) : words[k] = f[k]
    <3> HIDE DEF f, l
    <3>1. \A k \in 1..(n - 1) : Append(f, l)[k] = f[k]
      BY <2>1, AppendProperties
    <3>2. Append(f, l)[(n - 1) + 1] = l
      BY <2>1, AppendProperties
    <3> QED
      BY <2>1, <3>1, <3>2
  <2>8. w[n] = e
    <3>1. w[n] = [text |-> words[n], ends |-> n = n]
      BY <1>3, <2>1, <2>5 DEF Written
    <3>2. (n = n) = TRUE
      OBVIOUS
    <3> QED
      BY <2>7, <3>1, <3>2
  <2>9. ASSUME NEW k \in 1..(n - 1)
        PROVE  w[k] = b[k]
    <3>1. w[k] = [text |-> words[k], ends |-> k = n]
      BY <1>3, <2>1, <2>5 DEF Written
    <3>2. b[k] = [text |-> f[k], ends |-> FALSE]
      BY <2>5 DEF Bare
    <3>3. (k = n) = FALSE
      BY <2>1
    <3> QED
      BY <2>7, <3>1, <3>2, <3>3
  <2> HIDE DEF w, b, e
  <2>10. w = b \o <<e>>
    <3> DEFINE one == <<e>>
    <3>1. one \in Seq(WordType) /\ Len(one) = 1 /\ one[1] = e
      BY <2>2, LineOne DEF LineType
    <3> HIDE DEF one, n
    <3>2. Concatenated(w, b, one)
      <4>1. Len(w) = Len(b) + Len(one) /\ Len(b) \in Nat /\ Len(one) \in Nat /\ Len(w) \in Nat
        BY <2>1, <2>5, <2>6, <3>1
      <4>2. \A k \in 1..Len(b) : w[k] = b[k]
        BY <2>6, <2>9
      <4>3. \A k \in 1..Len(one) : w[Len(b) + k] = one[k]
        BY <2>1, <2>6, <2>8, <3>1
      <4> QED
        BY <4>1, <4>2, <4>3 DEF Concatenated
    <3>3. w = b \o one
      BY <2>3, <2>4, <3>1, <3>2, ConcatIs DEF LineType
    <3> QED
      BY <3>3 DEF one
  <2>11. LineTokens(b \o <<e>>) = f \o <<l, ";">>
    <3>1. <<e>> \in LineType /\ LineTokens(<<e>>) = <<l, ";">>
      BY <2>2, LineOne
    <3> QED
      BY <2>3, <3>1, LineConcat
  <2>12. f \o <<l, ";">> = words \o <<";">>
    <3> DEFINE semi == ";"
               x == <<l>>
               y == <<semi>>
    <3>1. semi \in Word
      BY <1>1
    <3> HIDE DEF semi, f, l
    <3>2. x \in Seq(Word) /\ y \in Seq(Word)
      BY <2>1, <3>1, Tuples
    <3>3. x \o y = <<l, semi>>
      BY <2>1, <3>1, TwoTokens
    <3>4. f \in Seq(Word) /\ words = f \o x
      BY <2>1, AppendIsConcat
    <3> HIDE DEF x, y
    <3>5. (f \o x) \o y = f \o (x \o y)
      BY ONLY <3>2, <3>4, ConcatAssociative
    <3> QED
      BY <3>3, <3>4, <3>5 DEF y, semi
  <2> QED
    BY <1>3, <2>10, <2>11, <2>12 DEF DirectiveTokens, w
<1> QED
  BY <1>2, <1>3

\* A line is read up to its remark.
LEMMA TokensOfCut ==
  ASSUME NEW w \in LineType, NEW r \in LineType, \A k \in 1..Len(w) : w[k].text # "#",
         r = <<>> \/ r[1].text = "#"
  PROVE  TokensOf(w \o r) = LineTokens(w)
<1> DEFINE u == w \o r
           remark == {k \in DOMAIN u : u[k].text = "#"}
           C == remark \cup {Len(u) + 1}
           m == Min(C)
<1>1. /\ u \in Seq(WordType) /\ Len(u) = Len(w) + Len(r) /\ SubSeq(u, 1, Len(w)) = w
      /\ Concatenated(u, w, r)
  BY FrontOfConcat, ConcatAt DEF LineType
<1> HIDE DEF u
<1>2. /\ Len(w) \in Nat /\ Len(r) \in Nat /\ DOMAIN u = 1..Len(u)
      /\ \A k \in 1..Len(w) : u[k] = w[k]
      /\ \A k \in 1..Len(r) : u[Len(w) + k] = r[k]
  BY <1>1, LenProperties DEF Concatenated
<1>3. Len(w) + 1 \in C
  <2>1. CASE r = <<>>
    BY <1>1, <2>1, EmptySeq
  <2>2. CASE r # <<>>
    <3>1. 1 \in 1..Len(r)
      BY <1>2, <2>2, EmptySeq DEF LineType
    <3>2. Len(w) + 1 \in DOMAIN u /\ u[Len(w) + 1] = r[1]
      BY <1>1, <1>2, <3>1
    <3> QED
      BY <2>2, <3>2
  <2> QED
    BY <2>1, <2>2
<1>4. \A k \in C : k \in Nat /\ Len(w) + 1 <= k
  <2> SUFFICES ASSUME NEW k \in C PROVE k \in Nat /\ Len(w) + 1 <= k
    OBVIOUS
  <2>1. CASE k \in remark
    <3>1. k \in 1..Len(u) /\ k \notin 1..Len(w)
      BY <1>2, <2>1
    <3> QED
      BY <1>2, <3>1
  <2>2. CASE k = Len(u) + 1
    BY <1>1, <1>2, <2>2
  <2> QED
    BY <2>1, <2>2
<1> HIDE DEF C
<1>5. m \in C /\ m <= Len(w) + 1 /\ m \in Nat
  <2>1. C \in SUBSET Nat /\ C # {}
    BY <1>3, <1>4
  <2> QED
    BY <1>3, <2>1, MinFacts
<1>6. m - 1 = Len(w)
  BY <1>2, <1>4, <1>5
<1>7. TokensOf(u) = LineTokens(SubSeq(u, 1, m - 1))
  BY DEF TokensOf, LineTokens, Said, m, C
<1> HIDE DEF m
<1> QED
  BY <1>1, <1>6, <1>7 DEF u

\* A remark adds no token.
LEMMA RemarkedTokens ==
  ASSUME NEW w \in LineType, \A k \in 1..Len(w) : w[k].text # "#", NEW layout
  PROVE  TokensOf(Remarked(w, layout)) = LineTokens(w)
<1>1. CASE layout = "remarks"
  <2> DEFINE t == <<"#", "}", "root", "x">>
             r == Bare(t)
  <2>1. t \in Seq(Word) /\ t[1] = "#" /\ DOMAIN t = 1..4
    <3>1. "#" \in Word /\ "}" \in Word /\ "root" \in Word /\ "x" \in Word
      BY DEF Word
    <3>2. t \in Seq(Word)
      BY ONLY <3>1, Tuples
    <3>3. t[1] = "#" /\ DOMAIN t = 1..4
      OBVIOUS
    <3> HIDE DEF t
    <3> QED
      BY <3>2, <3>3
  <2>2. r \in LineType
    BY <2>1, BareTyped
  <2>3. r[1].text = "#"
    <3> HIDE DEF t
    <3>1. 1 \in DOMAIN t
      BY <2>1
    <3> QED
      BY <2>1, <3>1 DEF Bare
  <2> HIDE DEF r
  <2>4. TokensOf(w \o r) = LineTokens(w)
    BY <2>2, <2>3, TokensOfCut
  <2> QED
    BY <1>1, <2>4 DEF Remarked, r
<1>2. CASE layout # "remarks"
  <2> DEFINE r == <<>>
  <2>1. r \in LineType /\ w \o r = w
    BY EmptySeq, ConcatEmptySeq DEF LineType
  <2>2. TokensOf(w \o r) = LineTokens(w)
    BY <2>1, TokensOfCut
  <2> QED
    BY <1>2, <2>1, <2>2 DEF Remarked
<1> QED
  BY <1>1, <1>2

\* The line of a directive.
LEMMA DirectiveLine ==
  ASSUME NEW words \in Seq(STRING), words # <<>>, "#" \notin Range(words), NEW layout
  PROVE  /\ TokensOf(Remarked(Written(words, layout), layout)) = DirectiveTokens(words, layout)
         /\ Remarked(Written(words, layout), layout) \in LineType
         /\ DirectiveTokens(words, layout) \in Seq(Word)
<1> DEFINE n == Len(words)
           w == Written(words, layout)
           b == Bare(words)
<1>1. words \in Seq(Word)
  BY SeqInto DEF Word
<1>2. n \in Nat /\ DOMAIN words = 1..n /\ \A k \in 1..n : words[k] # "#"
  BY LenProperties DEF Range
<1>3. w \in LineType /\ b \in LineType
  BY <1>1, WrittenTyped, BareTyped
<1>4. ASSUME NEW k \in 1..Len(w)
      PROVE  w[k].text # "#"
  <2>1. CASE layout = "apart"
    <3> DEFINE e == [text |-> "", ends |-> TRUE]
    <3>1. w = Append(b, e)
      BY <2>1 DEF Written
    <3>2. DOMAIN b = 1..n /\ \A m \in 1..n : b[m].text = words[m]
      BY <1>2 DEF Bare
    <3>3. e.text # "#" /\ e \in WordType
      BY DEF WordType, Word
    <3> HIDE DEF w, b, e
    <3>4. Len(b) = n
      BY <1>2, <1>3, <3>2, LenProperties DEF LineType
    <3>5. Len(w) = n + 1 /\ w[n + 1] = e /\ \A m \in 1..n : w[m] = b[m]
      BY <1>3, <3>1, <3>3, <3>4, AppendProperties DEF LineType
    <3>6. k \in 1..n \/ k = n + 1
      BY <1>2, <3>5
    <3> QED
      BY <1>2, <3>2, <3>3, <3>5, <3>6
  <2>2. CASE layout # "apart"
    <3>1. DOMAIN w = 1..n /\ \A m \in 1..n : w[m].text = words[m]
      BY <1>2, <2>2 DEF Written
    <3> HIDE DEF w
    <3>2. Len(w) = n
      BY <1>2, <1>3, <3>1, LenProperties DEF LineType
    <3> QED
      BY <1>2, <3>1, <3>2
  <2> QED
    BY <2>1, <2>2
<1>5. LineTokens(w) = DirectiveTokens(words, layout)
  BY <1>1, WrittenTokens
<1> HIDE DEF w
<1>6. TokensOf(Remarked(w, layout)) = LineTokens(w) /\ Remarked(w, layout) \in LineType
  BY <1>3, <1>4, RemarkedTokens, RemarkedTyped
<1>7. LineTokens(w) \in Seq(Word)
  BY <1>3, SaidTyped
<1> QED
  BY <1>5, <1>6, <1>7 DEF w

\* A line of bare words.
LEMMA BareLine ==
  ASSUME NEW words \in Seq(Word), \A k \in 1..Len(words) : words[k] # "#", NEW layout
  PROVE  /\ TokensOf(Remarked(Bare(words), layout)) = words
         /\ TokensOf(Bare(words)) = words
         /\ Bare(words) \in LineType
<1> DEFINE w == Bare(words)
           n == Len(words)
<1>1. w \in LineType /\ LineTokens(w) = words
  BY BareTyped, BareTokens
<1>2. \A k \in 1..Len(w) : w[k].text # "#"
  <2>1. DOMAIN words = 1..n /\ n \in Nat
    BY LenProperties
  <2>2. DOMAIN w = 1..n /\ \A k \in 1..n : w[k].text = words[k]
    BY <2>1 DEF Bare
  <2> HIDE DEF w
  <2>3. Len(w) = n
    BY <1>1, <2>1, <2>2, LenProperties DEF LineType
  <2> QED
    BY <2>2, <2>3
<1> HIDE DEF w
<1>3. TokensOf(Remarked(w, layout)) = LineTokens(w) /\ TokensOf(Remarked(w, "apart")) = LineTokens(w)
  BY <1>1, <1>2, RemarkedTokens
<1>4. Remarked(w, "apart") = w
  BY DEF Remarked
<1> QED
  BY <1>1, <1>3, <1>4 DEF w

\* What a block begins with.
LEMMA BlockWords ==
  ASSUME NEW words \in Seq(STRING), Len(words) = 2, words[1] = "location", words[2] # "#"
  PROVE  LET u == words \o <<"{">> IN
         /\ u \in Seq(Word) /\ Len(u) = 3 /\ u[1] = "location" /\ u[2] = words[2] /\ u[3] = "{"
         /\ \A k \in 1..Len(u) : u[k] # "#"
<1> DEFINE brace == "{"
           u == words \o <<brace>>
<1>1. words \in Seq(Word) /\ brace \in Word /\ brace # "#"
  BY SeqInto DEF Word
<1> HIDE DEF brace
<1>2. u = Append(words, brace)
  BY <1>1, AppendIsConcat
<1>3. /\ u \in Seq(Word) /\ Len(u) = 3 /\ u[3] = brace /\ u[1] = words[1] /\ u[2] = words[2]
  <2> HIDE DEF u
  <2> DEFINE n == Len(words)
  <2>1. /\ u \in Seq(Word) /\ Len(u) = n + 1 /\ u[n + 1] = brace
        /\ \A k \in 1..n : u[k] = words[k]
    <3> DEFINE v == Append(words, brace)
    <3>1. /\ v \in Seq(Word) /\ Len(v) = n + 1 /\ v[n + 1] = brace
          /\ \A k \in 1..n : v[k] = words[k]
      BY ONLY <1>1, AppendProperties
    <3> HIDE DEF v
    <3> QED
      BY <1>2, <3>1 DEF v
  <2>2. n = 2 /\ n + 1 = 3 /\ 1 \in 1..n /\ 2 \in 1..n
    OBVIOUS
  <2> HIDE DEF n
  <2> QED
    BY <2>1, <2>2
<1> HIDE DEF u
<1>4. \A k \in 1..Len(u) : k = 1 \/ k = 2 \/ k = 3
  BY <1>3
<1> QED
  BY <1>1, <1>3, <1>4 DEF u, brace

\* The tokens of an item.
LEMMA ItemTold ==
  ASSUME NEW item \in ItemType, LegibleItem(item), NEW layout
  PROVE  /\ TokensIn(ItemLines(item, layout)) = ItemTokens(item, layout)
         /\ ItemTokens(item, layout) \in Seq(Word)
         /\ item.block => BodyTokens(item, layout) \in Seq(Seq(Word))
<1>1. item.words \in Seq(STRING) /\ item.body \in Seq(Seq(STRING)) /\ item.block \in BOOLEAN
  BY DEF ItemType
<1>2. CASE ~item.block
  <2> DEFINE line == Remarked(Written(item.words, layout), layout)
  <2>1. item.words # <<>> /\ "#" \notin Range(item.words)
    BY <1>2 DEF LegibleItem
  <2>2. /\ TokensOf(line) = DirectiveTokens(item.words, layout) /\ line \in LineType
        /\ DirectiveTokens(item.words, layout) \in Seq(Word)
    BY <1>1, <2>1, DirectiveLine
  <2>3. TokensIn(<<line>>) = TokensOf(line)
    <3> HIDE DEF line
    <3> QED
      BY <2>2, TokensOne
  <2> QED
    BY <1>2, <2>2, <2>3 DEF ItemLines, ItemTokens
<1>3. CASE item.block
  <2> DEFINE body == item.body
             n == Len(body)
             head == item.words \o <<"{">>
             end == <<"}">>
             first == Remarked(Bare(head), layout)
             last == Bare(end)
             others == [k \in DOMAIN body |-> Remarked(Written(body[k], layout), layout)]
             said == BodyTokens(item, layout)
             T == Seq(Word)
  <2>1. head \in Seq(Word) /\ TokensOf(first) = head /\ first \in LineType
    <3>1. Len(item.words) = 2 /\ item.words[1] = "location" /\ item.words[2] # "#"
      BY <1>3 DEF LegibleItem
    <3>2. head \in Seq(Word) /\ \A k \in 1..Len(head) : head[k] # "#"
      BY <1>1, <3>1, BlockWords
    <3> HIDE DEF head
    <3> QED
      BY <3>2, BareLine, RemarkedTyped
  <2>2. end \in Seq(Word) /\ TokensOf(last) = end /\ last \in LineType
    <3>1. end \in Seq(Word) /\ Len(end) = 1 /\ end[1] # "#"
      <4>1. "}" \in Word
        BY DEF Word
      <4> QED
        BY <4>1, Tuples
    <3> HIDE DEF end
    <3>2. \A k \in 1..Len(end) : end[k] # "#"
      BY <3>1
    <3> QED
      BY <3>1, <3>2, BareLine
  <2>3. n \in Nat /\ DOMAIN body = 1..n
    BY <1>1, LenProperties
  <2>4. ASSUME NEW k \in 1..n
        PROVE  /\ TokensOf(others[k]) = DirectiveTokens(body[k], layout)
               /\ others[k] \in LineType /\ DirectiveTokens(body[k], layout) \in T
    <3>1. body[k] \in Seq(STRING)
      BY <1>1, ElementOfSeq
    <3>2. body[k] # <<>> /\ "#" \notin Range(body[k])
      BY <1>3, <2>3 DEF LegibleItem, LegibleDirective
    <3>3. others[k] = Remarked(Written(body[k], layout), layout)
      BY <2>3
    <3> HIDE DEF others, body
    <3> QED
      BY <3>1, <3>2, <3>3, DirectiveLine
  <2>5. others \in Seq(LineType) /\ said \in Seq(T) /\ TokensIn(others) = FlattenSeq(said)
    <3> HIDE DEF n, T
    <3>1. others \in [1..n -> LineType]
      BY <2>3, <2>4
    <3>2. said = [k \in DOMAIN body |-> DirectiveTokens(body[k], layout)]
      BY DEF BodyTokens
    <3>3. said \in [1..n -> T]
      BY <2>3, <2>4, <3>2
    <3>4. DOMAIN others = DOMAIN body
      OBVIOUS
    <3> HIDE DEF others, said, body
    <3>5. [k \in DOMAIN others |-> TokensOf(others[k])] = said
      BY <2>3, <2>4, <3>2, <3>4
    <3> QED
      BY <2>3, <3>1, <3>3, <3>5, MadeSeq DEF TokensIn
  <2>6. ItemLines(item, layout) = (<<first>> \o others) \o <<last>>
    BY <1>3 DEF ItemLines
  <2>7. ItemTokens(item, layout) = head \o (FlattenSeq(said) \o end)
    BY <1>3 DEF ItemTokens
  <2> HIDE DEF first, others, last, head, said, end
  <2>8. /\ <<first>> \in Seq(LineType) /\ <<last>> \in Seq(LineType)
        /\ TokensIn(<<first>>) = head /\ TokensIn(<<last>>) = end
    BY <2>1, <2>2, Tuples, TokensOne
  <2>9. TokensIn(<<first>> \o others) = head \o FlattenSeq(said)
        /\ <<first>> \o others \in Seq(LineType)
    BY <2>5, <2>8, TokensConcat, ConcatProperties
  <2>10. TokensIn((<<first>> \o others) \o <<last>>) = (head \o FlattenSeq(said)) \o end
    BY <2>8, <2>9, TokensConcat
  <2>11. FlattenSeq(said) \in Seq(Word)
    BY <2>5, FlattenFacts DEF T
  <2> DEFINE flat == FlattenSeq(said)
  <2> HIDE DEF flat
  <2>12. flat \in Seq(Word)
    BY <2>11 DEF flat
  <2>13. (head \o flat) \o end = head \o (flat \o end) /\ head \o (flat \o end) \in Seq(Word)
    <3>1. head \in Seq(Word) /\ end \in Seq(Word)
      BY <2>1, <2>2
    <3>2. (head \o flat) \o end = head \o (flat \o end)
      BY ONLY <3>1, <2>12, ConcatAssociative
    <3>3. head \o (flat \o end) \in Seq(Word)
      BY ONLY <3>1, <2>12, ConcatProperties
    <3> QED
      BY <3>2, <3>3
  <2> QED
    BY <2>5, <2>6, <2>7, <2>10, <2>13 DEF flat, said, T
<1> QED
  BY <1>1, <1>2, <1>3

\* A text begins as another.
Opens(s, t) ==
  Len(s) \in Nat /\ Len(s) <= Len(t) /\ \A j \in 1..Len(s) : s[j] = t[j]

\* The first part opens the whole, and a part of the second part can be opened, too.
LEMMA OpensConcat ==
  ASSUME NEW S, NEW a \in Seq(S), NEW b \in Seq(S), NEW c \in Seq(S)
  PROVE  /\ Opens(a, a \o b)
         /\ Opens(b, c) => Opens(a \o b, a \o c)
         /\ Opens(a, b) /\ Opens(b, c) => Opens(a, c)
<1> DEFINE u == a \o b
           v == a \o c
<1>1. Concatenated(u, a, b) /\ Concatenated(v, a, c)
  BY ConcatAt
<1> HIDE DEF u, v
<1>2. Opens(a, u)
  BY <1>1 DEF Opens, Concatenated
<1>3. ASSUME Opens(b, c)
      PROVE  Opens(u, v)
  <2>1. ASSUME NEW j \in 1..Len(u)
        PROVE  u[j] = v[j]
    <3>1. CASE j <= Len(a)
      BY <1>1, <3>1 DEF Concatenated
    <3>2. CASE ~(j <= Len(a))
      <4> DEFINE m == j - Len(a)
      <4>1. m \in 1..Len(b) /\ m \in 1..Len(c) /\ j = Len(a) + m
        BY <1>1, <1>3, <3>2 DEF Concatenated, Opens
      <4> HIDE DEF m
      <4> QED
        BY <1>1, <1>3, <4>1 DEF Concatenated, Opens
    <3> QED
      BY <3>1, <3>2
  <2> QED
    BY <1>1, <1>3, <2>1 DEF Concatenated, Opens
<1>4. Opens(a, b) /\ Opens(b, c) => Opens(a, c)
  <2>1. Len(a) \in Nat /\ Len(b) \in Nat /\ Len(c) \in Nat
    BY LenProperties
  <2> QED
    BY <2>1 DEF Opens
<1> QED
  BY <1>2, <1>3, <1>4 DEF u, v

\* The tokens of a server.
LEMMA ServerTold ==
  ASSUME NEW server \in Seq(ItemType), \A k \in DOMAIN server : LegibleItem(server[k]), NEW layout
  PROVE  /\ TokensIn(ServerLines(server, layout)) = ServerTokens(server, layout)
         /\ ServerTokens(server, layout) \in Seq(Word)
         /\ ItemsTokens(server, layout) \in Seq(Seq(Word))
<1> DEFINE n == Len(server)
           head == <<"server", "{">>
           end == <<"}">>
           first == Bare(head)
           last == Bare(end)
           ls == [k \in DOMAIN server |-> ItemLines(server[k], layout)]
           said == ItemsTokens(server, layout)
           T == Seq(LineType)
<1>1. n \in Nat /\ DOMAIN server = 1..n /\ \A k \in 1..n : server[k] \in ItemType
  BY LenProperties, ElementOfSeq
<1>2. head \in Seq(Word) /\ TokensOf(first) = head /\ first \in LineType
  <2>1. head \in Seq(Word)
    <3>1. "server" \in Word /\ "{" \in Word
      BY DEF Word
    <3> QED
      BY <3>1, Tuples
  <2>2. \A k \in 1..Len(head) : head[k] # "#"
    <3>1. Len(head) = 2 /\ head[1] # "#" /\ head[2] # "#"
      OBVIOUS
    <3> HIDE DEF head
    <3>2. \A k \in 1..Len(head) : k = 1 \/ k = 2
      BY <3>1
    <3> QED
      BY <3>1, <3>2
  <2> HIDE DEF head
  <2> QED
    BY <2>1, <2>2, BareLine
<1>3. end \in Seq(Word) /\ TokensOf(last) = end /\ last \in LineType
  <2>1. end \in Seq(Word) /\ Len(end) = 1 /\ end[1] # "#"
    <3>1. "}" \in Word
      BY DEF Word
    <3> QED
      BY <3>1, Tuples
  <2> HIDE DEF end
  <2>2. \A k \in 1..Len(end) : end[k] # "#"
    BY <2>1
  <2> QED
    BY <2>1, <2>2, BareLine
<1>4. ASSUME NEW k \in 1..n
      PROVE  /\ TokensIn(ls[k]) = said[k] /\ ls[k] \in T
  <2>1. server[k] \in ItemType /\ LegibleItem(server[k])
    BY <1>1
  <2>2. ls[k] = ItemLines(server[k], layout) /\ said[k] = ItemTokens(server[k], layout)
    BY <1>1 DEF ItemsTokens
  <2> QED
    BY <2>1, <2>2, ItemTold, ItemLinesTyped
<1>5. ls \in Seq(T) /\ DOMAIN ls = 1..n /\ DOMAIN said = 1..n
  <2> HIDE DEF n, T
  <2>1. ls \in [1..n -> T]
    BY <1>1, <1>4
  <2> HIDE DEF ls
  <2> QED
    BY <1>1, <2>1, MadeSeq DEF ItemsTokens
<1>6. ServerLines(server, layout) = (<<first>> \o FlattenSeq(ls)) \o <<last>>
  BY DEF ServerLines
<1>7. ServerTokens(server, layout) = head \o (FlattenSeq(said) \o end)
  BY DEF ServerTokens
<1>8. said = [k \in DOMAIN ls |-> TokensIn(ls[k])]
  <2>1. said = [k \in DOMAIN server |-> said[k]]
    BY DEF ItemsTokens
  <2> HIDE DEF ls, said
  <2> QED
    BY <1>1, <1>4, <1>5, <2>1
<1> HIDE DEF first, last, head, said, end, ls
<1>9. said \in Seq(Seq(Word)) /\ TokensIn(FlattenSeq(ls)) = FlattenSeq(said)
      /\ FlattenSeq(ls) \in Seq(LineType)
  BY <1>5, <1>8, TokensFlat, FlattenFacts
<1>10. /\ <<first>> \in Seq(LineType) /\ <<last>> \in Seq(LineType)
       /\ TokensIn(<<first>>) = head /\ TokensIn(<<last>>) = end
  BY <1>2, <1>3, Tuples, TokensOne
<1>11. TokensIn(<<first>> \o FlattenSeq(ls)) = head \o FlattenSeq(said)
       /\ <<first>> \o FlattenSeq(ls) \in Seq(LineType)
  BY <1>9, <1>10, TokensConcat, ConcatProperties
<1>12. TokensIn((<<first>> \o FlattenSeq(ls)) \o <<last>>) = (head \o FlattenSeq(said)) \o end
  BY <1>10, <1>11, TokensConcat
<1> DEFINE flat == FlattenSeq(said)
<1>13. flat \in Seq(Word)
  BY <1>9, FlattenFacts
<1> HIDE DEF flat
<1>14. (head \o flat) \o end = head \o (flat \o end) /\ head \o (flat \o end) \in Seq(Word)
  BY <1>2, <1>3, <1>13, ConcatAssociative, ConcatProperties
<1> QED
  BY <1>6, <1>7, <1>9, <1>12, <1>14 DEF flat, said

\* The tokens of a file.
LEMMA FileTold ==
  ASSUME NEW servers \in Seq(Seq(ItemType)), Legible(servers), NEW layout
  PROVE  /\ TokensIn(FileLines(servers, layout)) = FileTokens(servers, layout)
         /\ ServersTokens(servers, layout) \in Seq(Seq(Word))
         /\ FileTokens(servers, layout) \in Seq(Word)
<1> DEFINE n == Len(servers)
           ls == [k \in DOMAIN servers |-> ServerLines(servers[k], layout)]
           said == ServersTokens(servers, layout)
           T == Seq(LineType)
<1>1. n \in Nat /\ DOMAIN servers = 1..n /\ \A k \in 1..n : servers[k] \in Seq(ItemType)
  BY LenProperties, ElementOfSeq
<1>2. ASSUME NEW k \in 1..n
      PROVE  /\ TokensIn(ls[k]) = said[k] /\ ls[k] \in T
  <2>1. servers[k] \in Seq(ItemType) /\ \A j \in DOMAIN servers[k] : LegibleItem(servers[k][j])
    BY <1>1 DEF Legible
  <2>2. ls[k] = ServerLines(servers[k], layout) /\ said[k] = ServerTokens(servers[k], layout)
    BY <1>1 DEF ServersTokens
  <2>3. ServerLines(servers[k], layout) \in T
    BY <1>1, FileLinesTyped
  <2> QED
    BY <2>1, <2>2, <2>3, ServerTold
<1>3. ls \in Seq(T) /\ DOMAIN ls = 1..n /\ DOMAIN said = 1..n
  <2> HIDE DEF n, T
  <2>1. ls \in [1..n -> T]
    BY <1>1, <1>2
  <2> HIDE DEF ls
  <2> QED
    BY <1>1, <2>1, MadeSeq DEF ServersTokens
<1>4. said = [k \in DOMAIN ls |-> TokensIn(ls[k])]
  <2>1. said = [k \in DOMAIN servers |-> said[k]]
    BY DEF ServersTokens
  <2> HIDE DEF ls, said
  <2> QED
    BY <1>1, <1>2, <1>3, <2>1
<1>5. FileLines(servers, layout) = FlattenSeq(ls) /\ FileTokens(servers, layout) = FlattenSeq(said)
  BY DEF FileLines, FileTokens
<1> HIDE DEF said, ls
<1>6. said \in Seq(Seq(Word)) /\ TokensIn(FlattenSeq(ls)) = FlattenSeq(said)
  BY <1>3, <1>4, TokensFlat
<1>7. FlattenSeq(said) \in Seq(Word)
  BY <1>6, FlattenFacts
<1> QED
  BY <1>5, <1>6, <1>7 DEF said

\* How far a line is read.
LEMMA LineRead ==
  ASSUME NEW line \in LineType
  PROVE  \E c \in 0..Len(line) :
           /\ TokensOf(line) = LineTokens(SubSeq(line, 1, c))
           /\ \A k \in 1..c : line[k].text # "#"
           /\ c < Len(line) => line[c + 1].text = "#"
<1> DEFINE remark == {k \in DOMAIN line : line[k].text = "#"}
           C == remark \cup {Len(line) + 1}
           m == Min(C)
<1>1. Len(line) \in Nat /\ DOMAIN line = 1..Len(line)
  BY LenProperties DEF LineType
<1>2. C \in SUBSET Nat /\ C # {} /\ \A k \in C : k \in 1..(Len(line) + 1)
  BY <1>1
<1>3. \A k \in 1..Len(line) : k \in C <=> line[k].text = "#"
  BY <1>1
<1>4. TokensOf(line) = LineTokens(SubSeq(line, 1, m - 1))
  BY DEF TokensOf, LineTokens, Said
<1> HIDE DEF C
<1>5. m \in C /\ \A k \in C : m <= k
  BY <1>2, MinFacts
<1> HIDE DEF m
<1>6. m - 1 \in 0..Len(line)
  BY <1>1, <1>2, <1>5
<1>7. \A k \in 1..(m - 1) : line[k].text # "#"
  <2> SUFFICES ASSUME NEW k \in 1..(m - 1) PROVE line[k].text # "#"
    OBVIOUS
  <2>1. k \in 1..Len(line) /\ ~(m <= k)
    <3>1. m \in Nat
      BY <1>2, <1>5
    <3> QED
      BY <1>1, <1>6, <3>1
  <2> QED
    BY <1>3, <1>5, <2>1
<1>8. m - 1 < Len(line) => line[(m - 1) + 1].text = "#"
  <2> SUFFICES ASSUME m - 1 < Len(line) PROVE line[(m - 1) + 1].text = "#"
    OBVIOUS
  <2>1. m \in 1..Len(line) /\ (m - 1) + 1 = m
    BY <1>1, <1>2, <1>5
  <2> QED
    BY <1>3, <1>5, <2>1
<1> QED
  BY <1>4, <1>6, <1>7, <1>8

\* The words read of a line that is cut off are those of the whole line, as far as
\* they go.
LEMMA LineCutOff ==
  ASSUME NEW line \in LineType, NEW m \in 1..Len(line)
  PROVE  SubSeq(line, 1, m) \in LineType /\ Opens(TokensOf(SubSeq(line, 1, m)), TokensOf(line))
<1> DEFINE s == SubSeq(line, 1, m)
<1>1. Len(line) \in Nat /\ s \in LineType /\ Len(s) = m /\ \A k \in 1..m : s[k] = line[k]
  <2>1. Len(line) \in Nat
    BY LenProperties DEF LineType
  <2> QED
    BY <2>1, SubSeqFacts DEF LineType
<1>2. PICK c \in 0..Len(line) :
           /\ TokensOf(line) = LineTokens(SubSeq(line, 1, c))
           /\ \A k \in 1..c : line[k].text # "#"
           /\ c < Len(line) => line[c + 1].text = "#"
  BY LineRead
<1> HIDE DEF s
<1>3. PICK d \in 0..Len(s) :
           /\ TokensOf(s) = LineTokens(SubSeq(s, 1, d))
           /\ \A k \in 1..d : s[k].text # "#"
           /\ d < Len(s) => s[d + 1].text = "#"
  BY <1>1, LineRead
<1>4. d \in 0..c /\ c \in Nat /\ d \in 0..m /\ m \in 0..Len(line)
  <2>1. d \in Nat /\ d <= m /\ c \in Nat /\ m \in 0..Len(line)
    BY <1>1, <1>3
  <2>2. ~(c < d)
    <3> SUFFICES ASSUME c < d PROVE FALSE
      OBVIOUS
    <3>1. c + 1 \in 1..d /\ c + 1 \in 1..m /\ c < Len(line)
      BY <1>1, <2>1
    <3> QED
      BY <1>1, <1>2, <1>3, <3>1
  <2> QED
    BY <2>1, <2>2
<1>5. SubSeq(s, 1, d) = SubSeq(line, 1, d)
  BY <1>4, FrontOfFront DEF s, LineType
<1> DEFINE a == SubSeq(line, 1, c)
<1>6. a \in LineType /\ Len(a) = c
  BY <1>1, <1>4, SubSeqFacts DEF LineType
<1>7. SubSeq(a, 1, d) = SubSeq(line, 1, d)
  BY <1>4, FrontOfFront DEF LineType
<1> HIDE DEF a
<1>8. SubSeq(a, 1, d) \in LineType /\ Drop(d, a) \in LineType /\ SubSeq(a, 1, d) \o Drop(d, a) = a
  <2>1. a \in Seq(WordType) /\ d \in 0..Len(a) /\ d \in Nat /\ d <= Len(a)
    BY <1>4, <1>6 DEF LineType
  <2>2. SubSeq(a, 1, d) \in Seq(WordType)
    BY <2>1, SubSeqFacts
  <2>3. Drop(d, a) \in Seq(WordType)
    BY <2>1, DropFacts
  <2>4. SubSeq(a, 1, d) \o Drop(d, a) = a
    BY <2>1, TakeAndDrop
  <2> QED
    BY <2>2, <2>3, <2>4 DEF LineType
<1>9. LineTokens(SubSeq(a, 1, d) \o Drop(d, a)) = LineTokens(SubSeq(a, 1, d)) \o LineTokens(Drop(d, a))
  BY <1>8, LineConcat
<1>10. LineTokens(Drop(d, a)) \in Seq(Word)
  BY <1>8, SaidTyped
<1>11. TokensOf(line) = TokensOf(s) \o LineTokens(Drop(d, a))
  BY <1>2, <1>3, <1>5, <1>7, <1>8, <1>9 DEF a
<1>12. TokensOf(s) \in Seq(Word)
  BY <1>1, TokensOfTyped
<1>13. Opens(TokensOf(s), TokensOf(line))
  BY <1>10, <1>11, <1>12, OpensConcat
<1> QED
  BY <1>1, <1>13 DEF s

\* The tokens of a file that is cut off are those of the whole file, as far as they go.
LEMMA FileCutOff ==
  ASSUME NEW file \in Seq(LineType), NEW some \in Beginnings(file)
  PROVE  Opens(TokensIn(some), TokensIn(file))
<1>1. Len(file) \in Nat
  BY LenProperties
<1>2. ASSUME NEW k \in 0..Len(file)
      PROVE  /\ TokensIn(SubSeq(file, 1, k)) \in Seq(Word)
             /\ Opens(TokensIn(SubSeq(file, 1, k)), TokensIn(file))
  <2> DEFINE a == SubSeq(file, 1, k)
             b == Drop(k, file)
  <2>1. a \in Seq(LineType) /\ b \in Seq(LineType) /\ a \o b = file
    <3>1. k \in Nat /\ k <= Len(file)
      BY <1>1
    <3>2. a \in Seq(LineType)
      BY <3>1, SubSeqFacts
    <3>3. b \in Seq(LineType)
      BY <3>1, DropFacts
    <3>4. a \o b = file
      BY TakeAndDrop
    <3> QED
      BY <3>2, <3>3, <3>4
  <2> HIDE DEF a, b
  <2>2. TokensIn(a \o b) = TokensIn(a) \o TokensIn(b) /\ TokensIn(b) \in Seq(Word)
        /\ TokensIn(a) \in Seq(Word)
    BY <2>1, TokensConcat, TokensTyped
  <2>3. Opens(TokensIn(a), TokensIn(a) \o TokensIn(b))
    BY <2>2, OpensConcat
  <2> QED
    BY <2>1, <2>2, <2>3 DEF a
<1>3. ASSUME NEW k \in 0 .. Len(file) - 1, NEW m \in 1 .. Len(file[k + 1]) - 1,
             some = SubSeq(file, 1, k) \o <<SubSeq(file[k + 1], 1, m)>>
      PROVE  Opens(TokensIn(some), TokensIn(file))
  <2> DEFINE n == k + 1
             line == file[n]
             cut == SubSeq(line, 1, m)
             a == SubSeq(file, 1, k)
  <2>1. n \in 1..Len(file) /\ n - 1 = k /\ n \in 0..Len(file) /\ k \in 0..Len(file)
    BY <1>1
  <2> HIDE DEF n
  <2>2. a \in Seq(LineType) /\ line \in LineType /\ SubSeq(file, 1, n) = Append(a, line)
    BY <2>1, FrontMore
  <2> HIDE DEF a
  <2>3. m \in 1..Len(line)
    <3>1. Len(line) \in Nat /\ m \in 1 .. Len(line) - 1
      BY <2>2, LenProperties DEF LineType, n
    <3> QED
      BY <3>1
  <2> HIDE DEF line
  <2>4. cut \in LineType /\ Opens(TokensOf(cut), TokensOf(line))
    BY <2>2, <2>3, LineCutOff
  <2> HIDE DEF cut
  <2> DEFINE A == TokensIn(a)
             B == TokensOf(cut)
             C == TokensOf(line)
             F == TokensIn(file)
  <2>5. TokensIn(SubSeq(file, 1, n)) = A \o C
    <3>1. Append(a, line) = a \o <<line>> /\ <<line>> \in Seq(LineType)
      BY <2>2, AppendIsConcat
    <3>2. TokensIn(a \o <<line>>) = TokensIn(a) \o TokensIn(<<line>>)
          /\ TokensIn(<<line>>) = TokensOf(line)
      BY <2>2, <3>1, TokensConcat, TokensOne
    <3> QED
      BY <2>2, <3>1, <3>2
  <2>6. TokensIn(some) = A \o B
    <3>1. some = a \o <<cut>> /\ <<cut>> \in Seq(LineType)
      BY <1>3, <2>4 DEF a, cut, line, n
    <3>2. TokensIn(a \o <<cut>>) = TokensIn(a) \o TokensIn(<<cut>>) /\ TokensIn(<<cut>>) = TokensOf(cut)
      BY <2>2, <2>4, <3>1, TokensConcat, TokensOne
    <3> QED
      BY <3>1, <3>2
  <2>7. A \in Seq(Word) /\ B \in Seq(Word) /\ C \in Seq(Word) /\ F \in Seq(Word)
    BY <2>2, <2>4, TokensTyped, TokensOfTyped
  <2>8. Opens(A \o C, F)
    BY <1>2, <2>1, <2>5
  <2>9. Opens(B, C)
    BY <2>4
  <2> HIDE DEF A, B, C, F
  <2>10. Opens(A \o B, A \o C) /\ A \o B \in Seq(Word) /\ A \o C \in Seq(Word)
    BY <2>7, <2>9, OpensConcat, ConcatProperties
  <2> DEFINE x == A \o B
             y == A \o C
  <2> HIDE DEF x, y
  <2>11. Opens(x, F)
    <3>1. x \in Seq(Word) /\ y \in Seq(Word) /\ Opens(x, y) /\ Opens(y, F)
      BY <2>8, <2>10 DEF x, y
    <3> QED
      BY <2>7, <3>1, OpensConcat
  <2> QED
    BY <2>6, <2>11 DEF x, F
<1> DEFINE Ragged(k) == {SubSeq(file, 1, k) \o <<SubSeq(file[k + 1], 1, m)>> :
                           m \in 1 .. Len(file[k + 1]) - 1}
<1>4. \/ \E k \in 0..Len(file) : some = SubSeq(file, 1, k)
      \/ \E k \in 0 .. Len(file) - 1 : some \in Ragged(k)
  BY DEF Beginnings
<1>5. CASE \E k \in 0..Len(file) : some = SubSeq(file, 1, k)
  BY <1>2, <1>5
<1>6. CASE \E k \in 0 .. Len(file) - 1 : some \in Ragged(k)
  BY <1>3, <1>6
<1> QED
  BY <1>4, <1>5, <1>6

----------------------------------------------------------------------------
(* Where in the file its servers, items and directives are.                *)

\* How many tokens there are up to the end of a server, of an item of a server,
\* of a directive of a block.
ServerEnd(layout, s) == Reached(ServersTokens(source, layout), s)
ItemEnd(layout, s, k) ==
  ServerEnd(layout, s - 1) + 2 + Reached(ItemsTokens(source[s], layout), k)
DirectiveEnd(layout, s, k, d) ==
  ItemEnd(layout, s, k - 1) + 3 + Reached(BodyTokens(source[s][k], layout), d)

\* The words stand behind the p-th token, as far as the file goes.
Stand(p, words) == \A j \in 1..Len(words) : p + j <= Len(tokens) => tokens[p + j] = words[j]

\* Two texts that stand together stand one behind the other.
LEMMA StandConcat ==
  ASSUME NEW S, NEW a \in Seq(S), NEW b \in Seq(S), NEW p \in Nat, Stand(p, a \o b)
  PROVE  Stand(p, a) /\ Stand(p + Len(a), b)
<1> DEFINE u == a \o b
<1>1. Concatenated(u, a, b) /\ Stand(p, u)
  BY ConcatAt
<1> HIDE DEF u
<1>2. Stand(p, a)
  BY <1>1 DEF Concatenated, Stand
<1>3. ASSUME NEW j \in 1..Len(b), (p + Len(a)) + j <= Len(tokens)
      PROVE  tokens[(p + Len(a)) + j] = b[j]
  <2> DEFINE m == Len(a) + j
  <2>1. m \in 1..Len(u) /\ p + m = (p + Len(a)) + j /\ u[m] = b[j]
    BY <1>1 DEF Concatenated
  <2> HIDE DEF m
  <2> QED
    BY <1>1, <1>3, <2>1 DEF Stand
<1> QED
  BY <1>2, <1>3 DEF Stand

\* So do more of them.
LEMMA StandFlat ==
  ASSUME NEW S, NEW ss \in Seq(Seq(S)), NEW p \in Nat, Stand(p, FlattenSeq(ss)),
         NEW k \in 1..Len(ss)
  PROVE  Stand(p + Reached(ss, k - 1), ss[k])
<1> DEFINE r == Reached(ss, k - 1)
           flat == FlattenSeq(ss)
<1>1. FlatPlaces(ss) /\ Len(ss) \in Nat
  BY FlatParts, LenProperties
<1>2. k - 1 \in 0..Len(ss) /\ k \in 0..Len(ss)
  BY <1>1
<1>3. /\ r \in Nat /\ r + Len(ss[k]) <= Len(flat) /\ Len(flat) \in Nat /\ Len(ss[k]) \in Nat
      /\ \A j \in 1..Len(ss[k]) : flat[r + j] = ss[k][j]
  <2>1. flat \in Seq(S) /\ ss[k] \in Seq(S)
    BY FlattenFacts, ElementOfSeq
  <2>2. Len(flat) \in Nat /\ Len(ss[k]) \in Nat
    BY <2>1, LenProperties
  <2> QED
    BY <1>1, <1>2, <2>2 DEF FlatPlaces
<1> HIDE DEF r, flat
<1>4. ASSUME NEW j \in 1..Len(ss[k]), (p + r) + j <= Len(tokens)
      PROVE  tokens[(p + r) + j] = ss[k][j]
  <2> DEFINE m == r + j
  <2>1. m \in 1..Len(flat) /\ p + m = (p + r) + j /\ flat[m] = ss[k][j]
    BY <1>3
  <2> HIDE DEF m
  <2> QED
    BY <1>4, <2>1 DEF Stand, flat
<1> QED
  BY <1>4 DEF Stand, r

\* A text between two others, and its parts.
LEMMA Enclosed ==
  ASSUME NEW S, NEW head \in Seq(S), NEW ss \in Seq(Seq(S)), NEW last \in Seq(S),
         Len(last) = 1, NEW p \in Nat, Stand(p, head \o (FlattenSeq(ss) \o last))
  PROVE  LET q == p + Len(head)
             n == Len(ss)
         IN /\ Stand(p, head)
            /\ \A k \in 1..n : Stand(q + Reached(ss, k - 1), ss[k])
            /\ Stand(q + Reached(ss, n), last)
            /\ Len(head \o (FlattenSeq(ss) \o last)) = Len(head) + Reached(ss, n) + 1
<1> DEFINE flat == FlattenSeq(ss)
           rest == flat \o last
           q == p + Len(head)
           n == Len(ss)
<1>1. flat \in Seq(S) /\ Stand(p, head \o rest)
  BY FlattenFacts
<1>2. Reached(ss, n) = Len(flat)
  BY FlatParts DEF FlatPlaces
<1> HIDE DEF flat
<1>3. rest \in Seq(S) /\ Len(rest) = Len(flat) + Len(last)
  BY ONLY <1>1, last \in Seq(S), ConcatProperties
<1>4. Len(head) \in Nat /\ Len(flat) \in Nat /\ n \in Nat /\ q \in Nat
  BY <1>1, LenProperties
<1>5. Stand(q, rest)
  <2> HIDE DEF rest, q
  <2>1. Stand(p, head) /\ Stand(p + Len(head), rest)
    BY <1>1, <1>3, StandConcat
  <2> QED
    BY <2>1 DEF q
<1>6. Stand(p, head)
  <2> HIDE DEF rest
  <2> QED
    BY <1>1, <1>3, StandConcat
<1>7. Len(head \o rest) = Len(head) + Len(rest)
  <2> HIDE DEF rest
  <2> QED
    BY ONLY <1>3, head \in Seq(S), ConcatProperties
<1> HIDE DEF q
<1>8. Stand(q, flat) /\ Stand(q + Len(flat), last)
  BY <1>1, <1>4, <1>5, StandConcat
<1>9. \A k \in 1..n : Stand(q + Reached(ss, k - 1), ss[k])
  BY <1>4, <1>8, StandFlat DEF flat
<1>10. Len(head \o rest) = Len(head) + Reached(ss, n) + 1
  BY <1>2, <1>3, <1>4, <1>7
<1> QED
  BY <1>2, <1>6, <1>8, <1>9, <1>10 DEF q, flat

\* The places of a file's servers.
FilePlaces(layout) ==
  /\ ServerEnd(layout, 0) = 0
  /\ ServerEnd(layout, Len(source)) = Len(FileTokens(source, layout))
  /\ \A s \in 0..Len(source) : /\ ServerEnd(layout, s) \in Nat
                               /\ ServerEnd(layout, s) <= Len(FileTokens(source, layout))
  /\ \A s \in 1..Len(source) : Stand(ServerEnd(layout, s - 1), <<"server", "{">>)
\* The places of a server's items.
ServerPlaces(layout, s) ==
  LET n == Len(source[s]) IN
  /\ ItemEnd(layout, s, 0) = ServerEnd(layout, s - 1) + 2
  /\ Stand(ItemEnd(layout, s, n), <<"}">>)
  /\ ServerEnd(layout, s) = ItemEnd(layout, s, n) + 1
  /\ \A k \in 0..n : /\ ItemEnd(layout, s, k) \in Nat
                     /\ ItemEnd(layout, s, k) <= ItemEnd(layout, s, n)
  /\ \A k \in 1..n :
       LET t == ItemTokens(source[s][k], layout) IN
       /\ ItemEnd(layout, s, k) = ItemEnd(layout, s, k - 1) + Len(t)
       /\ Stand(ItemEnd(layout, s, k - 1), t)
\* The places of a block's directives.
BlockPlaces(layout, s, k) ==
  LET body == source[s][k].body
      n == Len(body)
  IN
  /\ Stand(ItemEnd(layout, s, k - 1), source[s][k].words \o <<"{">>)
  /\ DirectiveEnd(layout, s, k, 0) = ItemEnd(layout, s, k - 1) + 3
  /\ Stand(DirectiveEnd(layout, s, k, n), <<"}">>)
  /\ ItemEnd(layout, s, k) = DirectiveEnd(layout, s, k, n) + 1
  /\ \A d \in 0..n : /\ DirectiveEnd(layout, s, k, d) \in Nat
                     /\ DirectiveEnd(layout, s, k, d) <= DirectiveEnd(layout, s, k, n)
  /\ \A d \in 1..n :
       LET t == DirectiveTokens(body[d], layout) IN
       /\ DirectiveEnd(layout, s, k, d) = DirectiveEnd(layout, s, k, d - 1) + Len(t)
       /\ Stand(DirectiveEnd(layout, s, k, d - 1), t)

\* What is laid out in servers is laid out in items.
LEMMA PlacesOfServer ==
  ASSUME NEW layout, NEW s \in 1..Len(source), source[s] \in Seq(ItemType),
         \A k \in DOMAIN source[s] : LegibleItem(source[s][k]),
         ServerEnd(layout, s - 1) \in Nat,
         ServerEnd(layout, s) = ServerEnd(layout, s - 1) + Len(ServerTokens(source[s], layout)),
         Stand(ServerEnd(layout, s - 1), ServerTokens(source[s], layout))
  PROVE  ServerPlaces(layout, s) /\ Stand(ServerEnd(layout, s - 1), <<"server", "{">>)
<1> DEFINE p == ServerEnd(layout, s - 1)
           ss == ItemsTokens(source[s], layout)
           head == <<"server", "{">>
           flat == FlattenSeq(ss)
           last == <<"}">>
           n == Len(source[s])
<1>1. ss \in Seq(Seq(Word)) /\ flat \in Seq(Word)
  BY ServerTold, FlattenFacts
<1>2. head \in Seq(Word) /\ last \in Seq(Word) /\ Len(head) = 2 /\ Len(last) = 1
  <2>1. "server" \in Word /\ "{" \in Word /\ "}" \in Word
    BY DEF Word
  <2>2. head \in Seq(Word) /\ last \in Seq(Word)
    BY ONLY <2>1, Tuples
  <2> QED
    BY <2>2
<1>3. n \in Nat /\ DOMAIN source[s] = 1..n
  BY LenProperties
<1>4. Len(ss) = n /\ \A k \in 1..n : ss[k] = ItemTokens(source[s][k], layout)
  <2>1. DOMAIN ss = 1..n /\ \A k \in 1..n : ss[k] = ItemTokens(source[s][k], layout)
    BY <1>3 DEF ItemsTokens
  <2> HIDE DEF ss, n
  <2> QED
    BY <1>1, <1>3, <2>1, LenProperties
<1>5. ServerTokens(source[s], layout) = head \o (flat \o last)
  BY DEF ServerTokens
<1>6. p \in Nat /\ Stand(p, ServerTokens(source[s], layout))
      /\ ServerEnd(layout, s) = p + Len(ServerTokens(source[s], layout))
  OBVIOUS
<1>7. \A k : ItemEnd(layout, s, k) = p + 2 + Reached(ss, k)
  BY DEF ItemEnd
<1> HIDE DEF p, ss, head, flat, last, n
<1>8. FlatPlaces(ss)
  BY <1>1, FlatParts
<1> DEFINE q == p + 2
<1>9. q \in Nat /\ q = p + Len(head)
  BY <1>2, <1>6
<1>10. /\ Stand(p, head)
       /\ \A k \in 1..n : Stand(q + Reached(ss, k - 1), ss[k])
       /\ Stand(q + Reached(ss, n), last)
       /\ Len(ServerTokens(source[s], layout)) = 2 + Reached(ss, n) + 1
  <2> HIDE DEF q
  <2>1. Stand(p, head \o (FlattenSeq(ss) \o last))
    BY <1>5, <1>6 DEF flat
  <2>2. LET r == p + Len(head)
            m == Len(ss)
        IN /\ Stand(p, head)
           /\ \A k \in 1..m : Stand(r + Reached(ss, k - 1), ss[k])
           /\ Stand(r + Reached(ss, m), last)
           /\ Len(head \o (FlattenSeq(ss) \o last)) = Len(head) + Reached(ss, m) + 1
    BY ONLY <1>1, <1>2, <1>6, <2>1, Enclosed
  <2> QED
    BY <1>2, <1>4, <1>5, <1>9, <2>2 DEF flat
<1>11. /\ \A k : ItemEnd(layout, s, k) = q + Reached(ss, k)
       /\ \A k \in 0..n : Reached(ss, k) \in Nat /\ Reached(ss, k) <= Reached(ss, n)
       /\ Reached(ss, 0) = 0 /\ Reached(ss, n) \in Nat
       /\ \A k \in 1..n : /\ Reached(ss, k) = Reached(ss, k - 1) + Len(ss[k])
                           /\ Len(ss[k]) \in Nat
  <2>1. n \in 0..n /\ \A k \in 1..n : Len(ss[k]) \in Nat
    BY <1>1, <1>3, <1>4, ElementOfSeq, LenProperties
  <2> QED
    BY <1>3, <1>4, <1>7, <1>8, <2>1 DEF FlatPlaces, q
<1>14. n \in 0..n /\ \A k \in 1..n : k - 1 \in 0..n /\ k \in 0..n
  BY <1>3
<1> HIDE DEF q
<1>15. ItemEnd(layout, s, 0) = q /\ ItemEnd(layout, s, n) = q + Reached(ss, n)
  BY <1>9, <1>11
<1>16. ServerEnd(layout, s) = ItemEnd(layout, s, n) + 1
  BY <1>5, <1>6, <1>9, <1>10, <1>11, <1>15 DEF q
<1>17. ASSUME NEW k \in 0..n
       PROVE  ItemEnd(layout, s, k) \in Nat /\ ItemEnd(layout, s, k) <= ItemEnd(layout, s, n)
  <2>1. /\ ItemEnd(layout, s, k) = q + Reached(ss, k) /\ ItemEnd(layout, s, n) = q + Reached(ss, n)
        /\ Reached(ss, k) \in Nat /\ Reached(ss, k) <= Reached(ss, n)
    BY <1>11
  <2>2. q \in Nat /\ Reached(ss, n) \in Nat
    BY <1>9, <1>11
  <2> QED
    BY ONLY <2>1, <2>2
<1>18. ASSUME NEW k \in 1..n
       PROVE  ItemEnd(layout, s, k) = ItemEnd(layout, s, k - 1) + Len(ss[k]) /\ Stand(ItemEnd(layout, s, k - 1), ss[k])
  <2>1. k - 1 \in 0..n
    BY <1>14
  <2>2. /\ ItemEnd(layout, s, k) = q + Reached(ss, k) /\ ItemEnd(layout, s, k - 1) = q + Reached(ss, k - 1)
        /\ Reached(ss, k - 1) \in Nat /\ Len(ss[k]) \in Nat
        /\ Reached(ss, k) = Reached(ss, k - 1) + Len(ss[k])
    BY <1>11, <2>1
  <2>3. Stand(q + Reached(ss, k - 1), ss[k])
    BY <1>10
  <2> QED
    BY <1>9, <2>2, <2>3
<1>19. \A k \in 1..n : LET t == ItemTokens(source[s][k], layout) IN
         /\ ItemEnd(layout, s, k) = ItemEnd(layout, s, k - 1) + Len(t)
         /\ Stand(ItemEnd(layout, s, k - 1), t)
  BY <1>4, <1>18
<1>20. Stand(ItemEnd(layout, s, n), last)
  BY <1>10, <1>15
<1> QED
  BY <1>10, <1>15, <1>16, <1>17, <1>19, <1>20 DEF ServerPlaces, p, q, n, head, last

\* What is laid out in items is laid out in directives.
LEMMA PlacesOfBlock ==
  ASSUME NEW layout, NEW s, NEW k, source[s][k] \in ItemType, LegibleItem(source[s][k]),
         source[s][k].block, ItemEnd(layout, s, k - 1) \in Nat,
         ItemEnd(layout, s, k) = ItemEnd(layout, s, k - 1) + Len(ItemTokens(source[s][k], layout)),
         Stand(ItemEnd(layout, s, k - 1), ItemTokens(source[s][k], layout))
  PROVE  BlockPlaces(layout, s, k)
<1> DEFINE item == source[s][k]
           p == ItemEnd(layout, s, k - 1)
           ss == BodyTokens(item, layout)
           head == item.words \o <<"{">>
           flat == FlattenSeq(ss)
           last == <<"}">>
           n == Len(item.body)
<1>1. ss \in Seq(Seq(Word)) /\ flat \in Seq(Word)
  BY ItemTold, FlattenFacts
<1>2. head \in Seq(Word) /\ last \in Seq(Word) /\ Len(head) = 3 /\ Len(last) = 1
  <2>1. "}" \in Word
    BY DEF Word
  <2>2. last \in Seq(Word) /\ Len(last) = 1
    BY <2>1, Tuples
  <2>3. item.words \in Seq(STRING) /\ Len(item.words) = 2 /\ item.words[1] = "location"
        /\ item.words[2] # "#"
    BY DEF ItemType, LegibleItem
  <2> HIDE DEF last, item
  <2>4. head \in Seq(Word) /\ Len(head) = 3
    BY <2>3, BlockWords
  <2> QED
    BY <2>2, <2>4
<1>3. n \in Nat /\ DOMAIN item.body = 1..n
  BY LenProperties DEF ItemType
<1>4. Len(ss) = n /\ \A d \in 1..n : ss[d] = DirectiveTokens(item.body[d], layout)
  <2>1. DOMAIN ss = 1..n /\ \A d \in 1..n : ss[d] = DirectiveTokens(item.body[d], layout)
    BY <1>3 DEF BodyTokens
  <2> HIDE DEF ss, n
  <2> QED
    BY <1>1, <1>3, <2>1, LenProperties
<1>5. ItemTokens(item, layout) = head \o (flat \o last)
  BY DEF ItemTokens
<1>6. p \in Nat /\ Stand(p, ItemTokens(item, layout))
      /\ ItemEnd(layout, s, k) = p + Len(ItemTokens(item, layout))
  OBVIOUS
<1>7. \A d : DirectiveEnd(layout, s, k, d) = p + 3 + Reached(ss, d)
  BY DEF DirectiveEnd
<1> HIDE DEF item, p, ss, head, flat, last, n
<1>8. FlatPlaces(ss)
  BY <1>1, FlatParts
<1> DEFINE q == p + 3
<1>9. q \in Nat /\ q = p + Len(head)
  BY <1>2, <1>6
<1>10. /\ Stand(p, head)
       /\ \A d \in 1..n : Stand(q + Reached(ss, d - 1), ss[d])
       /\ Stand(q + Reached(ss, n), last)
       /\ Len(ItemTokens(item, layout)) = 3 + Reached(ss, n) + 1
  <2> HIDE DEF q
  <2>1. Stand(p, head \o (FlattenSeq(ss) \o last))
    BY <1>5, <1>6 DEF flat
  <2>2. LET r == p + Len(head)
            m == Len(ss)
        IN /\ Stand(p, head)
           /\ \A d \in 1..m : Stand(r + Reached(ss, d - 1), ss[d])
           /\ Stand(r + Reached(ss, m), last)
           /\ Len(head \o (FlattenSeq(ss) \o last)) = Len(head) + Reached(ss, m) + 1
    BY ONLY <1>1, <1>2, <1>6, <2>1, Enclosed
  <2> QED
    BY <1>2, <1>4, <1>5, <1>9, <2>2 DEF flat
<1>11. /\ \A d : DirectiveEnd(layout, s, k, d) = q + Reached(ss, d)
       /\ \A d \in 0..n : Reached(ss, d) \in Nat /\ Reached(ss, d) <= Reached(ss, n)
       /\ Reached(ss, 0) = 0 /\ Reached(ss, n) \in Nat
       /\ \A d \in 1..n : /\ Reached(ss, d) = Reached(ss, d - 1) + Len(ss[d])
                           /\ Len(ss[d]) \in Nat
  <2>1. n \in 0..n /\ \A d \in 1..n : Len(ss[d]) \in Nat
    BY <1>1, <1>3, <1>4, ElementOfSeq, LenProperties
  <2> QED
    BY <1>3, <1>4, <1>7, <1>8, <2>1 DEF FlatPlaces, q
<1>14. n \in 0..n /\ \A d \in 1..n : d - 1 \in 0..n /\ d \in 0..n
  BY <1>3
<1> HIDE DEF q
<1>15. DirectiveEnd(layout, s, k, 0) = q /\ DirectiveEnd(layout, s, k, n) = q + Reached(ss, n)
  BY <1>9, <1>11
<1>16. ItemEnd(layout, s, k) = DirectiveEnd(layout, s, k, n) + 1
  BY <1>5, <1>6, <1>9, <1>10, <1>11, <1>15 DEF q
<1>17. ASSUME NEW d \in 0..n
       PROVE  DirectiveEnd(layout, s, k, d) \in Nat /\ DirectiveEnd(layout, s, k, d) <= DirectiveEnd(layout, s, k, n)
  <2>1. /\ DirectiveEnd(layout, s, k, d) = q + Reached(ss, d) /\ DirectiveEnd(layout, s, k, n) = q + Reached(ss, n)
        /\ Reached(ss, d) \in Nat /\ Reached(ss, d) <= Reached(ss, n)
    BY <1>11
  <2> QED
    BY <1>9, <1>11, <2>1
<1>18. ASSUME NEW d \in 1..n
       PROVE  DirectiveEnd(layout, s, k, d) = DirectiveEnd(layout, s, k, d - 1) + Len(ss[d]) /\ Stand(DirectiveEnd(layout, s, k, d - 1), ss[d])
  <2>1. d - 1 \in 0..n
    BY <1>14
  <2>2. /\ DirectiveEnd(layout, s, k, d) = q + Reached(ss, d) /\ DirectiveEnd(layout, s, k, d - 1) = q + Reached(ss, d - 1)
        /\ Reached(ss, d - 1) \in Nat /\ Len(ss[d]) \in Nat
        /\ Reached(ss, d) = Reached(ss, d - 1) + Len(ss[d])
    BY <1>11, <2>1
  <2>3. Stand(q + Reached(ss, d - 1), ss[d])
    BY <1>10
  <2> QED
    BY <1>9, <2>2, <2>3
<1>19. \A d \in 1..n : LET t == DirectiveTokens(item.body[d], layout) IN
         /\ DirectiveEnd(layout, s, k, d) = DirectiveEnd(layout, s, k, d - 1) + Len(t)
         /\ Stand(DirectiveEnd(layout, s, k, d - 1), t)
  BY <1>4, <1>18
<1>20. Stand(DirectiveEnd(layout, s, k, n), last)
  BY <1>10, <1>15
<1> QED
  BY <1>10, <1>15, <1>16, <1>17, <1>19, <1>20 DEF BlockPlaces, p, q, n, head, last, item

\* All places of a file.
Mapped(layout) ==
  /\ FilePlaces(layout)
  /\ \A s \in 1..Len(source) : ServerPlaces(layout, s)
  /\ \A s \in 1..Len(source) : \A k \in 1..Len(source[s]) :
       source[s][k].block => BlockPlaces(layout, s, k)

\* A file that begins as one written from the source has these places.
LEMMA PlacesKnown ==
  ASSUME NEW layout, source \in Seq(Seq(ItemType)), Legible(source),
         Opens(tokens, FileTokens(source, layout))
  PROVE  Mapped(layout)
<1> DEFINE n == Len(source)
           ss == ServersTokens(source, layout)
           zero == 0
<1>1. n \in Nat /\ DOMAIN source = 1..n /\ \A s \in 1..n : source[s] \in Seq(ItemType)
  BY LenProperties, ElementOfSeq
<1>2. ss \in Seq(Seq(Word)) /\ FileTokens(source, layout) = FlattenSeq(ss)
  BY FileTold DEF FileTokens
<1>3. Len(ss) = n /\ \A s \in 1..n : ss[s] = ServerTokens(source[s], layout)
  <2>1. DOMAIN ss = 1..n /\ \A s \in 1..n : ss[s] = ServerTokens(source[s], layout)
    BY <1>1 DEF ServersTokens
  <2> HIDE DEF ss, n
  <2> QED
    BY <1>1, <1>2, <2>1, LenProperties
<1>4. \A s : ServerEnd(layout, s) = Reached(ss, s)
  BY DEF ServerEnd
<1> HIDE DEF ss
<1>5. \A s \in 1..n : Stand(ServerEnd(layout, s - 1), ss[s])
  <2>1. Stand(zero, FlattenSeq(ss)) /\ zero \in Nat
    BY <1>2 DEF Stand, Opens
  <2> HIDE DEF zero
  <2>2. \A s \in 1..n : Stand(zero + Reached(ss, s - 1), ss[s])
    BY <1>2, <1>3, <2>1, StandFlat
  <2>3. \A s \in 1..n : s - 1 \in 0..n
    BY <1>1
  <2>4. \A s \in 0..n : Reached(ss, s) \in Nat
    BY <1>2, <1>3, FlatParts DEF FlatPlaces
  <2>5. ASSUME NEW s \in 1..n
        PROVE  zero + Reached(ss, s - 1) = ServerEnd(layout, s - 1)
    <3>1. Reached(ss, s - 1) \in Nat
      BY <2>3, <2>4
    <3>2. zero + Reached(ss, s - 1) = Reached(ss, s - 1)
      BY ONLY <3>1 DEF zero
    <3> QED
      BY <1>4, <3>2
  <2> QED
    BY <2>2, <2>5
<1>6. /\ ServerEnd(layout, 0) = 0 /\ ServerEnd(layout, n) = Len(FlattenSeq(ss))
      /\ \A s \in 0..n : ServerEnd(layout, s) \in Nat /\ ServerEnd(layout, s) <= ServerEnd(layout, n)
      /\ \A s \in 1..n : ServerEnd(layout, s) = ServerEnd(layout, s - 1) + Len(ss[s])
  BY <1>1, <1>2, <1>3, <1>4, FlatParts DEF FlatPlaces
<1>8. \A s \in 1..n : s - 1 \in 0..n /\ s \in 0..n
  BY <1>1
<1> HIDE DEF n
<1>10. ASSUME NEW s \in 1..n
       PROVE  ServerPlaces(layout, s) /\ Stand(ServerEnd(layout, s - 1), <<"server", "{">>)
  <2>1. /\ ServerEnd(layout, s - 1) \in Nat
        /\ ServerEnd(layout, s) = ServerEnd(layout, s - 1) + Len(ServerTokens(source[s], layout))
        /\ Stand(ServerEnd(layout, s - 1), ServerTokens(source[s], layout))
    BY <1>3, <1>5, <1>6, <1>8
  <2>2. source[s] \in Seq(ItemType) /\ \A k \in DOMAIN source[s] : LegibleItem(source[s][k])
    BY <1>1 DEF Legible
  <2>3. s \in 1..Len(source)
    BY DEF n
  <2> QED
    BY <2>1, <2>2, <2>3, PlacesOfServer
<1>11. ASSUME NEW s \in 1..n, NEW k \in 1..Len(source[s]), source[s][k].block
       PROVE  BlockPlaces(layout, s, k)
  <2>1. source[s] \in Seq(ItemType) /\ DOMAIN source[s] = 1..Len(source[s]) /\ Len(source[s]) \in Nat
    BY <1>1, LenProperties
  <2>2. source[s][k] \in ItemType /\ LegibleItem(source[s][k])
    BY <1>1, <2>1, ElementOfSeq DEF Legible
  <2>3. k - 1 \in 0..Len(source[s])
    BY <2>1
  <2>4. /\ ItemEnd(layout, s, k - 1) \in Nat
        /\ ItemEnd(layout, s, k) = ItemEnd(layout, s, k - 1) + Len(ItemTokens(source[s][k], layout))
        /\ Stand(ItemEnd(layout, s, k - 1), ItemTokens(source[s][k], layout))
    BY <1>10, <2>3 DEF ServerPlaces
  <2> QED
    BY <1>11, <2>2, <2>4, PlacesOfBlock
<1>12. FilePlaces(layout)
  <2>1. ServerEnd(layout, 0) = 0 /\ ServerEnd(layout, n) = Len(FileTokens(source, layout))
    BY <1>2, <1>6
  <2>2. \A s \in 0..n : ServerEnd(layout, s) \in Nat
                        /\ ServerEnd(layout, s) <= Len(FileTokens(source, layout))
    BY <1>2, <1>6
  <2> QED
    BY <1>10, <2>1, <2>2 DEF FilePlaces, n
<1> QED
  BY <1>10, <1>11, <1>12 DEF Mapped, n

----------------------------------------------------------------------------
(* What one directive more adds to the meaning of a location.              *)

\* One more member.
More(c, b, w) ==
  /\ Len(b) \in Nat /\ DOMAIN b = 1..Len(b) /\ DOMAIN c = 1..(Len(b) + 1)
  /\ \A k \in 1..Len(b) : c[k] = b[k]
  /\ c[Len(b) + 1] = w

\* So it is when one is appended.
LEMMA MoreAppended ==
  ASSUME NEW S, NEW b \in Seq(S), NEW w \in S
  PROVE  More(Append(b, w), b, w)
<1>1. Len(b) \in Nat /\ DOMAIN b = 1..Len(b)
  BY LenProperties
<1>2. /\ Append(b, w) \in Seq(S) /\ Len(Append(b, w)) = Len(b) + 1
      /\ \A k \in 1..Len(b) : Append(b, w)[k] = b[k]
      /\ Append(b, w)[Len(b) + 1] = w
  BY AppendProperties
<1> DEFINE c == Append(b, w)
<1> HIDE DEF c
<1>3. DOMAIN c = 1..Len(c)
  BY <1>2, LenProperties DEF c
<1> QED
  BY <1>1, <1>2, <1>3 DEF c, More

\* One part more in a flattened sequence.
LEMMA FlatMore ==
  ASSUME NEW S, NEW g \in Seq(Seq(S)), NEW x \in Seq(S), NEW h, h = [k \in DOMAIN h |-> h[k]],
         More(h, g, x)
  PROVE  h \in Seq(Seq(S)) /\ FlattenSeq(h) = FlattenSeq(g) \o x
<1> DEFINE T == Seq(S)
           n == Len(g) + 1
           a == Append(g, x)
<1>1. Len(g) \in Nat /\ n \in Nat /\ \A k \in 1..Len(g) : g[k] \in T
  BY LenProperties, ElementOfSeq
<1>2. a \in Seq(T) /\ More(a, g, x) /\ Len(a) = n
  <2> HIDE DEF T
  <2>1. g \in Seq(T) /\ x \in T
    BY DEF T
  <2> QED
    BY <2>1, AppendProperties, MoreAppended
<1>3. FlattenSeq(a) = FlattenSeq(g) \o x
  BY FlattenFacts
<1>4. \A k \in 1..n : h[k] = a[k] /\ h[k] \in T
  <2> HIDE DEF a, T
  <2>1. ASSUME NEW k \in 1..n
        PROVE  h[k] = a[k] /\ h[k] \in T
    <3>1. k \in 1..Len(g) \/ k = Len(g) + 1
      BY <1>1
    <3>2. x \in T
      BY DEF T
    <3> QED
      BY <1>1, <1>2, <3>1, <3>2 DEF More
  <2> QED
    BY <2>1
<1> HIDE DEF T, a
<1>5. h \in Seq(T) /\ Len(h) = n
  <2>1. h \in [1..n -> T]
    BY <1>4 DEF More
  <2> HIDE DEF n
  <2> QED
    BY <1>1, <2>1, MadeSeq
<1>6. h = a
  BY <1>2, <1>4, <1>5, SeqEqual
<1> QED
  BY <1>3, <1>5, <1>6 DEF T

\* Where directives of a name stand then.
LEMMA PlacesMore ==
  ASSUME NEW b, NEW c, NEW w, More(c, b, w), NEW name
  PROVE  /\ Places(b, name) \subseteq 1..Len(b)
         /\ w[1] = name => Places(c, name) = Places(b, name) \cup {Len(b) + 1}
         /\ w[1] # name => Places(c, name) = Places(b, name)
         /\ \A k \in Places(b, name) : c[k] = b[k]
         /\ Len(b) + 1 \notin Places(b, name)
BY DEF Places, More

\* What the last of them says.
LEMMA LastSaidMore ==
  ASSUME NEW b, NEW c, NEW w, More(c, b, w), NEW name, NEW n, NEW default
  PROVE  LastSaid(c, name, n, default) = IF w[1] = name THEN w[n] ELSE LastSaid(b, name, n, default)
<1> DEFINE P == Places(b, name)
           Q == Places(c, name)
           m == Len(b)
<1>1. m \in Nat /\ P \subseteq 1..m /\ (w[1] = name => Q = P \cup {m + 1}) /\ (w[1] # name => Q = P)
      /\ \A k \in P : c[k] = b[k]
  BY PlacesMore DEF More
<1>2. c[m + 1] = w
  BY DEF More
<1> HIDE DEF P, Q, m
<1>3. CASE w[1] = name
  <2>1. Q \in SUBSET (1..(m + 1)) /\ m + 1 \in Q
    <3>1. Q = P \cup {m + 1}
      BY <1>1, <1>3
    <3>2. \A k \in 1..m : k \in 1..(m + 1)
      BY <1>1
    <3>3. m + 1 \in 1..(m + 1)
      BY <1>1
    <3> QED
      BY <1>1, <3>1, <3>2, <3>3
  <2>2. Max(Q) = m + 1
    BY <1>1, <2>1, MaxOfPlaces
  <2> QED
    BY <1>2, <1>3, <2>1, <2>2 DEF LastSaid, Q
<1>4. CASE w[1] # name
  <2>1. P # {} => Max(P) \in P
    BY <1>1, MaxOfPlaces
  <2> QED
    BY <1>1, <1>4, <2>1 DEF LastSaid, P, Q
<1> QED
  BY <1>3, <1>4

\* What all of them say.
LEMMA ArgumentsMore ==
  ASSUME NEW S, NEW b \in Seq(Seq(S)), NEW w \in Seq(S), w # <<>>, \A k \in 1..Len(b) : b[k] # <<>>,
         NEW c, More(c, b, w), NEW name
  PROVE  /\ Arguments(b, name) \in Seq(S)
         /\ Arguments(c, name) = IF w[1] = name THEN Arguments(b, name) \o Tail(w)
                                 ELSE Arguments(b, name)
<1> DEFINE f(d) == IF d[1] = name THEN Tail(d) ELSE <<>>
           g == [k \in DOMAIN b |-> f(b[k])]
           h == [k \in DOMAIN c |-> f(c[k])]
           n == Len(b)
           T == Seq(S)
<1>1. n \in Nat /\ DOMAIN b = 1..n /\ \A k \in 1..n : b[k] \in Seq(S)
  BY LenProperties, ElementOfSeq
<1>2. \A d \in Seq(S) : d # <<>> => f(d) \in Seq(S)
  BY HeadTailProperties, EmptySeq
<1>3. \A k \in 1..n : f(b[k]) \in Seq(S)
  BY <1>1, <1>2
<1>4. f(w) \in Seq(S)
  BY <1>2
<1>5. DOMAIN g = 1..n /\ (\A k \in 1..n : g[k] = f(b[k])) /\ g = [k \in DOMAIN g |-> g[k]]
      /\ DOMAIN h = 1..(n + 1) /\ (\A k \in 1..(n + 1) : h[k] = f(c[k])) /\ h = [k \in DOMAIN h |-> h[k]]
  BY <1>1 DEF More
<1>6. h[n + 1] = f(w) /\ \A k \in 1..n : h[k] = g[k]
  <2>1. n + 1 \in 1..(n + 1) /\ \A k \in 1..n : k \in 1..(n + 1)
    BY <1>1
  <2>2. c[n + 1] = w /\ \A k \in 1..n : c[k] = b[k]
    BY DEF More
  <2> HIDE DEF f, g, h, n
  <2> QED
    BY <1>5, <2>1, <2>2
<1> DEFINE x == f(w)
<1> HIDE DEF g, h, x
<1>7. g \in Seq(T) /\ Len(g) = n
  <2> HIDE DEF f, T, n
  <2>1. g \in [1..n -> T]
    BY <1>3, <1>5 DEF T
  <2> QED
    BY <1>1, <2>1, MadeSeq
<1>8. More(h, g, x)
  <2> HIDE DEF f, n
  <2> QED
    BY <1>1, <1>5, <1>6, <1>7 DEF More, x
<1>9. FlattenSeq(h) = FlattenSeq(g) \o x /\ FlattenSeq(g) \in Seq(S)
  <2>1. g \in Seq(Seq(S)) /\ x \in Seq(S)
    BY <1>4, <1>7 DEF x
  <2>2. h = [k \in DOMAIN h |-> h[k]]
    BY <1>5
  <2>3. FlattenSeq(h) = FlattenSeq(g) \o x
    BY ONLY <1>8, <2>1, <2>2, FlatMore
  <2> QED
    BY <2>1, <2>3, FlattenFacts
<1>10. Arguments(b, name) = FlattenSeq(g) /\ Arguments(c, name) = FlattenSeq(h)
  BY DEF Arguments, g, h
<1>11. FlattenSeq(g) \o <<>> = FlattenSeq(g)
  BY <1>9, ConcatEmptySeq
<1> QED
  BY <1>9, <1>10, <1>11 DEF x

\* One key more, for the directive behind the first n.
KeyMore(more, keys, n) ==
  /\ DOMAIN keys \subseteq 1..n /\ DOMAIN more = DOMAIN keys \cup {n + 1}
  /\ \A k \in DOMAIN keys : more[k] = keys[k]

\* What their table is.
LEMMA TableMore ==
  ASSUME NEW b, NEW c, NEW w, More(c, b, w), NEW keys, NEW more, KeyMore(more, keys, Len(b))
  PROVE  Table(c, more) = Insert(Table(b, keys), more[Len(b) + 1], w[3])
<1> DEFINE m == Len(b)
           D == DOMAIN keys
           x == more[m + 1]
           R == Range(keys)
           A(y) == {k \in DOMAIN keys : keys[k] = y}
           B(y) == {k \in DOMAIN more : more[k] = y}
           t == Table(b, keys)
<1>0. /\ DOMAIN keys \subseteq 1..Len(b) /\ DOMAIN more = DOMAIN keys \cup {Len(b) + 1}
      /\ \A k \in DOMAIN keys : more[k] = keys[k]
  BY DEF KeyMore
<1>1. m \in Nat /\ D \subseteq 1..m /\ c[m + 1] = w /\ \A k \in D : c[k] = b[k]
  BY <1>0 DEF More
<1>2. Range(more) = R \cup {x}
  BY <1>0 DEF Range
<1>3. t = [y \in R |-> b[Min(A(y))][3]] /\ Table(c, more) = [y \in R \cup {x} |-> c[Min(B(y))][3]]
  BY <1>2 DEF Table
<1>4. ASSUME NEW y \in R
      PROVE  c[Min(B(y))][3] = b[Min(A(y))][3]
  <2>1. A(y) # {}
    BY DEF Range
  <2>2. A(y) \in SUBSET Nat /\ A(y) \subseteq D
    BY <1>1
  <2>3. Min(A(y)) \in A(y) /\ \A k \in A(y) : Min(A(y)) <= k
    <3> DEFINE M == A(y)
    <3> HIDE DEF M
    <3>1. M \in SUBSET Nat /\ M # {}
      BY <2>1, <2>2 DEF M
    <3>2. Min(M) \in M /\ \A k \in M : Min(M) <= k
      BY <3>1, MinFacts
    <3> QED
      BY <3>2 DEF M
  <2>4. A(y) \subseteq B(y) /\ B(y) \subseteq A(y) \cup {m + 1}
    BY <1>0 DEF m
  <2>5. B(y) \in SUBSET Nat /\ B(y) # {}
    BY <1>1, <2>1, <2>2, <2>4
  <2>6. Min(B(y)) \in B(y) /\ \A k \in B(y) : Min(B(y)) <= k
    <3> DEFINE M == B(y)
    <3> HIDE DEF M
    <3>1. M \in SUBSET Nat /\ M # {}
      BY <2>5 DEF M
    <3>2. Min(M) \in M /\ \A k \in M : Min(M) <= k
      BY <3>1, MinFacts
    <3> QED
      BY <3>2 DEF M
  <2> DEFINE p == Min(A(y))
             q == Min(B(y))
  <2> HIDE DEF p, q, A, B
  <2>7. p \in A(y) /\ q \in B(y) /\ q <= p /\ p \in 1..m /\ q \in 1..(m + 1)
    BY <1>1, <2>2, <2>3, <2>4, <2>6 DEF p, q
  <2>8. q # m + 1
    BY <1>1, <2>7
  <2>9. q \in A(y) /\ p <= q
    BY <2>3, <2>4, <2>7, <2>8 DEF p
  <2>10. p = q /\ p \in D
    BY <2>2, <2>7, <2>9
  <2> QED
    BY <1>1, <2>10 DEF p, q
<1>5. ASSUME x \notin R
      PROVE  c[Min(B(x))][3] = w[3]
  <2>1. B(x) = {m + 1}
    BY <1>0, <1>5 DEF Range
  <2>2. Min({m + 1}) = m + 1
    <3> DEFINE M == {m + 1}
    <3>1. M \in SUBSET Nat /\ M # {} /\ \A k \in M : k = m + 1
      BY <1>1
    <3> HIDE DEF M
    <3>2. Min(M) \in M
      BY <3>1, MinFacts
    <3> QED
      BY <3>1, <3>2 DEF M
  <2> QED
    BY <1>1, <2>1, <2>2
<1> DEFINE v(y) == c[Min(B(y))][3]
<1>6. DOMAIN t = R /\ \A y \in R : t[y] = v(y)
  BY <1>3, <1>4
<1>7. \A y \in R \cup {x} : v(y) = IF y \in DOMAIN t THEN t[y] ELSE w[3]
  BY <1>5, <1>6
<1>8. Table(c, more) = [y \in R \cup {x} |-> v(y)]
  BY <1>3
<1> HIDE DEF v, t, R, x
<1>9. Table(c, more) = [y \in DOMAIN t \cup {x} |-> IF y \in DOMAIN t THEN t[y] ELSE w[3]]
  BY <1>6, <1>7, <1>8
<1> QED
  BY <1>9 DEF Insert, t, x, m

\* A list without its empty names.
Named(name) == IF name = "" THEN <<>> ELSE <<name>>
NoEmpty(list) == FlattenSeq([k \in DOMAIN list |-> Named(list[k])])

\* The lists of an index, one after the other.
LEMMA NoEmptyConcat ==
  ASSUME NEW a \in Seq(Word), NEW b \in Seq(Word)
  PROVE  /\ NoEmpty(a \o b) = NoEmpty(a) \o NoEmpty(b) /\ NoEmpty(a) \in Seq(Word)
         /\ NoEmpty(<<>>) = <<>> /\ NoEmpty(<<"">>) = <<>>
         /\ (\A k \in 1..Len(b) : b[k] # "") => NoEmpty(b) = b
<1> DEFINE h(s) == [k \in DOMAIN s |-> Named(s[k])]
           T == Seq(Word)
           u == a \o b
<1>1. \A x \in Word : Named(x) \in T
  BY EmptySeq, Tuples DEF Named
<1>2. ASSUME NEW s \in Seq(Word)
      PROVE  h(s) \in Seq(T) /\ Len(h(s)) = Len(s) /\ DOMAIN s = 1..Len(s)
             /\ DOMAIN h(s) = 1..Len(s) /\ \A k \in 1..Len(s) : h(s)[k] = Named(s[k])
  <2> DEFINE n == Len(s)
  <2>1. n \in Nat /\ DOMAIN s = 1..n /\ \A k \in 1..n : s[k] \in Word
    BY LenProperties, ElementOfSeq
  <2> HIDE DEF n, T
  <2>2. h(s) \in [1..n -> T]
    BY <1>1, <2>1
  <2> DEFINE g == h(s)
  <2> HIDE DEF g
  <2>3. g \in Seq(T) /\ Len(g) = n
    BY <2>1, <2>2, MadeSeq DEF g
  <2> QED
    BY <2>1, <2>3 DEF n, g
<1>3. u \in Seq(Word) /\ Concatenated(u, a, b)
  BY ConcatAt
<1> HIDE DEF u
<1> DEFINE ha == h(a)
           hb == h(b)
           hu == h(u)
<1>4. /\ ha \in Seq(T) /\ hb \in Seq(T) /\ hu \in Seq(T)
      /\ Len(ha) = Len(a) /\ Len(hb) = Len(b) /\ Len(hu) = Len(u)
      /\ \A k \in 1..Len(a) : ha[k] = Named(a[k])
      /\ \A k \in 1..Len(b) : hb[k] = Named(b[k])
      /\ \A k \in 1..Len(u) : hu[k] = Named(u[k])
  BY <1>2, <1>3
<1> HIDE DEF ha, hb, hu
<1>5. Concatenated(hu, ha, hb)
  <2>1. /\ Len(a) \in Nat /\ Len(b) \in Nat /\ Len(u) = Len(a) + Len(b)
        /\ \A k \in 1..Len(a) : u[k] = a[k] /\ k \in 1..Len(u)
        /\ \A k \in 1..Len(b) : u[Len(a) + k] = b[k] /\ Len(a) + k \in 1..Len(u)
    BY <1>3 DEF Concatenated
  <2>2. Len(hu) = Len(ha) + Len(hb)
    BY <1>4, <2>1
  <2>3. \A k \in 1..Len(a) : hu[k] = ha[k]
    BY <1>4, <2>1
  <2>4. \A k \in 1..Len(b) : hu[Len(a) + k] = hb[k]
    BY <1>4, <2>1
  <2> QED
    BY <1>4, <2>1, <2>2, <2>3, <2>4 DEF Concatenated
<1>6. hu = ha \o hb
  BY ONLY <1>4, <1>5, ConcatIs
<1>7. FlattenSeq(ha \o hb) = FlattenSeq(ha) \o FlattenSeq(hb) /\ FlattenSeq(ha) \in Seq(Word)
  BY <1>4, FlatConcat, FlattenFacts
<1>8. NoEmpty(a) = FlattenSeq(ha) /\ NoEmpty(b) = FlattenSeq(hb) /\ NoEmpty(u) = FlattenSeq(hu)
  BY DEF NoEmpty, ha, hb, hu
<1>9. NoEmpty(<<>>) = <<>>
  <2>1. [k \in DOMAIN <<>> |-> Named(<<>>[k])] = <<>>
    OBVIOUS
  <2>2. FlattenSeq(<<>>) = <<>>
    BY EmptySeq, FlattenFacts
  <2> QED
    BY <2>1, <2>2 DEF NoEmpty
<1>10. NoEmpty(<<"">>) = <<>>
  <2>2. <<>> \in Seq(Word)
    BY EmptySeq
  <2>1. [k \in DOMAIN <<"">> |-> Named(<<"">>[k])] = << <<>> >>
    <3> DEFINE s == <<"">>
               z == << <<>> >>
    <3>0. "" \in Word
      BY DEF Word
    <3>01. Len(s) = 1 /\ Len(z) = 1
      OBVIOUS
    <3>1. s[1] = "" /\ z[1] = <<>>
      OBVIOUS
    <3>2. s \in Seq(Word)
      BY <3>0, Tuples
    <3>3. z \in Seq(T)
      BY <2>2, Tuples
    <3> DEFINE y == h(s)
    <3> HIDE DEF s
    <3>5. y \in Seq(T) /\ Len(y) = Len(s) /\ \A k \in 1..Len(s) : y[k] = Named(s[k])
      BY <1>2, <3>2
    <3> HIDE DEF y, z, T
    <3>6. Named(s[1]) = z[1]
      BY ONLY <3>1 DEF Named
    <3>7. Len(y) = 1 /\ 1 \in 1..Len(s) /\ Len(z) = 1
      BY ONLY <3>01, <3>5
    <3>8. y[1] = z[1]
      BY ONLY <3>5, <3>6, <3>7
    <3>9. \A k \in 1..Len(y) : y[k] = z[k]
      BY ONLY <3>7, <3>8
    <3>10. y = z
      BY ONLY <3>3, <3>5, <3>7, <3>9, SeqEqual
    <3> QED
      BY <3>10 DEF y, s, z
  <2>3. FlattenSeq(<< <<>> >>) = <<>>
    BY <2>2, FlatOne
  <2> QED
    BY <2>1, <2>3 DEF NoEmpty
<1>11. ASSUME \A k \in 1..Len(b) : b[k] # ""
       PROVE  NoEmpty(b) = b
  <2>1. DOMAIN b = 1..Len(b)
    BY LenProperties
  <2>2. h(b) = [k \in DOMAIN b |-> <<b[k]>>]
    BY <1>11, <2>1 DEF Named
  <2>3. NoEmpty(b) = FlattenSeq(h(b))
    BY DEF NoEmpty
  <2> QED
    BY <2>2, <2>3, FlatSingles
<1> QED
  BY <1>6, <1>7, <1>8, <1>9, <1>10, <1>11 DEF u

\* What the directives of a body make of a location.
CgiKeys(body) == [k \in Places(body, "cgi") |-> body[k][2]]
ErrorKeys(body) == [k \in Places(body, "error_page") |-> NumberOf[body[k][2]]]
Redirection(body) ==
  IF Places(body, "return") = {} THEN <<0, "">>
  ELSE <<NumberOf[LastSaid(body, "return", 2, "")], LastSaid(body, "return", 3, "")>>
Root(body) == LastSaid(body, "root", 2, "")
Store(body) == LastSaid(body, "upload_store", 2, "")
Index(body) == Arguments(body, "index")
Allowed(body) == Arguments(body, "methods")
Cgi(body) == Table(body, CgiKeys(body))
Errors(body) == Table(body, ErrorKeys(body))
Moved(body) == Places(body, "return") # {}
Listed(body) == <<"autoindex", "on">> \in Range(body)
BodyMeans(l, body) ==
  /\ l.root = Root(body) /\ l.upload_store = Store(body) /\ NoEmpty(l.index) = Index(body)
  /\ l.methods = Allowed(body) /\ l.cgi = Cgi(body) /\ l.errors = Errors(body)
  /\ l.redir = Redirection(body)
  /\ (l.isRedirection <=> Moved(body)) /\ (l.autoindex <=> Listed(body))

\* The words a directive has.
LEMMA DirectiveWords ==
  ASSUME NEW w \in Seq(STRING), LegibleDirective(w)
  PROVE  /\ w # <<>> /\ Len(w) \in Nat /\ DOMAIN w = 1..Len(w) /\ 1 \in 1..Len(w)
         /\ w[1] \in {"root", "upload_store", "autoindex"} => Len(w) = 2
         /\ w[1] \in {"error_page", "cgi", "return"} => Len(w) = 3
         /\ w[1] = "index" => Range(Tail(w)) \cap {";", ""} = {}
         /\ w[1] = "methods" => Range(Tail(w)) \subseteq Methods
         /\ w[1] \notin Directives => Range(w) \cap LocationWords = {}
<1>1. w # <<>> /\ Len(w) \in Nat /\ DOMAIN w = 1..Len(w) /\ 1 \in 1..Len(w)
  <2>1. w # <<>>
    BY DEF LegibleDirective
  <2>2. Len(w) \in Nat \ {0}
    BY <2>1, EmptySeq
  <2> QED
    BY <2>1, <2>2, LenProperties
<1>2. w[1] \in Range(w)
  BY <1>1 DEF Range
<1>3. w[1] \in Directives => w[1] \in LocationWords
  BY DEF Directives, LocationWords
<1> QED
  BY <1>1, <1>2, <1>3 DEF LegibleDirective, Directives

\* A directive of the name adds to its table, another one leaves it.
LEMMA TableOf ==
  ASSUME NEW b, NEW c, NEW w, More(c, b, w), NEW name, NEW keys, NEW more,
         DOMAIN keys = Places(b, name), DOMAIN more = Places(c, name),
         \A k \in DOMAIN keys : more[k] = keys[k]
  PROVE  /\ w[1] = name => /\ Len(b) + 1 \in DOMAIN more
                           /\ Table(c, more) = Insert(Table(b, keys), more[Len(b) + 1], w[3])
         /\ w[1] # name => Table(c, more) = Table(b, keys)
<1>0. More(c, b, w)
  OBVIOUS
<1>1. DOMAIN keys \subseteq 1..Len(b)
  BY ONLY <1>0, DOMAIN keys = Places(b, name), PlacesMore
<1>2. \A k \in DOMAIN keys : c[k] = b[k]
  BY ONLY <1>0, DOMAIN keys = Places(b, name), PlacesMore
<1>3. ASSUME w[1] = name
      PROVE  /\ Len(b) + 1 \in DOMAIN more
             /\ Table(c, more) = Insert(Table(b, keys), more[Len(b) + 1], w[3])
  <2>1. Places(c, name) = Places(b, name) \cup {Len(b) + 1}
    BY ONLY <1>0, <1>3, PlacesMore
  <2>2. DOMAIN more = DOMAIN keys \cup {Len(b) + 1}
    BY <2>1
  <2>3. Table(c, more) = Insert(Table(b, keys), more[Len(b) + 1], w[3])
    <3>1. KeyMore(more, keys, Len(b))
      BY <1>1, <2>2 DEF KeyMore
    <3> QED
      BY ONLY <1>0, <3>1, TableMore
  <2> QED
    BY <2>2, <2>3
<1>4. ASSUME w[1] # name
      PROVE  Table(c, more) = Table(b, keys)
  <2>1. DOMAIN more = DOMAIN keys
    <3>1. Places(c, name) = Places(b, name)
      BY ONLY <1>0, <1>4, PlacesMore
    <3> QED
      BY <3>1
  <2>2. Range(more) = Range(keys)
    BY <2>1 DEF Range
  <2>3. \A y : {k \in DOMAIN more : more[k] = y} = {k \in DOMAIN keys : keys[k] = y}
    BY <2>1
  <2>4. ASSUME NEW y \in Range(keys)
        PROVE  c[Min({k \in DOMAIN keys : keys[k] = y})] = b[Min({k \in DOMAIN keys : keys[k] = y})]
    <3> DEFINE M == {k \in DOMAIN keys : keys[k] = y}
    <3>1. M \in SUBSET Nat /\ M # {} /\ M \subseteq DOMAIN keys
      BY <1>1 DEF Range, More
    <3> HIDE DEF M
    <3>2. Min(M) \in M
      BY <3>1, MinFacts
    <3>3. c[Min(M)] = b[Min(M)]
      BY <1>2, <3>1, <3>2
    <3> QED
      BY <3>3 DEF M
  <2> QED
    BY <2>2, <2>3, <2>4 DEF Table
<1> QED
  BY <1>3, <1>4

\* What the words of one name do.
LEMMA WordsMore ==
  ASSUME NEW b \in Seq(Seq(STRING)), \A k \in 1..Len(b) : b[k] # <<>>,
         NEW w \in Seq(STRING), w # <<>>, NEW c, More(c, b, w)
  PROVE  /\ Root(c) = IF w[1] = "root" THEN w[2] ELSE Root(b)
         /\ Store(c) = IF w[1] = "upload_store" THEN w[2] ELSE Store(b)
         /\ Index(c) = IF w[1] = "index" THEN Index(b) \o Tail(w) ELSE Index(b)
         /\ Allowed(c) = IF w[1] = "methods" THEN Allowed(b) \o Tail(w) ELSE Allowed(b)
         /\ Moved(c) <=> w[1] = "return" \/ Moved(b)
         /\ Redirection(c) = IF w[1] = "return" THEN <<NumberOf[w[2]], w[3]>> ELSE Redirection(b)
<1>0. More(c, b, w)
  OBVIOUS
<1>1. ASSUME NEW name, NEW n, NEW none
      PROVE  LastSaid(c, name, n, none) = IF w[1] = name THEN w[n] ELSE LastSaid(b, name, n, none)
  BY ONLY <1>0, LastSaidMore
<1>2. ASSUME NEW name
      PROVE  Arguments(c, name) = IF w[1] = name THEN Arguments(b, name) \o Tail(w)
                                  ELSE Arguments(b, name)
  <2>1. w # <<>>
    OBVIOUS
  <2>2. b \in Seq(Seq(STRING)) /\ w \in Seq(STRING) /\ \A k \in 1..Len(b) : b[k] # <<>>
    OBVIOUS
  <2> QED
    BY ONLY <1>0, <2>1, <2>2, ArgumentsMore
<1>3. ASSUME NEW name
      PROVE  Places(c, name) # {} <=> w[1] = name \/ Places(b, name) # {}
  <2>1. w[1] = name => Places(c, name) = Places(b, name) \cup {Len(b) + 1}
    BY ONLY <1>0, PlacesMore
  <2>2. w[1] # name => Places(c, name) = Places(b, name)
    BY ONLY <1>0, PlacesMore
  <2> QED
    BY <2>1, <2>2
<1> DEFINE none == ""
           root == "root"
           store == "upload_store"
           index == "index"
           methods == "methods"
           return == "return"
<1> HIDE DEF none, root, store, index, methods, return
<1>4. LastSaid(c, root, 2, none) = IF w[1] = root THEN w[2] ELSE LastSaid(b, root, 2, none)
  BY <1>1
<1>5. LastSaid(c, store, 2, none) = IF w[1] = store THEN w[2] ELSE LastSaid(b, store, 2, none)
  BY <1>1
<1>6. LastSaid(c, return, 2, none) = IF w[1] = return THEN w[2] ELSE LastSaid(b, return, 2, none)
  BY <1>1
<1>7. LastSaid(c, return, 3, none) = IF w[1] = return THEN w[3] ELSE LastSaid(b, return, 3, none)
  BY <1>1
<1>8. Arguments(c, index) = IF w[1] = index THEN Arguments(b, index) \o Tail(w) ELSE Arguments(b, index)
  BY <1>2
<1>9. Arguments(c, methods) = IF w[1] = methods THEN Arguments(b, methods) \o Tail(w)
                              ELSE Arguments(b, methods)
  BY <1>2
<1>10. Places(c, return) # {} <=> w[1] = return \/ Places(b, return) # {}
  BY <1>3
<1> DEFINE R(body) == IF Places(body, return) = {} THEN <<0, none>>
                      ELSE <<NumberOf[LastSaid(body, return, 2, none)], LastSaid(body, return, 3, none)>>
<1>11. R(c) = IF w[1] = return THEN <<NumberOf[w[2]], w[3]>> ELSE R(b)
  BY <1>6, <1>7, <1>10
<1>12. Root(c) = IF w[1] = "root" THEN w[2] ELSE Root(b)
  BY <1>4 DEF root, none, Root
<1>13. Store(c) = IF w[1] = "upload_store" THEN w[2] ELSE Store(b)
  BY <1>5 DEF store, none, Store
<1>14. Index(c) = IF w[1] = "index" THEN Index(b) \o Tail(w) ELSE Index(b)
  BY <1>8 DEF index, Index
<1>15. Allowed(c) = IF w[1] = "methods" THEN Allowed(b) \o Tail(w) ELSE Allowed(b)
  BY <1>9 DEF methods, Allowed
<1>16. Moved(c) <=> w[1] = "return" \/ Moved(b)
  BY <1>10 DEF return, Moved
<1>17. Redirection(c) = IF w[1] = "return" THEN <<NumberOf[w[2]], w[3]>> ELSE Redirection(b)
  BY <1>11 DEF return, none, Redirection
<1> QED
  BY <1>12, <1>13, <1>14, <1>15, <1>16, <1>17

\* What the tables and the autoindex become.
LEMMA TablesMore ==
  ASSUME NEW b \in Seq(Seq(STRING)), NEW w \in Seq(STRING), LegibleDirective(w), NEW c, More(c, b, w)
  PROVE  /\ Cgi(c) = IF w[1] = "cgi" THEN Insert(Cgi(b), w[2], w[3]) ELSE Cgi(b)
         /\ Errors(c) = IF w[1] = "error_page" THEN Insert(Errors(b), NumberOf[w[2]], w[3])
                        ELSE Errors(b)
         /\ Listed(c) <=> Listed(b) \/ (w[1] = "autoindex" /\ w[2] = "on")
<1>0. More(c, b, w)
  OBVIOUS
<1>1. ASSUME NEW name
      PROVE  \A k \in Places(b, name) : k \in Places(c, name) /\ c[k] = b[k]
  <2>1. Places(b, name) \subseteq Places(c, name)
    <3>1. w[1] = name => Places(c, name) = Places(b, name) \cup {Len(b) + 1}
      BY ONLY <1>0, PlacesMore
    <3>2. w[1] # name => Places(c, name) = Places(b, name)
      BY ONLY <1>0, PlacesMore
    <3> QED
      BY <3>1, <3>2
  <2>2. \A k \in Places(b, name) : c[k] = b[k]
    BY ONLY <1>0, PlacesMore
  <2> QED
    BY <2>1, <2>2
<1>2. c[Len(b) + 1] = w
  BY DEF More
<1>3. Cgi(c) = IF w[1] = "cgi" THEN Insert(Cgi(b), w[2], w[3]) ELSE Cgi(b)
  <2> DEFINE name == "cgi"
             keys == CgiKeys(b)
             more == CgiKeys(c)
  <2>1. keys = [k \in Places(b, name) |-> b[k][2]] /\ more = [k \in Places(c, name) |-> c[k][2]]
    BY DEF CgiKeys
  <2> HIDE DEF keys, more, name
  <2>2. DOMAIN keys = Places(b, name) /\ DOMAIN more = Places(c, name)
    BY <2>1
  <2>3. \A k \in DOMAIN keys : more[k] = keys[k]
    BY <1>1, <2>1
  <2>4. w[1] = name => /\ Len(b) + 1 \in DOMAIN more
                       /\ Table(c, more) = Insert(Table(b, keys), more[Len(b) + 1], w[3])
    BY ONLY <1>0, <2>2, <2>3, TableOf
  <2>5. w[1] # name => Table(c, more) = Table(b, keys)
    BY ONLY <1>0, <2>2, <2>3, TableOf
  <2>6. w[1] = name => more[Len(b) + 1] = w[2]
    BY <1>2, <2>1, <2>2, <2>4
  <2> QED
    BY <2>4, <2>5, <2>6 DEF Cgi, keys, more, name
<1>4. Errors(c) = IF w[1] = "error_page" THEN Insert(Errors(b), NumberOf[w[2]], w[3]) ELSE Errors(b)
  <2> DEFINE name == "error_page"
             keys == ErrorKeys(b)
             more == ErrorKeys(c)
  <2>1. /\ keys = [k \in Places(b, name) |-> NumberOf[b[k][2]]]
        /\ more = [k \in Places(c, name) |-> NumberOf[c[k][2]]]
    BY DEF ErrorKeys
  <2> HIDE DEF keys, more, name
  <2>2. DOMAIN keys = Places(b, name) /\ DOMAIN more = Places(c, name)
    BY <2>1
  <2>3. \A k \in DOMAIN keys : more[k] = keys[k]
    BY <1>1, <2>1
  <2>4. w[1] = name => /\ Len(b) + 1 \in DOMAIN more
                       /\ Table(c, more) = Insert(Table(b, keys), more[Len(b) + 1], w[3])
    BY ONLY <1>0, <2>2, <2>3, TableOf
  <2>5. w[1] # name => Table(c, more) = Table(b, keys)
    BY ONLY <1>0, <2>2, <2>3, TableOf
  <2>6. w[1] = name => more[Len(b) + 1] = NumberOf[w[2]]
    BY <1>2, <2>1, <2>2, <2>4
  <2> QED
    BY <2>4, <2>5, <2>6 DEF Errors, keys, more, name
<1>5. Listed(c) <=> Listed(b) \/ (w[1] = "autoindex" /\ w[2] = "on")
  <2> DEFINE on == <<"autoindex", "on">>
             T == STRING \cup {"autoindex", "on"}
  <2>1. on[1] = "autoindex" /\ on[2] = "on" /\ Len(on) = 2
    OBVIOUS
  <2>2. on \in Seq(T)
    <3>1. "autoindex" \in T /\ "on" \in T
      OBVIOUS
    <3> HIDE DEF T
    <3> QED
      BY <3>1, Tuples
  <2> HIDE DEF on, T
  <2>3. w[1] = "autoindex" /\ w[2] = "on" => w = on
    <3> SUFFICES ASSUME w[1] = "autoindex", w[2] = "on" PROVE w = on
      OBVIOUS
    <3>1. Len(w) = 2
      BY DirectiveWords
    <3>2. w \in Seq(T)
      BY SeqInto DEF T
    <3>3. \A k \in 1..2 : w[k] = on[k]
      BY <2>1
    <3> QED
      BY <2>1, <2>2, <3>1, <3>2, <3>3, SeqEqual
  <2>4. Range(c) = Range(b) \cup {w}
    <3>1. /\ Len(b) \in Nat /\ DOMAIN b = 1..Len(b) /\ DOMAIN c = 1..(Len(b) + 1)
          /\ \A k \in 1..Len(b) : c[k] = b[k]
          /\ c[Len(b) + 1] = w
      BY DEF More
    <3>2. DOMAIN c = DOMAIN b \cup {Len(b) + 1}
      BY <3>1
    <3> QED
      BY <3>1, <3>2 DEF Range
  <2>5. on \in Range(c) <=> on \in Range(b) \/ (w[1] = "autoindex" /\ w[2] = "on")
    BY <2>1, <2>3, <2>4
  <2> QED
    BY <2>5 DEF on, Listed
<1> QED
  BY <1>3, <1>4, <1>5

\* Setting what a directive says leaves what the body means with it.
LEMMA BodySet ==
  ASSUME NEW b \in Seq(Seq(STRING)), \A k \in 1..Len(b) : b[k] # <<>>,
         NEW w \in Seq(STRING), LegibleDirective(w), NEW c, More(c, b, w),
         NEW l \in LocationSet, BodyMeans(l, b)
  PROVE  /\ w[1] = "root" => BodyMeans([l EXCEPT !.root = w[2]], c)
         /\ w[1] = "upload_store" => BodyMeans([l EXCEPT !.upload_store = w[2]], c)
         /\ w[1] = "index" =>
              \A list \in Seq(Word) : NoEmpty(list) = Tail(w) =>
                BodyMeans([l EXCEPT !.index = @ \o list], c)
         /\ w[1] = "methods" => BodyMeans([l EXCEPT !.methods = @ \o Tail(w)], c)
         /\ w[1] = "error_page" =>
              BodyMeans([l EXCEPT !.errors = Insert(@, NumberOf[w[2]], w[3])], c)
         /\ w[1] = "cgi" => BodyMeans([l EXCEPT !.cgi = Insert(@, w[2], w[3])], c)
         /\ w[1] = "return" =>
              BodyMeans([l EXCEPT !.redir = <<NumberOf[w[2]], w[3]>>, !.isRedirection = TRUE], c)
         /\ w[1] = "autoindex" => BodyMeans([l EXCEPT !.autoindex = @ \/ w[2] = "on"], c)
         /\ w[1] \notin Directives => BodyMeans(l, c)
<1>0. w # <<>>
  BY DirectiveWords
<1>1. /\ Root(c) = IF w[1] = "root" THEN w[2] ELSE Root(b)
      /\ Store(c) = IF w[1] = "upload_store" THEN w[2] ELSE Store(b)
      /\ Index(c) = IF w[1] = "index" THEN Index(b) \o Tail(w) ELSE Index(b)
      /\ Allowed(c) = IF w[1] = "methods" THEN Allowed(b) \o Tail(w) ELSE Allowed(b)
      /\ Moved(c) <=> w[1] = "return" \/ Moved(b)
      /\ Redirection(c) = IF w[1] = "return" THEN <<NumberOf[w[2]], w[3]>> ELSE Redirection(b)
  BY <1>0, WordsMore
<1>2. /\ Cgi(c) = IF w[1] = "cgi" THEN Insert(Cgi(b), w[2], w[3]) ELSE Cgi(b)
      /\ Errors(c) = IF w[1] = "error_page" THEN Insert(Errors(b), NumberOf[w[2]], w[3]) ELSE Errors(b)
      /\ Listed(c) <=> Listed(b) \/ (w[1] = "autoindex" /\ w[2] = "on")
  BY TablesMore
<1>3. /\ l.root = Root(b) /\ l.upload_store = Store(b) /\ NoEmpty(l.index) = Index(b)
      /\ l.methods = Allowed(b) /\ l.cgi = Cgi(b) /\ l.errors = Errors(b)
      /\ l.redir = Redirection(b) /\ l.isRedirection \in BOOLEAN /\ l.autoindex \in BOOLEAN
      /\ (l.isRedirection <=> Moved(b)) /\ (l.autoindex <=> Listed(b))
  BY DEF BodyMeans, LocationSet
<1>4. \A m : /\ m.isRedirection \in BOOLEAN /\ m.autoindex \in BOOLEAN
             /\ m.root = Root(c) /\ m.upload_store = Store(c) /\ NoEmpty(m.index) = Index(c)
             /\ m.methods = Allowed(c) /\ m.cgi = Cgi(c) /\ m.errors = Errors(c)
             /\ m.redir = Redirection(c)
             /\ (m.isRedirection <=> Moved(c)) /\ (m.autoindex <=> Listed(c))
             => BodyMeans(m, c)
  BY DEF BodyMeans
<1>5. ASSUME w[1] = "root" PROVE BodyMeans([l EXCEPT !.root = w[2]], c)
  BY <1>1, <1>2, <1>3, <1>4, <1>5 DEF LocationSet
<1>6. ASSUME w[1] = "upload_store" PROVE BodyMeans([l EXCEPT !.upload_store = w[2]], c)
  BY <1>1, <1>2, <1>3, <1>4, <1>6 DEF LocationSet
<1>7. ASSUME w[1] = "index", NEW list \in Seq(Word), NoEmpty(list) = Tail(w)
      PROVE  BodyMeans([l EXCEPT !.index = @ \o list], c)
  <2>1. l.index \in Seq(Word)
    BY DEF LocationSet
  <2>2. NoEmpty(l.index \o list) = NoEmpty(l.index) \o NoEmpty(list)
    BY <2>1, NoEmptyConcat
  <2> QED
    BY <1>1, <1>2, <1>3, <1>4, <1>7, <2>2 DEF LocationSet
<1>8. ASSUME w[1] = "methods" PROVE BodyMeans([l EXCEPT !.methods = @ \o Tail(w)], c)
  BY <1>1, <1>2, <1>3, <1>4, <1>8 DEF LocationSet
<1>9. ASSUME w[1] = "error_page"
      PROVE  BodyMeans([l EXCEPT !.errors = Insert(@, NumberOf[w[2]], w[3])], c)
  BY <1>1, <1>2, <1>3, <1>4, <1>9 DEF LocationSet
<1>10. ASSUME w[1] = "cgi" PROVE BodyMeans([l EXCEPT !.cgi = Insert(@, w[2], w[3])], c)
  BY <1>1, <1>2, <1>3, <1>4, <1>10 DEF LocationSet
<1>11. ASSUME w[1] = "return"
       PROVE  BodyMeans([l EXCEPT !.redir = <<NumberOf[w[2]], w[3]>>, !.isRedirection = TRUE], c)
  BY <1>1, <1>2, <1>3, <1>4, <1>11 DEF LocationSet
<1>12. ASSUME w[1] = "autoindex"
       PROVE  BodyMeans([l EXCEPT !.autoindex = @ \/ w[2] = "on"], c)
  BY <1>1, <1>2, <1>3, <1>4, <1>12 DEF LocationSet
<1>13. ASSUME w[1] \notin Directives PROVE BodyMeans(l, c)
  BY <1>1, <1>2, <1>3, <1>4, <1>13 DEF Directives
<1> QED
  BY <1>5, <1>6, <1>7, <1>8, <1>9, <1>10, <1>11, <1>12, <1>13

\* A location without directives.
LEMMA BodyEmpty ==
  ASSUME NEW path \in Word
  PROVE  BodyMeans(NewLocation(path), <<>>) /\ NewLocation(path).path = path
<1> DEFINE e == <<>>
           l == NewLocation(path)
<1>1. DOMAIN e = {} /\ e \in Seq(Word)
  BY EmptySeq
<1>2. \A name : Places(e, name) = {}
  BY <1>1 DEF Places
<1>3. Range(e) = {}
  BY <1>1 DEF Range
<1>4. \A name : Arguments(e, name) = <<>>
  <2> SUFFICES ASSUME NEW name PROVE Arguments(e, name) = <<>>
    OBVIOUS
  <2>1. [k \in DOMAIN e |-> IF e[k][1] = name THEN Tail(e[k]) ELSE <<>>] = <<>>
    OBVIOUS
  <2>2. FlattenSeq(<<>>) = <<>>
    BY EmptySeq, FlattenFacts
  <2> QED
    BY <2>1, <2>2 DEF Arguments
<1>5. \A f : DOMAIN f = {} => Table(e, f) = <<>>
  <2> SUFFICES ASSUME NEW f, DOMAIN f = {} PROVE Table(e, f) = <<>>
    OBVIOUS
  <2>1. Range(f) = {}
    BY DEF Range
  <2>2. [x \in {} |-> e[Min({k \in DOMAIN f : f[k] = x})][3]] = <<>>
    OBVIOUS
  <2> QED
    BY <2>1, <2>2 DEF Table
<1>6. /\ l.root = "" /\ l.upload_store = "" /\ l.index = <<>> /\ l.methods = <<>> /\ l.cgi = <<>>
      /\ l.errors = <<>> /\ l.redir = <<0, "">> /\ l.isRedirection = FALSE /\ l.autoindex = FALSE
      /\ l.path = path
  BY DEF NewLocation, NoLocation
<1>7. NoEmpty(<<>>) = <<>>
  BY <1>1, NoEmptyConcat
<1>8. DOMAIN CgiKeys(e) = {} /\ DOMAIN ErrorKeys(e) = {}
  BY <1>2 DEF CgiKeys, ErrorKeys
<1>9. \A name, n : LastSaid(e, name, n, "") = ""
  BY <1>2 DEF LastSaid
<1>10. Redirection(e) = <<0, "">>
  BY <1>2 DEF Redirection
<1> HIDE DEF e, l
<1>11. BodyMeans(l, e)
  <2>1. l.root = Root(e) /\ l.upload_store = Store(e)
    BY <1>6, <1>9 DEF Root, Store
  <2>2. NoEmpty(l.index) = Index(e) /\ l.methods = Allowed(e)
    BY <1>4, <1>6, <1>7 DEF Index, Allowed
  <2>3. l.cgi = Cgi(e) /\ l.errors = Errors(e)
    BY <1>5, <1>6, <1>8 DEF Cgi, Errors
  <2>4. l.redir = Redirection(e) /\ (l.isRedirection <=> Moved(e))
    BY <1>2, <1>6, <1>10 DEF Moved
  <2>5. l.autoindex <=> Listed(e)
    BY <1>3, <1>6 DEF Listed
  <2> QED
    BY <2>1, <2>2, <2>3, <2>4, <2>5 DEF BodyMeans
<1> QED
  BY <1>6, <1>11 DEF e, l

\* A location as its whole body says is what its block means.
LEMMA LocationMeant ==
  ASSUME NEW l \in LocationSet, NEW item \in ItemType, BodyMeans(l, item.body), l.path = item.words[2]
  PROVE  Clean(l) = MeaningOfLocation(item)
<1> DEFINE m == MeaningOfLocation(item)
           fields == {"path", "root", "index", "upload_store", "methods", "cgi", "errors",
                      "redir", "isRedirection", "autoindex"}
           list == FlattenSeq([k \in DOMAIN l.index |-> IF l.index[k] = "" THEN <<>> ELSE <<l.index[k]>>])
<1>1. list = NoEmpty(l.index)
  BY DEF NoEmpty, Named
<1>2. DOMAIN l = fields
  BY DEF LocationSet
<1>3. Clean(l) = [l EXCEPT !.index = list]
  BY DEF Clean
<1> HIDE DEF list
<1>4. Clean(l) = [f \in fields |-> IF f = "index" THEN list ELSE l[f]]
  BY <1>2, <1>3
<1>5. /\ m = [f \in fields |-> m[f]] /\ m.path = item.words[2]
      /\ m.root = Root(item.body) /\ m.upload_store = Store(item.body)
      /\ m.index = Index(item.body) /\ m.methods = Allowed(item.body)
      /\ m.cgi = Cgi(item.body) /\ m.errors = Errors(item.body)
      /\ m.redir = Redirection(item.body) /\ m.isRedirection = Moved(item.body)
      /\ m.autoindex = Listed(item.body)
  BY DEF MeaningOfLocation, Root, Store, Index, Allowed, Cgi, CgiKeys, Errors, ErrorKeys,
         Redirection, Moved, Listed
<1>6. l.isRedirection = Moved(item.body) /\ l.autoindex = Listed(item.body)
  BY DEF BodyMeans, LocationSet, Moved, Listed
<1> HIDE DEF m
<1>7. \A f \in fields : m[f] = IF f = "index" THEN list ELSE l[f]
  BY <1>1, <1>5, <1>6 DEF BodyMeans
<1> QED
  BY <1>4, <1>5, <1>7 DEF m

\* What the items of a server say, as listens and as locations.
ListenOf(item) == IF item.words[1] = "listen" THEN <<Address(item.words[2])>> ELSE <<>>
LocationOf(item) == IF item.block THEN <<MeaningOfLocation(item)>> ELSE <<>>
SaidListens(items) == FlattenSeq([k \in DOMAIN items |-> ListenOf(items[k])])
SaidLocations(items) == FlattenSeq([k \in DOMAIN items |-> LocationOf(items[k])])
AllClean(locations) == [l \in DOMAIN locations |-> Clean(locations[l])]
ServerMeans(s, items) ==
  s.listens = SaidListens(items) /\ AllClean(s.locations) = SaidLocations(items)
CleanServer(s) == [s EXCEPT !.locations = AllClean(@)]

\* What an item that can be read is.
LEMMA ItemKinds ==
  ASSUME NEW t \in ItemType, LegibleItem(t)
  PROVE  /\ t.words \in Seq(STRING) /\ t.body \in Seq(Seq(STRING)) /\ t.words # <<>>
         /\ Len(t.words) \in Nat /\ DOMAIN t.words = 1..Len(t.words) /\ 1 \in 1..Len(t.words)
         /\ t.block => /\ t.words[1] = "location" /\ Len(t.words) = 2
                       /\ \A k \in 1..Len(t.body) : LegibleDirective(t.body[k])
         /\ t.words[1] = "listen" => ~t.block /\ Len(t.words) = 2
         /\ ~t.block /\ t.words[1] # "listen" => Range(t.words) \cap ServerWords = {}
<1>1. t.words \in Seq(STRING) /\ t.body \in Seq(Seq(STRING)) /\ t.block \in BOOLEAN
  BY DEF ItemType
<1>2. t.words # <<>>
  <2>1. CASE t.block
    <3>1. Len(t.words) = 2
      BY <2>1 DEF LegibleItem
    <3> QED
      BY <3>1, EmptySeq
  <2>2. CASE ~t.block
    BY <2>2 DEF LegibleItem
  <2> QED
    BY <2>1, <2>2
<1>3. Len(t.words) \in Nat /\ DOMAIN t.words = 1..Len(t.words) /\ 1 \in 1..Len(t.words)
  <2>1. Len(t.words) \in Nat \ {0}
    BY <1>1, <1>2, EmptySeq
  <2> QED
    BY <1>1, <2>1, LenProperties
<1>4. DOMAIN t.body = 1..Len(t.body)
  BY <1>1, LenProperties
<1>5. ASSUME t.block
      PROVE  /\ t.words[1] = "location" /\ Len(t.words) = 2
             /\ \A k \in 1..Len(t.body) : LegibleDirective(t.body[k])
  BY <1>4, <1>5 DEF LegibleItem
<1>6. t.words[1] \in Range(t.words)
  BY <1>3 DEF Range
<1>7. ASSUME t.words[1] = "listen" PROVE ~t.block /\ Len(t.words) = 2
  <2>1. ~t.block
    BY <1>5, <1>7
  <2>2. "listen" \in ServerWords
    BY DEF ServerWords
  <2> QED
    BY <1>6, <1>7, <2>1, <2>2 DEF LegibleItem
<1>8. ~t.block /\ t.words[1] # "listen" => Range(t.words) \cap ServerWords = {}
  BY DEF LegibleItem
<1> QED
  BY <1>1, <1>2, <1>3, <1>5, <1>7, <1>8

\* What one item more says.
LEMMA ItemMore ==
  ASSUME NEW b \in Seq(ItemType), \A k \in 1..Len(b) : LegibleItem(b[k]),
         NEW t \in ItemType, LegibleItem(t), NEW c, More(c, b, t)
  PROVE  /\ SaidListens(c) = SaidListens(b) \o ListenOf(t)
         /\ SaidLocations(c) = SaidLocations(b) \o LocationOf(t)
         /\ \E S : SaidListens(b) \in Seq(S) /\ Address(t.words[2]) \in S
         /\ \E S : SaidLocations(b) \in Seq(S) /\ MeaningOfLocation(t) \in S
<1> DEFINE A == {ListenOf(item)[1] : item \in ItemType} \cup {Address(t.words[2])}
           B == {MeaningOfLocation(item) : item \in ItemType}
           n == Len(b)
<1>1. n \in Nat /\ DOMAIN b = 1..n /\ \A k \in 1..n : b[k] \in ItemType
  BY LenProperties, ElementOfSeq
<1>2. DOMAIN c = 1..(n + 1) /\ c[n + 1] = t /\ \A k \in 1..n : c[k] = b[k]
  BY DEF More
<1>3. ASSUME NEW item \in ItemType
      PROVE  ListenOf(item) \in Seq(A) /\ LocationOf(item) \in Seq(B)
  <2>0. ListenOf(item)[1] \in A /\ MeaningOfLocation(item) \in B
    OBVIOUS
  <2> HIDE DEF A, B
  <2>3. ListenOf(item) \in Seq(A)
    <3>1. CASE item.words[1] = "listen"
      <4> DEFINE a == Address(item.words[2])
      <4>1. ListenOf(item) = <<a>>
        BY <3>1 DEF ListenOf
      <4>2. ListenOf(item)[1] \in A
        BY <2>0
      <4> HIDE DEF a
      <4>3. <<a>>[1] = a
        OBVIOUS
      <4>4. a \in A
        BY <4>1, <4>2, <4>3
      <4> DEFINE x == ListenOf(item)
      <4>5. x = <<a>>
        BY <4>1
      <4> HIDE DEF x
      <4>6. x \in Seq(A)
        BY <4>4, <4>5, Tuples
      <4> QED
        BY <4>6 DEF x
    <3>2. CASE item.words[1] # "listen"
      <4>1. ListenOf(item) = <<>>
        BY <3>2 DEF ListenOf
      <4>2. <<>> \in Seq(A)
        BY EmptySeq
      <4> QED
        BY <4>1, <4>2
    <3> QED
      BY <3>1, <3>2
  <2>4. LocationOf(item) \in Seq(B)
    <3> DEFINE m == MeaningOfLocation(item)
    <3>1. m \in B
      BY <2>0
    <3> HIDE DEF m
    <3>2. <<m>> \in Seq(B) /\ <<>> \in Seq(B)
      BY <3>1, Tuples, EmptySeq
    <3> QED
      BY <3>2 DEF LocationOf, m
  <2> QED
    BY <2>3, <2>4
<1>4. Address(t.words[2]) \in A /\ MeaningOfLocation(t) \in B
  OBVIOUS
<1> HIDE DEF A, B, n
<1>5. SaidListens(c) = SaidListens(b) \o ListenOf(t) /\ SaidListens(b) \in Seq(A)
  <2> DEFINE T == Seq(A)
             g == [k \in DOMAIN b |-> ListenOf(b[k])]
             h == [k \in DOMAIN c |-> ListenOf(c[k])]
             x == ListenOf(t)
  <2>1. /\ DOMAIN g = 1..n /\ DOMAIN h = 1..(n + 1) /\ h = [k \in DOMAIN h |-> h[k]]
        /\ \A k \in 1..n : g[k] \in T /\ h[k] = g[k]
        /\ h[n + 1] = x /\ x \in T
    BY <1>1, <1>2, <1>3
  <2>2. g \in [1..n -> T]
    BY <1>1, <1>3
  <2>3. SaidListens(b) = FlattenSeq(g) /\ SaidListens(c) = FlattenSeq(h)
    BY DEF SaidListens
  <2> HIDE DEF T, g, h, x
  <2>4. g \in Seq(T) /\ Len(g) = n
    BY <1>1, <2>2, MadeSeq
  <2>5. More(h, g, x)
    BY <1>1, <2>1, <2>4 DEF More
  <2>6. g \in Seq(Seq(A)) /\ x \in Seq(A) /\ h = [k \in DOMAIN h |-> h[k]]
    BY <2>1, <2>4 DEF T
  <2>7. FlattenSeq(h) = FlattenSeq(g) \o x
    BY ONLY <2>5, <2>6, FlatMore
  <2>8. FlattenSeq(g) \in Seq(A)
    BY <2>6, FlattenFacts
  <2> QED
    BY <2>3, <2>7, <2>8 DEF x
<1>6. SaidLocations(c) = SaidLocations(b) \o LocationOf(t) /\ SaidLocations(b) \in Seq(B)
  <2> DEFINE T == Seq(B)
             g == [k \in DOMAIN b |-> LocationOf(b[k])]
             h == [k \in DOMAIN c |-> LocationOf(c[k])]
             x == LocationOf(t)
  <2>1. /\ DOMAIN g = 1..n /\ DOMAIN h = 1..(n + 1) /\ h = [k \in DOMAIN h |-> h[k]]
        /\ \A k \in 1..n : g[k] \in T /\ h[k] = g[k]
        /\ h[n + 1] = x /\ x \in T
    BY <1>1, <1>2, <1>3
  <2>2. g \in [1..n -> T]
    BY <1>1, <1>3
  <2>3. SaidLocations(b) = FlattenSeq(g) /\ SaidLocations(c) = FlattenSeq(h)
    BY DEF SaidLocations
  <2> HIDE DEF T, g, h, x
  <2>4. g \in Seq(T) /\ Len(g) = n
    BY <1>1, <2>2, MadeSeq
  <2>5. More(h, g, x)
    BY <1>1, <2>1, <2>4 DEF More
  <2>6. g \in Seq(Seq(B)) /\ x \in Seq(B) /\ h = [k \in DOMAIN h |-> h[k]]
    BY <2>1, <2>4 DEF T
  <2>7. FlattenSeq(h) = FlattenSeq(g) \o x
    BY ONLY <2>5, <2>6, FlatMore
  <2>8. FlattenSeq(g) \in Seq(B)
    BY <2>6, FlattenFacts
  <2> QED
    BY <2>3, <2>7, <2>8 DEF x
<1> QED
  BY <1>4, <1>5, <1>6

\* One location more, cleaned.
LEMMA CleanMore ==
  ASSUME NEW ls \in Seq(LocationSet), NEW l \in LocationSet, NEW S, AllClean(ls) \in Seq(S),
         Clean(l) \in S
  PROVE  AllClean(Append(ls, l)) = AllClean(ls) \o <<Clean(l)>>
<1> DEFINE n == Len(ls)
           c == Append(ls, l)
           u == AllClean(ls)
           x == Clean(l)
           v == AllClean(c)
           a == Append(u, x)
<1>1. n \in Nat /\ DOMAIN ls = 1..n
  BY LenProperties
<1>2. More(c, ls, l)
  BY MoreAppended
<1> HIDE DEF c
<1>3. /\ DOMAIN u = 1..n /\ (\A k \in 1..n : u[k] = Clean(ls[k]))
      /\ DOMAIN v = 1..(n + 1) /\ \A k \in 1..(n + 1) : v[k] = Clean(c[k])
      /\ v = [k \in DOMAIN v |-> v[k]]
  BY <1>1, <1>2 DEF AllClean, More
<1>4. u \in Seq(S) /\ x \in S
  OBVIOUS
<1> HIDE DEF u, v, x
<1>5. Len(u) = n
  BY <1>1, <1>3, <1>4, LenProperties
<1>6. More(a, u, x) /\ a \in Seq(S) /\ Len(a) = n + 1 /\ a = u \o <<x>>
  BY <1>4, <1>5, MoreAppended, AppendProperties, AppendIsConcat
<1> HIDE DEF a
<1>7. \A k \in 1..(n + 1) : v[k] = a[k] /\ v[k] \in S
  <2>1. ASSUME NEW k \in 1..(n + 1)
        PROVE  v[k] = a[k]
    <3>1. CASE k \in 1..n
      <4>1. c[k] = ls[k] /\ a[k] = u[k]
        BY <1>2, <1>5, <1>6, <3>1 DEF More
      <4> QED
        BY <1>3, <3>1, <4>1
    <3>2. CASE k = n + 1
      <4>1. c[k] = l /\ a[k] = x
        BY <1>2, <1>5, <1>6, <3>2 DEF More
      <4> QED
        BY <1>3, <4>1 DEF x
    <3> QED
      BY <1>1, <3>1, <3>2
  <2>2. \A k \in 1..(n + 1) : a[k] \in S
    BY <1>6, ElementOfSeq
  <2> QED
    BY <2>1, <2>2
<1>8. v \in Seq(S) /\ Len(v) = n + 1
  <2>1. v \in [1..(n + 1) -> S] /\ n + 1 \in Nat
    BY <1>1, <1>3, <1>7
  <2> DEFINE m == n + 1
  <2> HIDE DEF m
  <2>2. v \in Seq(S) /\ Len(v) = m
    <3>1. v \in [1..m -> S] /\ m \in Nat
      BY <2>1 DEF m
    <3> QED
      BY ONLY <3>1, MadeSeq
  <2> QED
    BY <2>2 DEF m
<1>9. v = a
  BY <1>6, <1>7, <1>8, SeqEqual
<1> QED
  BY <1>6, <1>9 DEF v, c, u, x

\* Reading an item leaves what the items read so far mean with it.
LEMMA ServerGrows ==
  ASSUME NEW b \in Seq(ItemType), \A k \in 1..Len(b) : LegibleItem(b[k]),
         NEW t \in ItemType, LegibleItem(t), NEW c, More(c, b, t),
         NEW s \in ServerSet, ServerMeans(s, b)
  PROVE  /\ t.words[1] = "listen" =>
              ServerMeans([s EXCEPT !.listens = Append(@, Address(t.words[2]))], c)
         /\ t.block => \A l \in LocationSet : Clean(l) = MeaningOfLocation(t) =>
              ServerMeans([s EXCEPT !.locations = Append(@, l)], c)
         /\ ~t.block /\ t.words[1] # "listen" => ServerMeans(s, c)
<1>1. /\ SaidListens(c) = SaidListens(b) \o ListenOf(t)
      /\ SaidLocations(c) = SaidLocations(b) \o LocationOf(t)
  BY ItemMore
<1>2. PICK A : SaidListens(b) \in Seq(A) /\ Address(t.words[2]) \in A
  BY ItemMore
<1>3. PICK B : SaidLocations(b) \in Seq(B) /\ MeaningOfLocation(t) \in B
  BY ItemMore
<1>4. s.listens = SaidListens(b) /\ AllClean(s.locations) = SaidLocations(b)
  BY DEF ServerMeans
<1>5. SaidListens(b) \o <<>> = SaidListens(b) /\ SaidLocations(b) \o <<>> = SaidLocations(b)
  BY <1>2, <1>3, ConcatEmptySeq
<1>6. ~t.block => SaidLocations(c) = SaidLocations(b)
  BY <1>1, <1>5 DEF LocationOf
<1>7. t.words[1] # "listen" => SaidListens(c) = SaidListens(b)
  BY <1>1, <1>5 DEF ListenOf
<1>8. s.locations \in Seq(LocationSet) /\ s.listens \in Seq(Addresses)
  BY DEF ServerSet
<1>9. ASSUME t.words[1] = "listen"
      PROVE  ServerMeans([s EXCEPT !.listens = Append(@, Address(t.words[2]))], c)
  <2>1. ~t.block
    BY <1>9, ItemKinds
  <2>2. SaidListens(c) = Append(s.listens, Address(t.words[2]))
    BY <1>1, <1>2, <1>4, <1>9, AppendIsConcat DEF ListenOf
  <2> QED
    BY <1>4, <1>6, <2>1, <2>2 DEF ServerMeans, ServerSet
<1>10. ASSUME t.block, NEW l \in LocationSet, Clean(l) = MeaningOfLocation(t)
       PROVE  ServerMeans([s EXCEPT !.locations = Append(@, l)], c)
  <2>1. t.words[1] # "listen"
    BY <1>10, ItemKinds
  <2>2. AllClean(Append(s.locations, l)) = AllClean(s.locations) \o <<Clean(l)>>
    <3>1. AllClean(s.locations) \in Seq(B) /\ Clean(l) \in B
      BY <1>3, <1>4, <1>10
    <3> QED
      BY <1>8, <3>1, CleanMore
  <2>3. SaidLocations(c) = AllClean(Append(s.locations, l))
    BY <1>1, <1>4, <1>10, <2>2 DEF LocationOf
  <2> QED
    BY <1>4, <1>7, <2>1, <2>3 DEF ServerMeans, ServerSet
<1>11. ~t.block /\ t.words[1] # "listen" => ServerMeans(s, c)
  BY <1>4, <1>6, <1>7 DEF ServerMeans
<1> QED
  BY <1>9, <1>10, <1>11

\* A server without items, and one that is read.
LEMMA ServerMeant ==
  /\ ServerMeans(NewServer, <<>>)
  /\ \A s \in ServerSet : \A items : ServerMeans(s, items) => CleanServer(s) = MeaningOfServer(items)
<1>1. FlattenSeq(<<>>) = <<>>
  BY EmptySeq, FlattenFacts
<1>2. SaidListens(<<>>) = <<>> /\ SaidLocations(<<>>) = <<>>
  <2>1. [k \in DOMAIN <<>> |-> ListenOf(<<>>[k])] = <<>>
    OBVIOUS
  <2>2. [k \in DOMAIN <<>> |-> LocationOf(<<>>[k])] = <<>>
    OBVIOUS
  <2> QED
    BY <1>1, <2>1, <2>2 DEF SaidListens, SaidLocations
<1>3. AllClean(<<>>) = <<>>
  <2>1. [k \in DOMAIN <<>> |-> Clean(<<>>[k])] = <<>>
    OBVIOUS
  <2> QED
    BY <2>1 DEF AllClean
<1>4. NewServer.listens = <<>> /\ NewServer.locations = <<>>
  BY DEF NewServer
<1>5. ServerMeans(NewServer, <<>>)
  BY <1>2, <1>3, <1>4 DEF ServerMeans
<1>6. ASSUME NEW s \in ServerSet, NEW items, ServerMeans(s, items)
      PROVE  CleanServer(s) = MeaningOfServer(items)
  <2>1. MeaningOfServer(items) = [listens |-> SaidListens(items), locations |-> SaidLocations(items)]
    BY DEF MeaningOfServer, SaidListens, SaidLocations, ListenOf, LocationOf
  <2>2. CleanServer(s) = [listens |-> s.listens, locations |-> AllClean(s.locations)]
    BY DEF CleanServer, ServerSet
  <2> QED
    BY <1>6, <2>1, <2>2 DEF ServerMeans
<1> QED
  BY <1>5, <1>6

----------------------------------------------------------------------------
(* The invariant: where the parser is in the file, and what it has by then.*)

\* What is left up to the p-th token are words the parser passes over.
PassedOver(p, words) ==
  i <= p + 1 /\ \A j \in i..p : j <= Len(tokens) => tokens[j] \notin words

Outside(layout) ==
  ~inServer /\ ~inLocation /\ i = ServerEnd(layout, Len(config)) + 1
\* k items of the s-th server are read.
ServerRead(s, k) ==
  /\ s = Len(config) + 1 /\ s <= Len(source) /\ k \in 0..Len(source[s]) /\ inServer
  /\ ServerMeans(currServer, SubSeq(source[s], 1, k))
InServer(layout, s, k) ==
  ServerRead(s, k) /\ ~inLocation /\ PassedOver(ItemEnd(layout, s, k), ServerWords)
\* The k-th is being read, and d directives of it are.
InLocation(layout, s, k, d) ==
  /\ ServerRead(s, k - 1) /\ k \in 1..Len(source[s]) /\ inLocation
  /\ source[s][k].block /\ d \in 0..Len(source[s][k].body)
  /\ currLocation.path = source[s][k].words[2]
  /\ BodyMeans(currLocation, SubSeq(source[s][k].body, 1, d))
  /\ PassedOver(DirectiveEnd(layout, s, k, d), LocationWords)
PlaceInv(layout) ==
  \/ Outside(layout)
  \/ \E s, k \in Nat : InServer(layout, s, k)
  \/ \E s, k, d \in Nat : InLocation(layout, s, k, d)

\* The tokens are those of the file, up to where it ends.
TokensInv(layout) ==
  /\ Opens(tokens, FileTokens(source, layout))
  /\ whole => Len(tokens) = Len(FileTokens(source, layout))
LinesInv(layout) ==
  /\ lines \in Beginnings(FileLines(source, layout))
  /\ whole => lines = FileLines(source, layout)
ConfigInv ==
  /\ Len(config) <= Len(source)
  /\ \A s \in 1..Len(config) : CleanServer(config[s]) = MeaningOfServer(source[s])
ReadInv ==
  /\ Legible(source) /\ ConfigInv
  /\ phase = "reading" => /\ \E layout \in Layouts : LinesInv(layout)
                          /\ config = <<>> /\ i = 1 /\ ~inServer /\ ~inLocation
  /\ phase = "parsing" => \E layout \in Layouts : TokensInv(layout) /\ PlaceInv(layout)
  /\ whole /\ phase \notin {"reading", "parsing"} =>
       phase # "undefined" /\ Len(config) = Len(source)

----------------------------------------------------------------------------
(* Which turn the parser takes.                                            *)

\* The branch, by the token and where the parser is.
LEMMA BranchIs ==
  /\ tok = "server" => Branch = "server"
  /\ inServer /\ ~inLocation /\ tok \notin ServerWords => Branch = ""
  /\ inServer /\ ~inLocation /\ tok \in {"listen", "location", "}"} => Branch = tok
  /\ inServer /\ inLocation /\ tok \notin LocationWords => Branch = ""
  /\ inServer /\ inLocation /\ tok \in Directives \cup {"}"} => Branch = tok
BY DEF Branch, ServerWords, LocationWords, Directives

\* The last token a branch looks at has a number.
LEMMA ReachTyped ==
  ASSUME tokens \in Seq(Word), i \in Nat \ {0}, i <= Len(tokens)
  PROVE  Reach \in Nat /\ Reach >= i
<1>1. Branch \in Directives \cup {"", "}", "server", "listen", "location"}
  BY DEF Branch, Directives
<1>2. CASE Branch \in {"index", "methods"}
  <2>1. PICK stops : Reach = FirstBehind(stops)
    BY <1>2, ReachIs
  <2>2. FirstBehind(stops) \in i + 1 .. Len(tokens) + 1 /\ Len(tokens) \in Nat
    BY FirstBehindFacts, LenProperties
  <2> QED
    BY <2>1, <2>2
<1>3. CASE Branch \in {"", "}", "server"}
  <2>1. Reach = i \/ Reach = i + 0
    BY <1>3, ReachIs
  <2> QED
    BY <2>1
<1>4. CASE Branch \in {"autoindex", "listen", "location", "root", "upload_store"}
  <2>1. Reach = i + 1
    BY <1>4, ReachIs
  <2> QED
    BY <2>1
<1>5. CASE Branch \in {"error_page", "cgi", "return"}
  <2>1. Reach = i + 2
    BY <1>5, ReachIs
  <2> QED
    BY <2>1
<1> QED
  BY <1>1, <1>2, <1>3, <1>4, <1>5 DEF Directives

\* The action, by the branch.
LEMMA TurnIs ==
  ASSUME ParserStep, tokens \in Seq(Word), i \in Nat \ {0}
  PROVE  /\ i > Len(tokens) => ParserReturns
         /\ i <= Len(tokens) /\ Reach > Len(tokens) => Overrun
         /\ i <= Len(tokens) /\ Reach <= Len(tokens) =>
              /\ Branch = "server" => ServerBegins
              /\ Branch = "listen" => Listen
              /\ Branch = "location" => LocationBegins
              /\ Branch \in Directives => Directive(Branch)
              /\ Branch = "}" /\ inLocation => LocationEnds
              /\ Branch = "}" /\ ~inLocation => ServerEnds
              /\ Branch = "" => Ignored
<1>1. Len(tokens) \in Nat
  BY LenProperties
<1>2. i <= Len(tokens) => Reach \in Nat
  BY ReachTyped
<1>3. ParserReturns => i > Len(tokens)
  BY DEF ParserReturns
<1>4. Overrun => i <= Len(tokens) /\ Reach > Len(tokens)
  BY DEF Overrun, Parsing
<1>5. /\ ServerBegins => Takes("server")
      /\ Listen => Takes("listen")
      /\ LocationBegins => Takes("location")
      /\ LocationEnds => Takes("}") /\ inLocation
      /\ ServerEnds => Takes("}") /\ ~inLocation
      /\ Ignored => Takes("")
      /\ \A branch : Directive(branch) => Takes(branch)
  BY DEF ServerBegins, Listen, LocationBegins, LocationEnds, ServerEnds, Ignored, Directive
<1>6. \A branch : Takes(branch) => i <= Len(tokens) /\ Reach <= Len(tokens) /\ Branch = branch
  BY DEF Takes, Parsing
<1>7. \/ ParserReturns \/ Overrun \/ ServerBegins \/ Listen \/ LocationBegins \/ LocationEnds
      \/ ServerEnds \/ Ignored \/ \E branch \in Directives : Directive(branch)
  BY DEF ParserStep
<1>8. "server" \notin Directives /\ "listen" \notin Directives /\ "location" \notin Directives
      /\ "}" \notin Directives /\ "" \notin Directives
  BY DEF Directives
<1>9. i > Len(tokens) => ~(i <= Len(tokens))
  BY <1>1
<1>10. i <= Len(tokens) => (Reach > Len(tokens) <=> ~(Reach <= Len(tokens)))
  BY <1>1, <1>2
<1>11. CASE i > Len(tokens)
  BY <1>3, <1>4, <1>5, <1>6, <1>7, <1>9, <1>11
<1>12. CASE i <= Len(tokens) /\ Reach > Len(tokens)
  BY <1>3, <1>4, <1>5, <1>6, <1>7, <1>9, <1>10, <1>12
<1>13. CASE i <= Len(tokens) /\ Reach <= Len(tokens)
  <2>1. ~ParserReturns /\ ~Overrun
    BY <1>3, <1>4, <1>9, <1>10, <1>13
  <2>2. /\ ServerBegins => Branch = "server"
        /\ Listen => Branch = "listen"
        /\ LocationBegins => Branch = "location"
        /\ LocationEnds => Branch = "}" /\ inLocation
        /\ ServerEnds => Branch = "}" /\ ~inLocation
        /\ Ignored => Branch = ""
        /\ \A branch : Directive(branch) => Branch = branch
    BY <1>5, <1>6
  <2> DEFINE Dir == \E branch \in Directives : Directive(branch)
  <2>3. Dir => Branch \in Directives /\ Directive(Branch)
    BY <2>2
  <2>4. \/ ServerBegins \/ Listen \/ LocationBegins \/ LocationEnds \/ ServerEnds \/ Ignored \/ Dir
    BY <1>7, <2>1
  <2> HIDE DEF Dir
  <2>5. /\ Branch = "server" => ServerBegins
        /\ Branch = "listen" => Listen
        /\ Branch = "location" => LocationBegins
        /\ Branch \in Directives => Directive(Branch)
        /\ Branch = "}" /\ inLocation => LocationEnds
        /\ Branch = "}" /\ ~inLocation => ServerEnds
        /\ Branch = "" => Ignored
    BY ONLY <1>8, <2>2, <2>3, <2>4
  <2> QED
    BY <1>9, <1>10, <1>13, <2>5
<1> QED
  BY <1>1, <1>11, <1>12, <1>13

----------------------------------------------------------------------------
(* What stands behind a directive, and the bounds of the places.           *)

\* One member of a sequence more.
LEMMA OneMore ==
  ASSUME NEW S, NEW s \in Seq(S), NEW k \in 1..Len(s)
  PROVE  /\ More(SubSeq(s, 1, k), SubSeq(s, 1, k - 1), s[k])
         /\ SubSeq(s, 1, k - 1) \in Seq(S) /\ s[k] \in S
         /\ Len(SubSeq(s, 1, k - 1)) = k - 1
         /\ \A m \in 1..(k - 1) : SubSeq(s, 1, k - 1)[m] = s[m]
<1>1. /\ SubSeq(s, 1, k - 1) \in Seq(S) /\ s[k] \in S
      /\ SubSeq(s, 1, k) = Append(SubSeq(s, 1, k - 1), s[k])
  BY FrontMore
<1>2. Len(s) \in Nat /\ k - 1 \in 0..Len(s)
  BY LenProperties
<1>3. Len(SubSeq(s, 1, k - 1)) = k - 1 /\ \A m \in 1..(k - 1) : SubSeq(s, 1, k - 1)[m] = s[m]
  BY <1>2, SubSeqFacts
<1> QED
  BY <1>1, <1>3, MoreAppended

\* The words of a directive, then its semicolon, with an empty word before it when
\* it stands apart.
LEMMA DirectiveStands ==
  ASSUME tokens \in Seq(Word), NEW w \in Seq(Word), NEW layout, NEW p \in Nat,
         Stand(p, DirectiveTokens(w, layout))
  PROVE  LET n == Len(w)
             m == Len(DirectiveTokens(w, layout))
         IN /\ Stand(p, w) /\ n \in Nat /\ m \in {n + 1, n + 2}
            /\ \A j \in n + 1 .. m : p + j <= Len(tokens) =>
                 tokens[p + j] = IF j = m THEN ";" ELSE ""
<1> DEFINE n == Len(w)
           tail == IF layout = "apart" THEN <<"", ";">> ELSE <<";">>
           m == Len(w \o tail)
<1>1. tail \in Seq(Word) /\ Len(tail) \in {1, 2}
      /\ \A j \in 1..Len(tail) : tail[j] = IF j = Len(tail) THEN ";" ELSE ""
  <2> DEFINE empty == ""
             end == ";"
  <2>1. empty \in Word /\ end \in Word
    BY DEF Word
  <2> HIDE DEF empty, end
  <2>2. <<end>> \in Seq(Word) /\ <<empty, end>> \in Seq(Word)
    BY <2>1, Tuples
  <2>3. tail = <<empty, end>> \/ tail = <<end>>
    BY DEF tail, empty, end
  <2>4. empty = "" /\ end = ";"
    BY DEF empty, end
  <2> HIDE DEF tail
  <2>5. CASE tail = <<empty, end>>
    <3>1. Len(tail) = 2 /\ tail[1] = empty /\ tail[2] = end
      BY <2>5
    <3>2. \A j \in 1..2 : tail[j] = IF j = 2 THEN end ELSE empty
      BY ONLY <3>1
    <3> QED
      BY <2>2, <2>4, <2>5, <3>1, <3>2
  <2>6. CASE tail = <<end>>
    <3>1. Len(tail) = 1 /\ tail[1] = end
      BY <2>6
    <3>2. \A j \in 1..1 : tail[j] = IF j = 1 THEN end ELSE empty
      BY ONLY <3>1
    <3> QED
      BY <2>2, <2>4, <2>6, <3>1, <3>2
  <2> QED
    BY <2>3, <2>5, <2>6
<1>2. DirectiveTokens(w, layout) = w \o tail
  BY DEF DirectiveTokens
<1> HIDE DEF tail
<1>3. Stand(p, w) /\ Stand(p + n, tail)
  BY <1>1, <1>2, StandConcat
<1>4. n \in Nat /\ m = n + Len(tail)
  BY <1>1, LenProperties, ConcatProperties
<1>7. Len(tail) \in Nat /\ Len(tail) \in {1, 2} /\ p \in Nat
  <2>1. Len(tail) \in Nat
    BY <1>1, LenProperties
  <2>2. Len(tail) \in {1, 2}
    BY <1>1, Zenon
  <2> QED
    BY <2>1, <2>2
<1> HIDE DEF m, n
<1>6. m \in {n + 1, n + 2}
  BY ONLY <1>4, <1>7
<1>5. ASSUME NEW j \in n + 1 .. m, p + j <= Len(tokens)
      PROVE  tokens[p + j] = IF j = m THEN ";" ELSE ""
  <2> DEFINE h == j - n
  <2>3. j \in n + 1 .. m
    OBVIOUS
  <2>1. h \in 1..Len(tail) /\ (p + n) + h = p + j /\ (h = Len(tail) <=> j = m)
    BY ONLY <1>4, <1>7, <2>3
  <2> HIDE DEF h
  <2>2. tokens[(p + n) + h] = tail[h]
    BY <1>3, <1>5, <2>1 DEF Stand
  <2> QED
    BY <1>1, <2>1, <2>2
<1> QED
  BY <1>2, <1>3, <1>4, <1>5, <1>6 DEF m, n

\* What is left of a directive from one of its tokens on, when the parser knows none
\* of the words.
LEMMA LeftOver ==
  ASSUME tokens \in Seq(Word), NEW w \in Seq(Word), NEW layout, NEW p \in Nat,
         Stand(p, DirectiveTokens(w, layout)),
         NEW words, ";" \notin words, "" \notin words, NEW x \in Nat \ {0},
         \A j \in 1..Len(w) : x <= p + j => w[j] \notin words
  PROVE  \A j \in x .. p + Len(DirectiveTokens(w, layout)) :
           p < j /\ j <= Len(tokens) => tokens[j] \notin words
<1> DEFINE n == Len(w)
           m == Len(DirectiveTokens(w, layout))
<1>1. /\ Stand(p, w) /\ n \in Nat /\ m \in {n + 1, n + 2}
      /\ \A j \in n + 1 .. m : p + j <= Len(tokens) =>
           tokens[p + j] = IF j = m THEN ";" ELSE ""
  BY DirectiveStands
<1> HIDE DEF m, n
<1>2. p \in Nat /\ x \in Nat /\ n \in Nat /\ m \in Nat
  <2>1. n \in Nat /\ m \in {n + 1, n + 2}
    BY <1>1, Zenon
  <2>2. p \in Nat /\ x \in Nat
    OBVIOUS
  <2> QED
    BY ONLY <2>1, <2>2
<1>3. ASSUME NEW j \in x .. p + m, p < j, j <= Len(tokens)
      PROVE  tokens[j] \notin words
  <2> DEFINE h == j - p
  <2>1. j \in x .. p + m /\ p < j /\ j <= Len(tokens)
    BY <1>3
  <2>2. h \in 1..m /\ p + h = j /\ x <= p + h
    BY ONLY <1>2, <2>1
  <2> HIDE DEF h
  <2>3. h \in 1..n \/ h \in n + 1 .. m
    BY ONLY <1>2, <2>2
  <2>4. CASE h \in 1..n
    <3>1. tokens[p + h] = w[h]
      BY <1>1, <2>1, <2>2, <2>4 DEF Stand, n
    <3> QED
      BY <2>2, <2>4, <3>1 DEF n
  <2>5. CASE h \in n + 1 .. m
    <3>1. tokens[p + h] = IF h = m THEN ";" ELSE ""
      BY <1>1, <2>1, <2>2, <2>5
    <3> QED
      BY <2>2, <3>1
  <2> QED
    BY <2>3, <2>4, <2>5
<1> QED
  BY <1>3 DEF m

\* A server of the source, and the places of its items.
LEMMA ServerKnown ==
  ASSUME NEW layout, Mapped(layout), source \in Seq(Seq(ItemType)), Legible(source),
         NEW s \in 1..Len(source)
  PROVE  LET n == Len(source[s]) IN
         /\ source[s] \in Seq(ItemType) /\ n \in Nat
         /\ \A k \in 1..n : source[s][k] \in ItemType /\ LegibleItem(source[s][k])
         /\ ServerPlaces(layout, s)
         /\ \A k \in 1..n : source[s][k].block => BlockPlaces(layout, s, k)
         /\ ServerEnd(layout, s - 1) \in Nat
         /\ Stand(ServerEnd(layout, s - 1), <<"server", "{">>)
         /\ ServerEnd(layout, s) <= Len(FileTokens(source, layout))
<1>1. Len(source) \in Nat /\ DOMAIN source = 1..Len(source) /\ s \in DOMAIN source
  BY LenProperties
<1>2. source[s] \in Seq(ItemType)
  BY ElementOfSeq
<1>3. Len(source[s]) \in Nat /\ DOMAIN source[s] = 1..Len(source[s])
      /\ \A k \in 1..Len(source[s]) : source[s][k] \in ItemType
  BY <1>2, LenProperties, ElementOfSeq
<1>4. \A k \in 1..Len(source[s]) : LegibleItem(source[s][k])
  BY <1>1, <1>3 DEF Legible
<1>5. s \in 0..Len(source) /\ s - 1 \in 0..Len(source)
  BY <1>1
<1> QED
  BY <1>2, <1>3, <1>4, <1>5 DEF Mapped, FilePlaces

\* The places do not move with the parser.
LEMMA PlacesStay ==
  ASSUME source' = source, NEW layout
  PROVE  /\ \A s : ServerEnd(layout, s)' = ServerEnd(layout, s')
         /\ \A s, k : ItemEnd(layout, s, k)' = ItemEnd(layout, s, k)
         /\ \A s, k, d : DirectiveEnd(layout, s, k, d)' = DirectiveEnd(layout, s, k, d)
BY DEF ServerEnd, ItemEnd, DirectiveEnd

----------------------------------------------------------------------------
(* A turn of the parser between two servers.                               *)

\* A turn, and what it has to leave.
Turn(layout) ==
  /\ TypeInv /\ Legible(source) /\ ConfigInv /\ TokensInv(layout) /\ Mapped(layout)
  /\ ParserStep
Goes(layout) ==
  /\ ConfigInv'
  /\ phase' = "parsing" => PlaceInv(layout)'
  /\ whole /\ phase' # "parsing" => phase' # "undefined" /\ Len(config') = Len(source)

\* What every turn has and leaves alone.
LEMMA TurnFacts ==
  ASSUME NEW layout, Turn(layout)
  PROVE  /\ tokens \in Seq(Word) /\ Len(tokens) \in Nat /\ i \in Nat \ {0} /\ i \in Nat
         /\ \A j \in 1..Len(tokens) : tokens[j] \in Word
         /\ source \in Seq(Seq(ItemType)) /\ Len(source) \in Nat
         /\ config \in Seq(ServerSet) /\ Len(config) \in Nat /\ Len(config) <= Len(source)
         /\ currServer \in ServerSet /\ currLocation \in LocationSet
         /\ tokens' = tokens /\ source' = source /\ whole' = whole /\ phase = "parsing"
         /\ Len(tokens) <= Len(FileTokens(source, layout))
         /\ whole => Len(tokens) = Len(FileTokens(source, layout))
<1>1. /\ tokens \in Seq(Word) /\ i \in Nat \ {0} /\ source \in Seq(Seq(ItemType))
      /\ config \in Seq(ServerSet) /\ currServer \in ServerSet /\ currLocation \in LocationSet
  BY DEF Turn, TypeInv
<1>2. /\ Len(tokens) \in Nat /\ Len(source) \in Nat /\ Len(config) \in Nat
      /\ \A j \in 1..Len(tokens) : tokens[j] \in Word
  BY <1>1, LenProperties, ElementOfSeq
<1>3. Len(config) <= Len(source)
  BY DEF Turn, ConfigInv
<1>4. tokens' = tokens /\ source' = source /\ whole' = whole /\ phase = "parsing"
  BY ParserFrame DEF Turn, fileVars
<1>5. /\ Len(tokens) <= Len(FileTokens(source, layout))
      /\ whole => Len(tokens) = Len(FileTokens(source, layout))
  BY DEF Turn, TokensInv, Opens
<1> QED
  BY <1>1, <1>2, <1>3, <1>4, <1>5

\* The servers that are there stay.
LEMMA ConfigStays ==
  ASSUME ConfigInv, config' = config, source' = source
  PROVE  ConfigInv'
BY DEF ConfigInv

\* One token less to pass over.
LEMMA PassedOn ==
  ASSUME NEW p \in Nat, NEW words, PassedOver(p, words), i \in Nat, i <= p, i' = i + 1,
         tokens' = tokens
  PROVE  PassedOver(p, words)' /\ (i <= Len(tokens) => tok \notin words)
<1>1. i \in i..p /\ i' <= p + 1 /\ i' \in Nat
  OBVIOUS
<1>2. \A j \in i'..p : j \in i..p
  OBVIOUS
<1>3. \A j \in i..p : j <= Len(tokens) => tokens[j] \notin words
  BY DEF PassedOver
<1>4. \A j \in i'..p : j <= Len(tokens') => tokens'[j] \notin words
  BY <1>2, <1>3
<1> QED
  BY <1>1, <1>3, <1>4 DEF PassedOver, tok

\* The next place is in a server.
LEMMA IntoServer ==
  ASSUME NEW layout, NEW s \in Nat, NEW k \in Nat, source' = source,
         s = Len(config') + 1, s <= Len(source), k <= Len(source[s]), Len(source[s]) \in Nat,
         inServer', ~inLocation', ServerMeans(currServer', SubSeq(source[s], 1, k)),
         PassedOver(ItemEnd(layout, s, k), ServerWords)'
  PROVE  PlaceInv(layout)'
<1>1. k \in 0..Len(source[s])
  OBVIOUS
<1>2. ServerRead(s, k)'
  BY <1>1 DEF ServerRead
<1>3. InServer(layout, s, k)'
  BY <1>2 DEF InServer
<1> QED
  BY <1>3 DEF PlaceInv

\* The next place is in a location.
LEMMA IntoLocation ==
  ASSUME NEW layout, NEW s \in Nat, NEW k \in Nat, NEW d \in Nat, source' = source,
         s = Len(config') + 1, s <= Len(source), k \in 1..Len(source[s]), Len(source[s]) \in Nat,
         inServer', inLocation', ServerMeans(currServer', SubSeq(source[s], 1, k - 1)),
         source[s][k].block, d \in 0..Len(source[s][k].body),
         currLocation'.path = source[s][k].words[2],
         BodyMeans(currLocation', SubSeq(source[s][k].body, 1, d)),
         PassedOver(DirectiveEnd(layout, s, k, d), LocationWords)'
  PROVE  PlaceInv(layout)'
<1>1. k - 1 \in 0..Len(source[s])
  OBVIOUS
<1>2. ServerRead(s, k - 1)'
  BY <1>1 DEF ServerRead
<1>3. InLocation(layout, s, k, d)'
  BY <1>2 DEF InLocation
<1> QED
  BY <1>3 DEF PlaceInv

\* A complete file has no place behind which there is nothing, but its end.
LEMMA ServerWithin ==
  ASSUME NEW layout, Turn(layout), NEW s \in 1..Len(source), NEW k \in 0..Len(source[s])
  PROVE  /\ ItemEnd(layout, s, k) \in Nat
         /\ ItemEnd(layout, s, 0) = ServerEnd(layout, s - 1) + 2
         /\ ServerEnd(layout, s) = ItemEnd(layout, s, Len(source[s])) + 1
         /\ ItemEnd(layout, s, k) <= ItemEnd(layout, s, Len(source[s]))
         /\ ItemEnd(layout, s, Len(source[s])) \in Nat
         /\ whole => ItemEnd(layout, s, k) + 1 <= Len(tokens)
<1>1. Mapped(layout) /\ source \in Seq(Seq(ItemType)) /\ Legible(source)
  BY TurnFacts DEF Turn
<1>2. /\ Len(source[s]) \in Nat /\ ServerPlaces(layout, s)
      /\ ServerEnd(layout, s) <= Len(FileTokens(source, layout))
  BY <1>1, ServerKnown
<1>3. Len(source[s]) \in 0..Len(source[s])
  BY <1>2
<1>4. /\ ItemEnd(layout, s, k) \in Nat
      /\ ItemEnd(layout, s, 0) = ServerEnd(layout, s - 1) + 2
      /\ ServerEnd(layout, s) = ItemEnd(layout, s, Len(source[s])) + 1
      /\ ItemEnd(layout, s, k) <= ItemEnd(layout, s, Len(source[s]))
      /\ ItemEnd(layout, s, Len(source[s])) \in Nat
  BY <1>2, <1>3 DEF ServerPlaces
<1>5. whole => Len(tokens) = Len(FileTokens(source, layout)) /\ Len(tokens) \in Nat
  BY TurnFacts
<1> QED
  BY <1>2, <1>4, <1>5

\* Between two servers the next one begins, or the file ends.
LEMMA OutsideTurn ==
  ASSUME NEW layout, Turn(layout), Outside(layout)
  PROVE  Goes(layout)
<1> DEFINE n == Len(config)
           s == n + 1
           e == ServerEnd(layout, n)
<1>1. n \in Nat /\ Len(source) \in Nat /\ n <= Len(source) /\ Len(tokens) \in Nat /\ i \in Nat \ {0}
  BY TurnFacts
<1>2. ~inServer /\ ~inLocation /\ i = e + 1 /\ e \in Nat
  <2>1. n \in 0..Len(source)
    BY <1>1
  <2> QED
    BY <2>1 DEF Outside, Turn, Mapped, FilePlaces
<1>3. n = Len(source) => Len(tokens) <= e
  BY TurnFacts DEF Turn, Mapped, FilePlaces
<1>4. ASSUME n < Len(source)
      PROVE  /\ s \in 1..Len(source) /\ Len(source[s]) \in Nat /\ Stand(e, <<"server", "{">>)
             /\ ItemEnd(layout, s, 0) = e + 2 /\ (whole => e + 2 < Len(tokens))
  <2>1. s \in 1..Len(source) /\ s - 1 = n
    BY <1>1, <1>4
  <2> HIDE DEF s
  <2>2. Mapped(layout) /\ source \in Seq(Seq(ItemType)) /\ Legible(source)
    BY TurnFacts DEF Turn
  <2>3. Stand(e, <<"server", "{">>)
    BY <2>1, <2>2, ServerKnown
  <2>6. Len(source[s]) \in Nat
    BY <2>1, <2>2, ServerKnown
  <2>4. 0 \in 0..Len(source[s])
    BY <2>6
  <2>5. ItemEnd(layout, s, 0) = e + 2 /\ (whole => ItemEnd(layout, s, 0) + 1 <= Len(tokens))
    BY <2>1, <2>4, ServerWithin
  <2>7. whole => e + 2 < Len(tokens)
    BY <1>1, <1>2, <2>5
  <2> QED
    BY <2>1, <2>3, <2>5, <2>6, <2>7
<1> HIDE DEF e
<1>5. tokens \in Seq(Word) /\ ParserStep /\ tokens' = tokens /\ source' = source /\ ConfigInv
  BY TurnFacts DEF Turn
<1>6. CASE i > Len(tokens)
  <2>1. ParserReturns
    BY <1>1, <1>5, <1>6, TurnIs
  <2>2. config' = config /\ phase' = "binding"
    BY <2>1 DEF ParserReturns, parserVars
  <2>3. whole => n = Len(source)
    <3>1. n < Len(source) => (whole => e + 2 < Len(tokens))
      BY <1>4
    <3>2. i = e + 1 /\ e \in Nat
      BY <1>2
    <3> QED
      BY ONLY <1>1, <1>6, <3>1, <3>2
  <2> QED
    BY <1>5, <2>2, <2>3, ConfigStays DEF Goes
<1>7. CASE i <= Len(tokens)
  <2>1. n < Len(source)
    BY <1>1, <1>2, <1>3, <1>7
  <2>2. tok = "server"
    <3>1. Stand(e, <<"server", "{">>)
      BY <1>4, <2>1
    <3>2. 1 \in 1..Len(<<"server", "{">>) /\ <<"server", "{">>[1] = "server"
      OBVIOUS
    <3> QED
      BY <1>2, <1>7, <3>1, <3>2 DEF Stand, tok
  <2>3. Branch = "server"
    BY <2>2, BranchIs
  <2>4. Reach = i + 0
    BY <2>3, ReachIs
  <2>5. ServerBegins
    BY <1>1, <1>5, <1>7, <2>3, <2>4, TurnIs
  <2>6. /\ currServer' = NewServer /\ inServer' /\ i' = i + 2 /\ ~inLocation' /\ config' = config
        /\ phase' = phase
    BY <1>2, <2>5 DEF ServerBegins
  <2>7. ServerMeans(currServer', SubSeq(source[s], 1, 0))
    <3>1. SubSeq(source[s], 1, 0) = <<>>
      BY SubSeqEmpty
    <3> QED
      BY <2>6, <3>1, ServerMeant
  <2>8. PassedOver(ItemEnd(layout, s, 0), ServerWords)'
    <3> DEFINE p == ItemEnd(layout, s, 0)
    <3>1. p = e + 2
      BY <1>4, <2>1
    <3> HIDE DEF p
    <3>2. p \in Nat /\ i' = p + 1
      BY <1>2, <2>6, <3>1
    <3>3. i' <= p + 1 /\ \A j \in i'..p : FALSE
      BY ONLY <3>2
    <3>4. p' = p
      <4>1. source' = source
        BY <1>5
      <4>2. \A t : ItemEnd(layout, t, 0)' = ItemEnd(layout, t, 0)
        BY <4>1, PlacesStay
      <4>3. s' = s
        BY <2>6
      <4> QED
        BY <4>2, <4>3 DEF p
    <3> QED
      BY <3>3, <3>4 DEF p, PassedOver
  <2>9. PlaceInv(layout)'
    <3>1. s \in Nat /\ s <= Len(source) /\ 0 \in Nat /\ 0 <= Len(source[s]) /\ Len(source[s]) \in Nat
      <4>1. s \in 1..Len(source) /\ Len(source[s]) \in Nat
        BY <1>4, <2>1
      <4> HIDE DEF s
      <4> QED
        BY <1>1, <4>1
    <3>2. s = Len(config') + 1
      BY <2>6
    <3> QED
      BY <1>5, <2>6, <2>7, <2>8, <3>1, <3>2, IntoServer
  <2> QED
    BY <1>5, <2>6, <2>9, ConfigStays, TurnFacts DEF Goes
<1> QED
  BY <1>1, <1>6, <1>7

----------------------------------------------------------------------------
(* A turn of the parser in a server.                                       *)

\* The file ends before its time.
LEMMA CutShort ==
  ASSUME NEW layout, Turn(layout), ~whole, config' = config, phase' # "parsing"
  PROVE  Goes(layout)
<1>1. source' = source /\ ConfigInv
  BY TurnFacts DEF Turn
<1> QED
  BY <1>1, ConfigStays DEF Goes

\* The next place is in the same server, where p is the end of an item.
LEMMA NextInServer ==
  ASSUME NEW layout, Turn(layout), NEW s \in Nat, NEW k \in Nat, NEW p, p = ItemEnd(layout, s, k),
         s = Len(config) + 1, s <= Len(source), k <= Len(source[s]), Len(source[s]) \in Nat,
         inServer', ~inLocation', ServerMeans(currServer', SubSeq(source[s], 1, k)),
         PassedOver(p, ServerWords)', config' = config, phase' = phase
  PROVE  Goes(layout)
<1>1. source' = source /\ ConfigInv /\ phase = "parsing"
  BY TurnFacts DEF Turn
<1>2. s = Len(config') + 1
  OBVIOUS
<1>3. p = ItemEnd(layout, s, k)'
  BY <1>1, PlacesStay
<1>4. PassedOver(ItemEnd(layout, s, k), ServerWords)'
  BY <1>3
<1>5. PlaceInv(layout)'
  BY <1>1, <1>2, <1>4, IntoServer
<1> QED
  BY <1>1, <1>5, ConfigStays DEF Goes

\* The next place is in a location, where p is the end of a directive.
LEMMA NextInLocation ==
  ASSUME NEW layout, Turn(layout), NEW s \in Nat, NEW k \in Nat, NEW d \in Nat,
         NEW p, p = DirectiveEnd(layout, s, k, d),
         s = Len(config) + 1, s <= Len(source), k \in 1..Len(source[s]), Len(source[s]) \in Nat,
         inServer', inLocation', ServerMeans(currServer', SubSeq(source[s], 1, k - 1)),
         source[s][k].block, d \in 0..Len(source[s][k].body),
         currLocation'.path = source[s][k].words[2],
         BodyMeans(currLocation', SubSeq(source[s][k].body, 1, d)),
         PassedOver(p, LocationWords)', config' = config, phase' = phase
  PROVE  Goes(layout)
<1>1. source' = source /\ ConfigInv /\ phase = "parsing"
  BY TurnFacts DEF Turn
<1>2. s = Len(config') + 1
  OBVIOUS
<1>3. p = DirectiveEnd(layout, s, k, d)'
  BY <1>1, PlacesStay
<1>4. PassedOver(DirectiveEnd(layout, s, k, d), LocationWords)'
  BY <1>3
<1>5. PlaceInv(layout)'
  BY <1>1, <1>2, <1>4, IntoLocation
<1> QED
  BY <1>1, <1>5, ConfigStays DEF Goes

\* Behind a directive's words, up to where it ends.
LEMMA DirectivePassed ==
  ASSUME NEW layout, Turn(layout), NEW w \in Seq(Word), NEW p \in Nat,
         Stand(p, DirectiveTokens(w, layout)),
         NEW words, ";" \notin words, "" \notin words,
         NEW q, q = p + Len(DirectiveTokens(w, layout)),
         i' \in Nat \ {0}, p < i', i' <= q + 1,
         \A j \in 1..Len(w) : i' <= p + j => w[j] \notin words
  PROVE  PassedOver(q, words)'
<1>1. tokens \in Seq(Word) /\ tokens' = tokens
  BY TurnFacts
<1>2. \A x \in Nat \ {0} : (\A j \in 1..Len(w) : x <= p + j => w[j] \notin words) =>
        \A j \in x .. p + Len(DirectiveTokens(w, layout)) :
          p < j /\ j <= Len(tokens) => tokens[j] \notin words
  BY <1>1, LeftOver
<1>3. \A j \in i'..q : p < j /\ j <= Len(tokens) => tokens[j] \notin words
  BY <1>2
<1>4. q \in Int
  <2> DEFINE n == Len(w)
             m == Len(DirectiveTokens(w, layout))
  <2>1. n \in Nat /\ m \in {n + 1, n + 2}
    BY <1>1, DirectiveStands
  <2>2. p \in Nat /\ q = p + m
    OBVIOUS
  <2> HIDE DEF n, m
  <2> QED
    BY ONLY <2>1, <2>2
<1>5. ASSUME NEW j \in i'..q, j <= Len(tokens')
      PROVE  tokens'[j] \notin words
  <2>1. p < j
    <3>1. p \in Nat /\ i' \in Nat /\ p < i' /\ j \in i'..q
      OBVIOUS
    <3> QED
      BY ONLY <1>4, <3>1
  <2> QED
    BY <1>1, <1>3, <1>5, <2>1
<1> QED
  BY <1>5 DEF PassedOver

\* A server that is being read.
LEMMA ServerHere ==
  ASSUME NEW layout, Turn(layout), NEW s \in Nat, NEW k \in Nat, InServer(layout, s, k)
  PROVE  /\ s = Len(config) + 1 /\ s \in 1..Len(source) /\ s <= Len(source)
         /\ k \in 0..Len(source[s]) /\ Len(source[s]) \in Nat /\ source[s] \in Seq(ItemType)
         /\ \A j \in 1..Len(source[s]) : source[s][j] \in ItemType /\ LegibleItem(source[s][j])
         /\ ItemEnd(layout, s, k) \in Nat /\ i <= ItemEnd(layout, s, k) + 1
         /\ whole => ItemEnd(layout, s, k) + 1 <= Len(tokens)
         /\ inServer /\ ~inLocation /\ ServerMeans(currServer, SubSeq(source[s], 1, k))
         /\ PassedOver(ItemEnd(layout, s, k), ServerWords)
<1>1. /\ s = Len(config) + 1 /\ s <= Len(source) /\ k \in 0..Len(source[s])
      /\ inServer /\ ~inLocation /\ ServerMeans(currServer, SubSeq(source[s], 1, k))
      /\ PassedOver(ItemEnd(layout, s, k), ServerWords)
  BY DEF InServer, ServerRead
<1>2. s \in 1..Len(source)
  <2>1. Len(config) \in Nat /\ Len(source) \in Nat
    BY TurnFacts
  <2> QED
    BY <1>1, <2>1
<1>3. Mapped(layout) /\ source \in Seq(Seq(ItemType)) /\ Legible(source)
  BY TurnFacts DEF Turn
<1>4. /\ Len(source[s]) \in Nat /\ source[s] \in Seq(ItemType)
      /\ \A j \in 1..Len(source[s]) : source[s][j] \in ItemType /\ LegibleItem(source[s][j])
  BY <1>2, <1>3, ServerKnown
<1>5. /\ ItemEnd(layout, s, k) \in Nat
      /\ whole => ItemEnd(layout, s, k) + 1 <= Len(tokens)
  BY <1>1, <1>2, ServerWithin
<1>6. i <= ItemEnd(layout, s, k) + 1
  BY <1>1 DEF PassedOver
<1> QED
  BY <1>1, <1>2, <1>4, <1>5, <1>6

\* An item of a server, and where it stands.
LEMMA ItemHere ==
  ASSUME NEW layout, Turn(layout), NEW s \in 1..Len(source), NEW k \in 1..Len(source[s])
  PROVE  LET t == source[s][k]
             p == ItemEnd(layout, s, k - 1)
         IN /\ p \in Nat /\ ItemEnd(layout, s, k) = p + Len(ItemTokens(t, layout))
            /\ Stand(p, ItemTokens(t, layout))
            /\ t.block => BlockPlaces(layout, s, k)
<1>1. Mapped(layout) /\ source \in Seq(Seq(ItemType)) /\ Legible(source)
  BY TurnFacts DEF Turn
<1>2. Len(source[s]) \in Nat
  BY <1>1, ServerKnown
<1>3. k - 1 \in 0..Len(source[s])
  BY <1>2
<1>4. ServerPlaces(layout, s) /\ (source[s][k].block => BlockPlaces(layout, s, k))
  BY <1>1, ServerKnown
<1> QED
  BY <1>3, <1>4 DEF ServerPlaces

\* Behind the file nothing is read any more.
LEMMA ServerCut ==
  ASSUME NEW layout, Turn(layout), NEW s \in Nat, NEW k \in Nat, InServer(layout, s, k),
         i > Len(tokens)
  PROVE  Goes(layout)
<1>1. /\ tokens \in Seq(Word) /\ i \in Nat \ {0} /\ Len(tokens) \in Nat /\ ParserStep
  BY TurnFacts DEF Turn
<1>2. ParserReturns
  BY <1>1, TurnIs
<1>3. config' = config /\ phase' = "binding"
  BY <1>2 DEF ParserReturns, parserVars
<1>4. ~whole
  <2>1. /\ ItemEnd(layout, s, k) \in Nat /\ i <= ItemEnd(layout, s, k) + 1
        /\ whole => ItemEnd(layout, s, k) + 1 <= Len(tokens)
    BY ServerHere
  <2> QED
    BY <1>1, <2>1
<1> QED
  BY <1>3, <1>4, CutShort

\* A word of the item before, or a semicolon.
LEMMA ServerPasses ==
  ASSUME NEW layout, Turn(layout), NEW s \in Nat, NEW k \in Nat, InServer(layout, s, k),
         i <= Len(tokens), i <= ItemEnd(layout, s, k)
  PROVE  Goes(layout)
<1>1. /\ tokens \in Seq(Word) /\ i \in Nat \ {0} /\ i \in Nat /\ Len(tokens) \in Nat /\ ParserStep
      /\ tokens' = tokens
  BY TurnFacts DEF Turn
<1>2. /\ s = Len(config) + 1 /\ s <= Len(source)
      /\ k \in 0..Len(source[s]) /\ Len(source[s]) \in Nat
      /\ inServer /\ ~inLocation /\ ServerMeans(currServer, SubSeq(source[s], 1, k))
  BY ServerHere
<1>3. PICK p \in Nat : p = ItemEnd(layout, s, k)
  BY ServerHere
<1>4. PassedOver(p, ServerWords) /\ i <= p
  BY <1>3, ServerHere
<1>5. i \in i..p /\ tok \notin ServerWords
  <2>1. i \in i..p
    BY <1>1, <1>4
  <2> QED
    BY <1>4, <2>1 DEF PassedOver, tok
<1>6. Branch = ""
  BY <1>2, <1>5, BranchIs
<1>7. Reach = i
  BY <1>6, ReachIs
<1>8. Ignored
  BY <1>1, <1>6, <1>7, TurnIs
<1>9. i' = i + 1 /\ UNCHANGED parserVars /\ phase' = phase
  BY <1>8 DEF Ignored
<1>10. PassedOver(p, ServerWords)'
  BY <1>1, <1>4, <1>9, PassedOn
<1>11. /\ inServer' /\ ~inLocation' /\ ServerMeans(currServer', SubSeq(source[s], 1, k))
       /\ config' = config
  BY <1>2, <1>9 DEF parserVars
<1>12. k <= Len(source[s])
  BY <1>2
<1> QED
  BY <1>2, <1>3, <1>9, <1>10, <1>11, <1>12, NextInServer

\* The server ends.
LEMMA ServerCloses ==
  ASSUME NEW layout, Turn(layout), NEW s \in Nat, NEW k \in Nat, InServer(layout, s, k),
         i <= Len(tokens), i = ItemEnd(layout, s, k) + 1, k = Len(source[s])
  PROVE  Goes(layout)
<1>1. /\ tokens \in Seq(Word) /\ i \in Nat \ {0} /\ i \in Nat /\ Len(tokens) \in Nat /\ ParserStep
      /\ source' = source /\ phase = "parsing" /\ ConfigInv /\ config \in Seq(ServerSet)
      /\ currServer \in ServerSet /\ Len(config) \in Nat
  BY TurnFacts DEF Turn
<1>2. /\ s = Len(config) + 1 /\ s <= Len(source) /\ s \in 1..Len(source)
      /\ k \in 0..Len(source[s]) /\ Len(source[s]) \in Nat /\ source[s] \in Seq(ItemType)
      /\ inServer /\ ~inLocation /\ ServerMeans(currServer, SubSeq(source[s], 1, k))
  BY ServerHere
<1>3. PICK p \in Nat : p = ItemEnd(layout, s, k)
  BY ServerHere
<1>4. ServerEnd(layout, s) = p + 1 /\ Stand(p, <<"}">>)
  <2>1. Mapped(layout) /\ source \in Seq(Seq(ItemType)) /\ Legible(source)
    BY TurnFacts DEF Turn
  <2>2. ServerPlaces(layout, s)
    BY <1>2, <2>1, ServerKnown
  <2> QED
    BY <1>3, <2>2 DEF ServerPlaces
<1>5. tok = "}" /\ i = p + 1
  <2>1. 1 \in 1..Len(<<"}">>) /\ <<"}">>[1] = "}"
    OBVIOUS
  <2> QED
    BY <1>3, <1>4, <2>1 DEF Stand, tok
<1>6. Branch = "}"
  BY <1>2, <1>5, BranchIs
<1>7. Reach = i
  BY <1>6, ReachIs
<1>8. ServerEnds
  BY <1>1, <1>2, <1>6, <1>7, TurnIs
<1>9. config' = Append(config, currServer) /\ ~inServer' /\ i' = i + 1 /\ ~inLocation' /\ phase' = phase
  BY <1>2, <1>8 DEF ServerEnds
<1>10. /\ Len(config') = s /\ config'[s] = currServer
       /\ \A n \in 1..Len(config) : config'[n] = config[n]
  BY <1>1, <1>2, <1>9, AppendProperties
<1>11. CleanServer(currServer) = MeaningOfServer(source[s])
  <2>1. SubSeq(source[s], 1, k) = source[s]
    BY <1>2, SubSeqFull
  <2> QED
    BY <1>1, <1>2, <2>1, ServerMeant
<1>12. ConfigInv'
  <2>1. ASSUME NEW n \in 1..s
        PROVE  CleanServer(config'[n]) = MeaningOfServer(source[n])
    <3>1. n \in 1..Len(config) \/ n = s
      BY <1>1, <1>2
    <3> QED
      BY <1>1, <1>10, <1>11, <3>1 DEF ConfigInv
  <2>2. (\A n \in 1..Len(config) : CleanServer(config[n]) = MeaningOfServer(source[n]))'
    BY <1>1, <1>10, <2>1
  <2> QED
    BY <1>1, <1>2, <1>10, <2>2 DEF ConfigInv
<1>13. PlaceInv(layout)'
  <2>1. i' = ServerEnd(layout, s) + 1
    BY <1>1, <1>4, <1>5, <1>9
  <2>2. ServerEnd(layout, Len(config))' = ServerEnd(layout, s)
    BY <1>1, <1>10, PlacesStay
  <2> QED
    BY <1>9, <2>1, <2>2 DEF PlaceInv, Outside
<1> QED
  BY <1>1, <1>9, <1>12, <1>13 DEF Goes

\* The words of an item, behind the p-th token.
LEMMA WordsHere ==
  ASSUME NEW layout, Turn(layout), NEW s \in Nat, NEW k \in Nat, InServer(layout, s, k),
         k < Len(source[s]), NEW p \in Nat, p = ItemEnd(layout, s, k)
  PROVE  LET t == source[s][k + 1]
             q == ItemEnd(layout, s, k + 1)
         IN /\ k + 1 \in 1..Len(source[s]) /\ k + 1 \in Nat /\ q \in Nat
            /\ t \in ItemType /\ LegibleItem(t)
            /\ ~t.block => /\ t.words \in Seq(Word) /\ Stand(p, DirectiveTokens(t.words, layout))
                           /\ q = p + Len(DirectiveTokens(t.words, layout))
            /\ t.block => BlockPlaces(layout, s, k + 1)
            /\ whole => q + 1 <= Len(tokens)
<1> DEFINE t == source[s][k + 1]
           j == k + 1
<1>1. /\ s \in 1..Len(source) /\ Len(source[s]) \in Nat
      /\ \A m \in 1..Len(source[s]) : source[s][m] \in ItemType /\ LegibleItem(source[s][m])
  BY ServerHere
<1>2. j \in 1..Len(source[s]) /\ j \in Nat /\ j - 1 = k /\ j \in 0..Len(source[s])
  BY <1>1
<1>3. t \in ItemType /\ LegibleItem(t)
  BY <1>1, <1>2
<1>4. /\ ItemEnd(layout, s, j) = p + Len(ItemTokens(t, layout))
      /\ Stand(p, ItemTokens(t, layout)) /\ (t.block => BlockPlaces(layout, s, j))
  <2> HIDE DEF j
  <2>1. /\ ItemEnd(layout, s, j) = ItemEnd(layout, s, j - 1) + Len(ItemTokens(source[s][j], layout))
        /\ Stand(ItemEnd(layout, s, j - 1), ItemTokens(source[s][j], layout))
        /\ source[s][j].block => BlockPlaces(layout, s, j)
    BY <1>1, <1>2, ItemHere
  <2> QED
    BY <1>2, <2>1 DEF j
<1>5. ~t.block => ItemTokens(t, layout) = DirectiveTokens(t.words, layout)
  BY DEF ItemTokens
<1>6. t.words \in Seq(Word)
  <2>1. t.words \in Seq(STRING)
    BY <1>3, ItemKinds
  <2>2. STRING \subseteq Word
    BY DEF Word
  <2> QED
    BY <2>1, <2>2, SeqMonotonic
<1>7. ItemEnd(layout, s, j) \in Nat /\ (whole => ItemEnd(layout, s, j) + 1 <= Len(tokens))
  BY <1>1, <1>2, ServerWithin
<1> QED
  BY <1>2, <1>3, <1>4, <1>5, <1>6, <1>7

\* With the next item the server means more.
LEMMA ServerMore ==
  ASSUME NEW layout, Turn(layout), NEW s \in Nat, NEW k \in Nat, InServer(layout, s, k),
         k < Len(source[s])
  PROVE  LET t == source[s][k + 1]
             c == SubSeq(source[s], 1, k + 1)
         IN /\ t.words[1] = "listen" =>
                 ServerMeans([currServer EXCEPT !.listens = Append(@, Address(t.words[2]))], c)
            /\ t.block => \A l \in LocationSet : Clean(l) = MeaningOfLocation(t) =>
                 ServerMeans([currServer EXCEPT !.locations = Append(@, l)], c)
            /\ ~t.block /\ t.words[1] # "listen" => ServerMeans(currServer, c)
<1> DEFINE t == source[s][k + 1]
           b == SubSeq(source[s], 1, k)
           c == SubSeq(source[s], 1, k + 1)
           j == k + 1
<1>1. /\ source[s] \in Seq(ItemType) /\ Len(source[s]) \in Nat
      /\ \A m \in 1..Len(source[s]) : source[s][m] \in ItemType /\ LegibleItem(source[s][m])
  BY ServerHere
<1>2. j \in 1..Len(source[s]) /\ j - 1 = k
  BY <1>1
<1> HIDE DEF j
<1>3. /\ More(SubSeq(source[s], 1, j), SubSeq(source[s], 1, j - 1), source[s][j])
      /\ SubSeq(source[s], 1, j - 1) \in Seq(ItemType)
      /\ Len(SubSeq(source[s], 1, j - 1)) = j - 1
      /\ \A m \in 1..(j - 1) : SubSeq(source[s], 1, j - 1)[m] = source[s][m]
  BY <1>1, <1>2, OneMore
<1>4. More(c, b, t) /\ b \in Seq(ItemType) /\ Len(b) = k /\ \A m \in 1..k : b[m] = source[s][m]
  BY <1>2, <1>3 DEF j
<1> HIDE DEF b, c
<1>5. t \in ItemType /\ LegibleItem(t)
  BY <1>1, <1>2 DEF j
<1>6. \A m \in 1..Len(b) : LegibleItem(b[m])
  <2>1. \A m \in 1..k : m \in 1..Len(source[s])
    BY <1>1
  <2> QED
    BY <1>1, <1>4, <2>1
<1>7. currServer \in ServerSet
  BY TurnFacts
<1>8. ServerMeans(currServer, b)
  BY ServerHere DEF b
<1> HIDE DEF t
<1>9. /\ t.words[1] = "listen" =>
           ServerMeans([currServer EXCEPT !.listens = Append(@, Address(t.words[2]))], c)
      /\ t.block => \A l \in LocationSet : Clean(l) = MeaningOfLocation(t) =>
           ServerMeans([currServer EXCEPT !.locations = Append(@, l)], c)
      /\ ~t.block /\ t.words[1] # "listen" => ServerMeans(currServer, c)
  BY <1>4, <1>5, <1>6, <1>7, <1>8, ServerGrows
<1> QED
  BY <1>9 DEF t, c

\* A word that stands in the file.
LEMMA WordAt ==
  ASSUME tokens \in Seq(Word), NEW w \in Seq(Word), NEW layout, NEW p \in Nat,
         Stand(p, DirectiveTokens(w, layout)), NEW j \in 1..Len(w), p + j <= Len(tokens)
  PROVE  tokens[p + j] = w[j]
<1>1. Stand(p, w)
  BY DirectiveStands
<1> QED
  BY <1>1 DEF Stand

\* A listen directive.
LEMMA ListenRead ==
  ASSUME NEW layout, Turn(layout), NEW s \in Nat, NEW k \in Nat, InServer(layout, s, k),
         i <= Len(tokens), i = ItemEnd(layout, s, k) + 1, k < Len(source[s]),
         source[s][k + 1].words[1] = "listen"
  PROVE  Goes(layout)
<1> DEFINE t == source[s][k + 1]
           w == t.words
           m == Len(DirectiveTokens(w, layout))
<1>1. /\ tokens \in Seq(Word) /\ i \in Nat \ {0} /\ ParserStep /\ phase = "parsing"
  BY TurnFacts DEF Turn
<1>2. Len(tokens) \in Nat /\ i \in Nat
  BY TurnFacts
<1>3. /\ s = Len(config) + 1 /\ s <= Len(source) /\ Len(source[s]) \in Nat
      /\ inServer /\ ~inLocation
  BY ServerHere
<1>4. PICK p \in Nat : p = ItemEnd(layout, s, k)
  BY ServerHere
<1>5. k + 1 \in 1..Len(source[s]) /\ k + 1 \in Nat /\ t \in ItemType /\ LegibleItem(t)
  BY <1>4, WordsHere
<1>6. ~t.block /\ Len(w) = 2
  BY <1>5, ItemKinds
<1>7. PICK q \in Nat : q = ItemEnd(layout, s, k + 1)
  BY <1>4, WordsHere
<1>8. /\ w \in Seq(Word) /\ Stand(p, DirectiveTokens(w, layout)) /\ q = p + m
      /\ whole => q + 1 <= Len(tokens)
  BY <1>4, <1>6, <1>7, WordsHere
<1>9. m \in {3, 4}
  <2>1. m \in {Len(w) + 1, Len(w) + 2}
    BY <1>1, <1>8, DirectiveStands
  <2> QED
    BY <1>6, <2>1
<1> HIDE DEF t, m
<1>10. i = p + 1
  BY <1>4
<1>11. tok = "listen"
  <2>1. 1 \in 1..Len(w) /\ p + 1 <= Len(tokens)
    BY <1>6, <1>10
  <2>2. tokens[p + 1] = w[1]
    BY <1>1, <1>8, <2>1, WordAt
  <2> QED
    BY <1>10, <2>2 DEF tok, t
<1>12. Branch = "listen"
  BY <1>3, <1>11, BranchIs
<1>13. Reach = i + 1
  BY <1>12, ReachIs
<1>14. CASE Reach > Len(tokens)
  <2>1. Overrun
    BY <1>1, <1>14, TurnIs
  <2>2. config' = config /\ phase' = "undefined"
    BY <2>1 DEF Overrun, parserVars
  <2>3. q = p + m /\ (whole => q + 1 <= Len(tokens))
    BY <1>8
  <2>4. ~whole
    BY ONLY <1>2, <1>9, <1>10, <1>13, <1>14, <2>3, p \in Nat
  <2> QED
    BY <2>2, <2>4, CutShort
<1>15. CASE Reach <= Len(tokens)
  <2>1. Listen
    BY <1>1, <1>12, <1>15, TurnIs
  <2>2. tokens[i + 1] = w[2]
    <3>1. 2 \in 1..Len(w) /\ p + 2 <= Len(tokens) /\ i + 1 = p + 2
      BY <1>6, <1>10, <1>13, <1>15
    <3>2. tokens[p + 2] = w[2]
      BY <1>1, <1>8, <3>1, WordAt
    <3> QED
      BY <3>1, <3>2
  <2>3. /\ currServer' = [currServer EXCEPT !.listens = Append(@, Address(w[2]))]
        /\ i' = i + 3 /\ inServer' /\ ~inLocation' /\ config' = config /\ phase' = phase
    BY <1>3, <2>1, <2>2 DEF Listen, BehindListen
  <2>4. ServerMeans(currServer', SubSeq(source[s], 1, k + 1))
    BY <2>3, ServerMore DEF t
  <2>5. PassedOver(q, ServerWords)'
    <3>1. q = p + m
      BY <1>8
    <3>2. i' \in Nat \ {0} /\ p < i' /\ i' <= q + 1 /\ \A j \in 1..2 : ~(i' <= p + j)
      BY ONLY <1>2, <1>9, <1>10, <2>3, <3>1, p \in Nat
    <3>3. ";" \notin ServerWords /\ "" \notin ServerWords
      BY DEF ServerWords
    <3> QED
      BY <1>6, <1>8, <3>1, <3>2, <3>3, DirectivePassed DEF m
  <2>6. k + 1 <= Len(source[s])
    BY <1>5
  <2> QED
    BY <1>3, <1>5, <1>7, <2>3, <2>4, <2>5, <2>6, NextInServer
<1> QED
  BY <1>2, <1>13, <1>14, <1>15

\* A directive the parser does not know.
LEMMA UnknownRead ==
  ASSUME NEW layout, Turn(layout), NEW s \in Nat, NEW k \in Nat, InServer(layout, s, k),
         i <= Len(tokens), i = ItemEnd(layout, s, k) + 1, k < Len(source[s]),
         ~source[s][k + 1].block, source[s][k + 1].words[1] # "listen"
  PROVE  Goes(layout)
<1> DEFINE t == source[s][k + 1]
           w == t.words
           m == Len(DirectiveTokens(w, layout))
<1>1. /\ tokens \in Seq(Word) /\ i \in Nat \ {0} /\ ParserStep /\ phase = "parsing"
  BY TurnFacts DEF Turn
<1>2. Len(tokens) \in Nat /\ i \in Nat
  BY TurnFacts
<1>3. /\ s = Len(config) + 1 /\ s <= Len(source) /\ Len(source[s]) \in Nat
      /\ inServer /\ ~inLocation
  BY ServerHere
<1>4. PICK p \in Nat : p = ItemEnd(layout, s, k)
  BY ServerHere
<1>5. k + 1 \in 1..Len(source[s]) /\ k + 1 \in Nat /\ t \in ItemType /\ LegibleItem(t)
  BY <1>4, WordsHere
<1>6. /\ 1 \in 1..Len(w) /\ Len(w) \in Nat /\ DOMAIN w = 1..Len(w)
      /\ Range(w) \cap ServerWords = {}
  BY <1>5, ItemKinds
<1>7. PICK q \in Nat : q = ItemEnd(layout, s, k + 1)
  BY <1>4, WordsHere
<1>8. w \in Seq(Word) /\ Stand(p, DirectiveTokens(w, layout)) /\ q = p + m
  BY <1>4, <1>7, WordsHere
<1>9. m \in {Len(w) + 1, Len(w) + 2}
  BY <1>1, <1>8, DirectiveStands
<1>10. \A j \in 1..Len(w) : w[j] \notin ServerWords
  BY <1>6 DEF Range
<1> HIDE DEF t, m, w
<1>11. i = p + 1
  BY <1>4
<1>12. tok \notin ServerWords
  <2>1. p + 1 <= Len(tokens)
    BY <1>11
  <2>2. tokens[p + 1] = w[1]
    BY <1>1, <1>6, <1>8, <2>1, WordAt
  <2> QED
    BY <1>6, <1>10, <1>11, <2>2 DEF tok
<1>13. Branch = ""
  BY <1>3, <1>12, BranchIs
<1>14. Reach = i
  BY <1>13, ReachIs
<1>15. Ignored
  BY <1>1, <1>2, <1>13, <1>14, TurnIs
<1>16. i' = i + 1 /\ UNCHANGED parserVars /\ phase' = phase
  BY <1>15 DEF Ignored
<1>17. ServerMeans(currServer, SubSeq(source[s], 1, k + 1))
  BY ServerMore DEF t
<1>18. PassedOver(q, ServerWords)'
  <2>1. q = p + m /\ Len(w) \in Nat /\ 1 \in 1..Len(w)
    BY <1>6, <1>8
  <2>2. i' \in Nat \ {0} /\ p < i' /\ i' <= q + 1
    BY ONLY <1>2, <1>9, <1>11, <1>16, <2>1, p \in Nat
  <2>3. ";" \notin ServerWords /\ "" \notin ServerWords
    BY DEF ServerWords
  <2> QED
    BY <1>8, <1>10, <2>1, <2>2, <2>3, DirectivePassed DEF m
<1>19. k + 1 <= Len(source[s])
  BY <1>5
<1>20. /\ inServer' /\ ~inLocation' /\ ServerMeans(currServer', SubSeq(source[s], 1, k + 1))
       /\ config' = config
  BY <1>3, <1>16, <1>17 DEF parserVars
<1> QED
  BY <1>3, <1>5, <1>7, <1>16, <1>18, <1>19, <1>20, NextInServer

\* A block, and where its directives stand.
LEMMA BlockHere ==
  ASSUME NEW layout, Turn(layout), NEW s \in 1..Len(source), NEW k \in 1..Len(source[s]),
         source[s][k].block
  PROVE  LET body == source[s][k].body
             n == Len(body)
         IN /\ n \in Nat /\ body \in Seq(Seq(STRING))
            /\ \A d \in 1..n : body[d] \in Seq(STRING) /\ LegibleDirective(body[d])
            /\ DirectiveEnd(layout, s, k, 0) = ItemEnd(layout, s, k - 1) + 3
            /\ \A d \in 0..n : /\ DirectiveEnd(layout, s, k, d) \in Nat
                               /\ whole => DirectiveEnd(layout, s, k, d) + 2 <= Len(tokens)
            /\ ItemEnd(layout, s, k) = DirectiveEnd(layout, s, k, n) + 1
            /\ Stand(DirectiveEnd(layout, s, k, n), <<"}">>)
<1> DEFINE t == source[s][k]
           n == Len(t.body)
<1>1. Mapped(layout) /\ source \in Seq(Seq(ItemType)) /\ Legible(source)
  BY TurnFacts DEF Turn
<1>2. t \in ItemType /\ LegibleItem(t)
  BY <1>1, ServerKnown
<1>3. Len(source[s]) \in Nat
  BY <1>1, ServerKnown
<1>4. /\ t.body \in Seq(Seq(STRING)) /\ \A d \in 1..n : LegibleDirective(t.body[d])
  <2> HIDE DEF t
  <2> QED
    BY <1>2, ItemKinds DEF t
<1>5. n \in Nat /\ \A d \in 1..n : t.body[d] \in Seq(STRING)
  BY <1>4, LenProperties, ElementOfSeq
<1>6. BlockPlaces(layout, s, k)
  BY <1>1, ServerKnown
<1>7. /\ DirectiveEnd(layout, s, k, 0) = ItemEnd(layout, s, k - 1) + 3
      /\ ItemEnd(layout, s, k) = DirectiveEnd(layout, s, k, n) + 1
      /\ Stand(DirectiveEnd(layout, s, k, n), <<"}">>)
  BY <1>6 DEF BlockPlaces
<1>8. \A d \in 0..n : /\ DirectiveEnd(layout, s, k, d) \in Nat
                      /\ DirectiveEnd(layout, s, k, d) <= DirectiveEnd(layout, s, k, n)
  BY <1>6 DEF BlockPlaces
<1>9. whole => ItemEnd(layout, s, k) + 1 <= Len(tokens)
  <2>1. k \in 0..Len(source[s])
    BY <1>3
  <2> QED
    BY <2>1, ServerWithin
<1>10. ASSUME NEW d \in 0..n, whole
       PROVE  DirectiveEnd(layout, s, k, d) + 2 <= Len(tokens)
  <2> DEFINE a == DirectiveEnd(layout, s, k, d)
             b == DirectiveEnd(layout, s, k, n)
             e == ItemEnd(layout, s, k)
  <2>1. a \in Nat /\ b \in Nat /\ a <= b
    <3>1. n \in 0..n
      BY <1>5
    <3> QED
      BY <1>8, <3>1
  <2>2. e = b + 1
    BY <1>7
  <2>3. e + 1 <= Len(tokens) /\ Len(tokens) \in Nat
    BY <1>9, <1>10, TurnFacts
  <2> HIDE DEF a, b, e
  <2>4. a + 2 <= Len(tokens)
    BY ONLY <2>1, <2>2, <2>3
  <2> QED
    BY <2>4 DEF a
<1> HIDE DEF t, n
<1>11. \A d \in 0..n : /\ DirectiveEnd(layout, s, k, d) \in Nat
                       /\ whole => DirectiveEnd(layout, s, k, d) + 2 <= Len(tokens)
  BY <1>8, <1>10
<1>12. \A d \in 1..n : t.body[d] \in Seq(STRING) /\ LegibleDirective(t.body[d])
  BY <1>4, <1>5
<1> QED
  BY <1>4, <1>5, <1>7, <1>11, <1>12 DEF t, n

\* A location begins.
LEMMA BlockRead ==
  ASSUME NEW layout, Turn(layout), NEW s \in Nat, NEW k \in Nat, InServer(layout, s, k),
         i <= Len(tokens), i = ItemEnd(layout, s, k) + 1, k < Len(source[s]),
         source[s][k + 1].block
  PROVE  Goes(layout)
<1> DEFINE j == k + 1
           t == source[s][j]
           w == t.words
           u == w \o <<"{">>
           zero == 0
<1>1. /\ tokens \in Seq(Word) /\ i \in Nat \ {0} /\ ParserStep /\ tokens' = tokens
  BY TurnFacts DEF Turn
<1>2. Len(tokens) \in Nat /\ i \in Nat
  BY TurnFacts
<1>3. /\ s = Len(config) + 1 /\ s <= Len(source) /\ s \in 1..Len(source)
      /\ Len(source[s]) \in Nat /\ inServer /\ ~inLocation
      /\ ServerMeans(currServer, SubSeq(source[s], 1, k))
  BY ServerHere
<1>4. PICK p \in Nat : p = ItemEnd(layout, s, k)
  BY ServerHere
<1>5. j \in 1..Len(source[s]) /\ j \in Nat /\ t \in ItemType /\ LegibleItem(t) /\ j - 1 = k
  <2>1. j \in 1..Len(source[s]) /\ j \in Nat /\ t \in ItemType /\ LegibleItem(t)
    BY <1>4, WordsHere
  <2>2. k \in Nat
    OBVIOUS
  <2>3. j - 1 = k
    BY ONLY <2>2
  <2> QED
    BY <2>1, <2>3
<1>6. /\ w \in Seq(STRING) /\ Len(w) = 2 /\ w[1] = "location" /\ w[2] # "#"
  <2>1. t.block
    OBVIOUS
  <2> HIDE DEF t
  <2>2. w \in Seq(STRING) /\ Len(w) = 2 /\ w[1] = "location"
    BY <1>5, <2>1, ItemKinds
  <2>3. w[2] # "#"
    BY <1>5, <2>1 DEF LegibleItem
  <2> QED
    BY <2>2, <2>3
<1> HIDE DEF w
<1>7. Len(u) = 3 /\ u[1] = "location" /\ u[2] = w[2] /\ u[3] = "{"
  BY <1>6, BlockWords
<1>8. Stand(p, u)
  <2>1. BlockPlaces(layout, s, j)
    BY <1>4, WordsHere
  <2> QED
    BY <1>4, <1>5, <2>1 DEF BlockPlaces, w
<1> HIDE DEF u
<1>9. /\ DirectiveEnd(layout, s, j, zero) = p + 3
      /\ whole => DirectiveEnd(layout, s, j, zero) + 2 <= Len(tokens)
      /\ zero \in 0..Len(t.body) /\ zero \in Nat
  <2> HIDE DEF j
  <2>1. t.block
    BY DEF j
  <2>2. Len(t.body) \in Nat
    BY <1>3, <1>5, <2>1, BlockHere
  <2>3. /\ DirectiveEnd(layout, s, j, 0) = ItemEnd(layout, s, j - 1) + 3
        /\ \A d \in 0..Len(t.body) : /\ DirectiveEnd(layout, s, j, d) \in Nat
                                     /\ whole => DirectiveEnd(layout, s, j, d) + 2 <= Len(tokens)
    BY <1>3, <1>5, <2>1, BlockHere
  <2>4. zero \in 0..Len(t.body) /\ zero \in Nat
    BY <2>2
  <2> QED
    BY <1>4, <1>5, <2>3, <2>4
<1> HIDE DEF zero
<1>10. i = p + 1 /\ p \in Nat
  BY <1>4
<1>11. \A m \in 1..3 : p + m <= Len(tokens) => tokens[p + m] = u[m]
  BY <1>7, <1>8 DEF Stand
<1>12. tok = "location"
  <2>1. 1 \in 1..3 /\ p + 1 <= Len(tokens)
    BY <1>10
  <2>2. tokens[p + 1] = u[1]
    BY <1>11, <2>1
  <2> QED
    BY <1>7, <1>10, <2>2 DEF tok
<1>13. Branch = "location"
  BY <1>3, <1>12, BranchIs
<1>14. Reach = i + 1
  BY <1>13, ReachIs
<1>15. CASE Reach > Len(tokens)
  <2>1. Overrun
    BY <1>1, <1>15, TurnIs
  <2>2. config' = config /\ phase' = "undefined"
    BY <2>1 DEF Overrun, parserVars
  <2>3. DirectiveEnd(layout, s, j, zero) = p + 3
        /\ (whole => DirectiveEnd(layout, s, j, zero) + 2 <= Len(tokens))
    BY <1>9
  <2>4. ~whole
    BY ONLY <1>2, <1>10, <1>14, <1>15, <2>3
  <2> QED
    BY <2>2, <2>4, CutShort
<1>16. CASE Reach <= Len(tokens)
  <2>1. LocationBegins
    BY <1>1, <1>13, <1>16, TurnIs
  <2>2. tokens[i + 1] = w[2]
    <3>1. 2 \in 1..3 /\ p + 2 <= Len(tokens) /\ i + 1 = p + 2
      BY ONLY <1>2, <1>10, <1>14, <1>16
    <3>2. tokens[p + 2] = u[2]
      BY <1>11, <3>1
    <3> QED
      BY <1>7, <3>1, <3>2
  <2>3. /\ currLocation' = NewLocation(w[2]) /\ i' = Reach + 1 /\ inLocation' /\ inServer'
        /\ currServer' = currServer /\ config' = config /\ phase' = phase
    BY <1>3, <2>1, <2>2 DEF LocationBegins
  <2>4. BodyMeans(currLocation', SubSeq(t.body, 1, zero)) /\ currLocation'.path = w[2]
    <3>1. SubSeq(t.body, 1, zero) = <<>>
      BY SubSeqEmpty DEF zero
    <3>2. w[2] \in Word
      <4>1. w[2] \in STRING
        <5>1. w \in Seq(STRING) /\ Len(w) = 2
          BY <1>6
        <5>2. 2 \in 1..Len(w)
          BY ONLY <5>1
        <5> QED
          BY ONLY <5>1, <5>2, ElementOfSeq
      <4> QED
        BY <4>1 DEF Word
    <3> QED
      BY <2>3, <3>1, <3>2, BodyEmpty
  <2>5. PassedOver(p + 3, LocationWords)'
    <3>1. i' = p + 3
      BY ONLY <1>2, <1>10, <1>14, <2>3
    <3>2. \A m \in i'..p + 3 : m = p + 3
      BY ONLY <1>10, <3>1
    <3>3. p + 3 <= Len(tokens) => tokens[p + 3] = "{"
      <4>1. 3 \in 1..3
        OBVIOUS
      <4>2. p + 3 <= Len(tokens) => tokens[p + 3] = u[3]
        BY <1>11, <4>1
      <4> QED
        BY <1>7, <4>2
    <3>4. "{" \notin LocationWords
      BY DEF LocationWords
    <3>5. i' <= (p + 3) + 1
      BY ONLY <1>10, <3>1
    <3>6. \A m \in i'..p + 3 : m <= Len(tokens') => tokens'[m] \notin LocationWords
      BY <1>1, <3>2, <3>3, <3>4
    <3> QED
      BY <3>5, <3>6 DEF PassedOver
  <2>6. PICK q : q = p + 3
    OBVIOUS
  <2>7. PassedOver(q, LocationWords)' /\ q = DirectiveEnd(layout, s, j, zero)
    BY <1>9, <2>5, <2>6
  <2>8. ServerMeans(currServer', SubSeq(source[s], 1, j - 1))
    BY <1>3, <1>5, <2>3
  <2>9. t.block /\ zero \in Nat /\ zero \in 0..Len(t.body) /\ currLocation'.path = t.words[2]
    BY <1>9, <2>4 DEF w
  <2> HIDE DEF j
  <2> QED
    BY <1>3, <1>5, <2>3, <2>4, <2>7, <2>8, <2>9, NextInLocation
<1> QED
  BY <1>2, <1>14, <1>15, <1>16

\* In a server the parser passes over what is left of an item, reads the next one,
\* or comes to the end.
LEMMA ServerTurn ==
  ASSUME NEW layout, Turn(layout), NEW s \in Nat, NEW k \in Nat, InServer(layout, s, k)
  PROVE  Goes(layout)
<1>1. Len(tokens) \in Nat /\ i \in Nat
  BY TurnFacts
<1>2. PICK p \in Nat : p = ItemEnd(layout, s, k) /\ i <= p + 1
  BY ServerHere
<1>3. k \in 0..Len(source[s]) /\ Len(source[s]) \in Nat
  BY ServerHere
<1>4. CASE i > Len(tokens)
  BY <1>4, ServerCut
<1>5. CASE i <= Len(tokens) /\ i <= p
  BY <1>2, <1>5, ServerPasses
<1>6. CASE i <= Len(tokens) /\ i = p + 1 /\ k = Len(source[s])
  BY <1>2, <1>6, ServerCloses
<1>7. CASE i <= Len(tokens) /\ i = p + 1 /\ k < Len(source[s])
  <2>1. CASE source[s][k + 1].words[1] = "listen"
    BY <1>2, <1>7, <2>1, ListenRead
  <2>2. CASE source[s][k + 1].block
    BY <1>2, <1>7, <2>2, BlockRead
  <2>3. CASE source[s][k + 1].words[1] # "listen" /\ ~source[s][k + 1].block
    BY <1>2, <1>7, <2>3, UnknownRead
  <2> QED
    BY <2>1, <2>2, <2>3
<1> QED
  BY <1>1, <1>2, <1>3, <1>4, <1>5, <1>6, <1>7

----------------------------------------------------------------------------
(* A turn of the parser in a location.                                     *)

\* A location that is being read.
LEMMA LocationHere ==
  ASSUME NEW layout, Turn(layout), NEW s \in Nat, NEW k \in Nat, NEW d \in Nat,
         InLocation(layout, s, k, d)
  PROVE  /\ s = Len(config) + 1 /\ s \in 1..Len(source) /\ s <= Len(source)
         /\ k \in 1..Len(source[s]) /\ Len(source[s]) \in Nat
         /\ source[s][k].block /\ Len(source[s][k].body) \in Nat
         /\ d \in 0..Len(source[s][k].body)
         /\ inServer /\ inLocation /\ ServerMeans(currServer, SubSeq(source[s], 1, k - 1))
         /\ currLocation.path = source[s][k].words[2]
         /\ BodyMeans(currLocation, SubSeq(source[s][k].body, 1, d))
         /\ PassedOver(DirectiveEnd(layout, s, k, d), LocationWords)
         /\ DirectiveEnd(layout, s, k, d) \in Nat /\ i <= DirectiveEnd(layout, s, k, d) + 1
         /\ whole => DirectiveEnd(layout, s, k, d) + 2 <= Len(tokens)
<1>1. /\ s = Len(config) + 1 /\ s <= Len(source) /\ k \in 1..Len(source[s])
      /\ source[s][k].block /\ d \in 0..Len(source[s][k].body)
      /\ inServer /\ inLocation /\ ServerMeans(currServer, SubSeq(source[s], 1, k - 1))
      /\ currLocation.path = source[s][k].words[2]
      /\ BodyMeans(currLocation, SubSeq(source[s][k].body, 1, d))
      /\ PassedOver(DirectiveEnd(layout, s, k, d), LocationWords)
  BY DEF InLocation, ServerRead
<1>2. s \in 1..Len(source)
  <2>1. Len(config) \in Nat /\ Len(source) \in Nat
    BY TurnFacts
  <2> QED
    BY <1>1, <2>1
<1>3. Mapped(layout) /\ source \in Seq(Seq(ItemType)) /\ Legible(source)
  BY TurnFacts DEF Turn
<1>4. Len(source[s]) \in Nat
  BY <1>2, <1>3, ServerKnown
<1>5. Len(source[s][k].body) \in Nat
  BY <1>1, <1>2, BlockHere
<1>6. /\ DirectiveEnd(layout, s, k, d) \in Nat
      /\ whole => DirectiveEnd(layout, s, k, d) + 2 <= Len(tokens)
  BY <1>1, <1>2, BlockHere
<1>7. i <= DirectiveEnd(layout, s, k, d) + 1
  BY <1>1 DEF PassedOver
<1> QED
  BY <1>1, <1>2, <1>4, <1>5, <1>6, <1>7

\* Behind the file nothing is read any more.
LEMMA LocationCut ==
  ASSUME NEW layout, Turn(layout), NEW s \in Nat, NEW k \in Nat, NEW d \in Nat,
         InLocation(layout, s, k, d), i > Len(tokens)
  PROVE  Goes(layout)
<1>1. /\ tokens \in Seq(Word) /\ i \in Nat \ {0} /\ Len(tokens) \in Nat /\ ParserStep
  BY TurnFacts DEF Turn
<1>2. ParserReturns
  BY <1>1, TurnIs
<1>3. config' = config /\ phase' = "binding"
  BY <1>2 DEF ParserReturns, parserVars
<1>4. ~whole
  <2>1. /\ DirectiveEnd(layout, s, k, d) \in Nat /\ i <= DirectiveEnd(layout, s, k, d) + 1
        /\ whole => DirectiveEnd(layout, s, k, d) + 2 <= Len(tokens)
    BY LocationHere
  <2> QED
    BY <1>1, <2>1
<1> QED
  BY <1>3, <1>4, CutShort

\* A word of the directive before, or a semicolon.
LEMMA LocationPasses ==
  ASSUME NEW layout, Turn(layout), NEW s \in Nat, NEW k \in Nat, NEW d \in Nat,
         InLocation(layout, s, k, d), i <= Len(tokens), i <= DirectiveEnd(layout, s, k, d)
  PROVE  Goes(layout)
<1>1. /\ tokens \in Seq(Word) /\ i \in Nat \ {0} /\ i \in Nat /\ Len(tokens) \in Nat /\ ParserStep
      /\ tokens' = tokens
  BY TurnFacts DEF Turn
<1>2. /\ s = Len(config) + 1 /\ s <= Len(source) /\ k \in 1..Len(source[s])
      /\ Len(source[s]) \in Nat /\ source[s][k].block /\ d \in 0..Len(source[s][k].body)
      /\ inServer /\ inLocation /\ ServerMeans(currServer, SubSeq(source[s], 1, k - 1))
      /\ currLocation.path = source[s][k].words[2]
      /\ BodyMeans(currLocation, SubSeq(source[s][k].body, 1, d))
  BY LocationHere
<1>3. PICK p \in Nat : p = DirectiveEnd(layout, s, k, d)
  BY LocationHere
<1>4. PassedOver(p, LocationWords) /\ i <= p
  BY <1>3, LocationHere
<1>5. tok \notin LocationWords
  <2>1. i \in i..p
    BY <1>1, <1>4
  <2> QED
    BY <1>4, <2>1 DEF PassedOver, tok
<1>6. Branch = ""
  BY <1>2, <1>5, BranchIs
<1>7. Reach = i
  BY <1>6, ReachIs
<1>8. Ignored
  BY <1>1, <1>6, <1>7, TurnIs
<1>9. i' = i + 1 /\ UNCHANGED parserVars /\ phase' = phase
  BY <1>8 DEF Ignored
<1>10. PassedOver(p, LocationWords)'
  BY <1>1, <1>4, <1>9, PassedOn
<1>11. /\ inServer' /\ inLocation' /\ ServerMeans(currServer', SubSeq(source[s], 1, k - 1))
       /\ currLocation'.path = source[s][k].words[2]
       /\ BodyMeans(currLocation', SubSeq(source[s][k].body, 1, d))
       /\ config' = config
  BY <1>2, <1>9 DEF parserVars
<1> QED
  BY <1>2, <1>3, <1>9, <1>10, <1>11, NextInLocation

\* The location ends.
LEMMA LocationCloses ==
  ASSUME NEW layout, Turn(layout), NEW s \in Nat, NEW k \in Nat, NEW d \in Nat,
         InLocation(layout, s, k, d), i <= Len(tokens), i = DirectiveEnd(layout, s, k, d) + 1,
         d = Len(source[s][k].body)
  PROVE  Goes(layout)
<1>1. /\ tokens \in Seq(Word) /\ i \in Nat \ {0} /\ i \in Nat /\ Len(tokens) \in Nat /\ ParserStep
      /\ currServer \in ServerSet /\ currLocation \in LocationSet
  BY TurnFacts DEF Turn
<1>2. /\ s = Len(config) + 1 /\ s <= Len(source) /\ s \in 1..Len(source)
      /\ k \in 1..Len(source[s]) /\ Len(source[s]) \in Nat /\ source[s][k].block
      /\ inServer /\ inLocation /\ ServerMeans(currServer, SubSeq(source[s], 1, k - 1))
      /\ currLocation.path = source[s][k].words[2]
      /\ BodyMeans(currLocation, SubSeq(source[s][k].body, 1, d))
  BY LocationHere
<1>3. PICK p \in Nat : p = DirectiveEnd(layout, s, k, d)
  BY LocationHere
<1>4. Stand(p, <<"}">>) /\ ItemEnd(layout, s, k) = p + 1 /\ source[s][k].body \in Seq(Seq(STRING))
  BY <1>2, <1>3, BlockHere
<1>5. tok = "}" /\ i = p + 1
  <2>1. 1 \in 1..Len(<<"}">>) /\ <<"}">>[1] = "}"
    OBVIOUS
  <2> QED
    BY <1>3, <1>4, <2>1 DEF Stand, tok
<1>6. Branch = "}"
  BY <1>2, <1>5, BranchIs
<1>7. Reach = i
  BY <1>6, ReachIs
<1>8. LocationEnds
  BY <1>1, <1>2, <1>6, <1>7, TurnIs
<1>9. /\ currServer' = [currServer EXCEPT !.locations = Append(@, currLocation)]
      /\ inServer' /\ i' = i + 1 /\ ~inLocation' /\ phase' = phase /\ config' = config
  BY <1>2, <1>8 DEF LocationEnds
<1>10. /\ source[s] \in Seq(ItemType)
       /\ \A m \in 1..Len(source[s]) : source[s][m] \in ItemType /\ LegibleItem(source[s][m])
  <2>1. Mapped(layout) /\ source \in Seq(Seq(ItemType)) /\ Legible(source)
    BY TurnFacts DEF Turn
  <2> QED
    BY <1>2, <2>1, ServerKnown
<1> DEFINE t == source[s][k]
           b == SubSeq(source[s], 1, k - 1)
           c == SubSeq(source[s], 1, k)
<1>11. Clean(currLocation) = MeaningOfLocation(t)
  <2>1. SubSeq(t.body, 1, d) = t.body
    BY <1>4, SubSeqFull
  <2> QED
    BY <1>1, <1>2, <1>10, <2>1, LocationMeant
<1>12. More(c, b, t) /\ b \in Seq(ItemType) /\ \A m \in 1..Len(b) : LegibleItem(b[m])
  <2>1. /\ More(c, b, t) /\ b \in Seq(ItemType)
        /\ Len(b) = k - 1 /\ \A m \in 1..(k - 1) : b[m] = source[s][m]
    BY <1>2, <1>10, OneMore
  <2>2. \A m \in 1..(k - 1) : m \in 1..Len(source[s])
    BY <1>2
  <2> HIDE DEF b
  <2> QED
    BY <1>10, <2>1, <2>2
<1>13. t \in ItemType /\ LegibleItem(t) /\ t.block
  BY <1>2, <1>10
<1>14. ServerMeans(currServer, b)
  BY <1>2
<1> HIDE DEF t, b, c
<1>15. ServerMeans(currServer', c)
  BY <1>1, <1>9, <1>11, <1>12, <1>13, <1>14, ServerGrows
<1>16. PICK q \in Nat : q = ItemEnd(layout, s, k) /\ q = p + 1
  <2>1. ItemEnd(layout, s, k) = p + 1
    BY <1>4
  <2>2. p + 1 \in Nat
    OBVIOUS
  <2> QED
    BY ONLY <2>1, <2>2
<1>17. PassedOver(q, ServerWords)'
  <2>1. i' = q + 1
    BY <1>1, <1>5, <1>9, <1>16
  <2>2. i' <= q + 1 /\ \A j \in i'..q : FALSE
    BY ONLY <2>1, q \in Nat
  <2> QED
    BY <2>2 DEF PassedOver
<1>18. k <= Len(source[s]) /\ k \in Nat
  BY <1>2
<1> QED
  BY <1>2, <1>9, <1>15, <1>16, <1>17, <1>18, NextInServer DEF c

\* A directive stands between two places; it is one more of a body.
StandsIn(p, q, w, layout) ==
  /\ Stand(p, DirectiveTokens(w, layout))
  /\ q = p + Len(DirectiveTokens(w, layout)) /\ q \in Nat
OneMoreOf(b, c, w) ==
  /\ More(c, b, w) /\ b \in Seq(Seq(STRING)) /\ \A m \in 1..Len(b) : b[m] # <<>>
  /\ BodyMeans(currLocation, b)
\* The directive at w in the body of a block: where it begins and ends, and what the
\* body is without it and with it.
OfBody(layout, s, k, d, p, w, q, b, c) ==
  /\ Turn(layout) /\ s \in Nat /\ k \in Nat /\ d \in Nat /\ InLocation(layout, s, k, d)
  /\ d < Len(source[s][k].body)
  /\ p \in Nat /\ p = DirectiveEnd(layout, s, k, d) /\ w = source[s][k].body[d + 1]
  /\ q = DirectiveEnd(layout, s, k, d + 1)
  /\ b = SubSeq(source[s][k].body, 1, d) /\ c = SubSeq(source[s][k].body, 1, d + 1)
\* A directive, its place, and what it adds.
LEMMA DirectiveHere ==
  ASSUME NEW layout, NEW s, NEW k, NEW d, NEW p, NEW w, NEW q, NEW b, NEW c,
         OfBody(layout, s, k, d, p, w, q, b, c)
  PROVE  /\ w \in Seq(STRING) /\ w \in Seq(Word) /\ LegibleDirective(w)
         /\ StandsIn(p, q, w, layout) /\ OneMoreOf(b, c, w)
         /\ whole => q + 2 <= Len(tokens)
         /\ d + 1 \in 0..Len(source[s][k].body) /\ d + 1 \in Nat
<1>0. /\ Turn(layout) /\ s \in Nat /\ k \in Nat /\ d \in Nat /\ InLocation(layout, s, k, d)
      /\ d < Len(source[s][k].body)
      /\ p \in Nat /\ p = DirectiveEnd(layout, s, k, d) /\ w = source[s][k].body[d + 1]
      /\ q = DirectiveEnd(layout, s, k, d + 1)
      /\ b = SubSeq(source[s][k].body, 1, d) /\ c = SubSeq(source[s][k].body, 1, d + 1)
  BY DEF OfBody
<1> USE <1>0
<1> DEFINE body == source[s][k].body
           n == Len(body)
           j == d + 1
<1>1. /\ s \in 1..Len(source) /\ k \in 1..Len(source[s]) /\ source[s][k].block
      /\ BodyMeans(currLocation, SubSeq(body, 1, d))
  BY LocationHere
<1>2. /\ n \in Nat /\ body \in Seq(Seq(STRING))
      /\ \A m \in 1..n : body[m] \in Seq(STRING) /\ LegibleDirective(body[m])
      /\ \A m \in 0..n : /\ DirectiveEnd(layout, s, k, m) \in Nat
                         /\ whole => DirectiveEnd(layout, s, k, m) + 2 <= Len(tokens)
  BY <1>1, BlockHere
<1>3. j \in 1..n /\ j \in 0..n /\ j \in Nat /\ j - 1 = d
  <2>1. n \in Nat /\ d \in Nat /\ d < n
    BY <1>2
  <2> HIDE DEF n
  <2> QED
    BY ONLY <2>1
<1>4. BlockPlaces(layout, s, k)
  <2>1. Mapped(layout)
    BY DEF Turn
  <2> QED
    BY <1>1, <2>1 DEF Mapped
<1> HIDE DEF j
<1>5. /\ DirectiveEnd(layout, s, k, j) = DirectiveEnd(layout, s, k, j - 1)
                                           + Len(DirectiveTokens(body[j], layout))
      /\ Stand(DirectiveEnd(layout, s, k, j - 1), DirectiveTokens(body[j], layout))
  BY <1>3, <1>4 DEF BlockPlaces
<1>6. /\ More(SubSeq(body, 1, j), SubSeq(body, 1, j - 1), body[j])
      /\ SubSeq(body, 1, j - 1) \in Seq(Seq(STRING))
      /\ Len(SubSeq(body, 1, j - 1)) = j - 1
      /\ \A m \in 1..(j - 1) : SubSeq(body, 1, j - 1)[m] = body[m]
  <2> DEFINE T == Seq(STRING)
  <2> HIDE DEF T, body
  <2>1. body \in Seq(T) /\ j \in 1..Len(body)
    BY <1>2, <1>3 DEF T
  <2>2. /\ More(SubSeq(body, 1, j), SubSeq(body, 1, j - 1), body[j])
        /\ SubSeq(body, 1, j - 1) \in Seq(T)
        /\ Len(SubSeq(body, 1, j - 1)) = j - 1
        /\ \A m \in 1..(j - 1) : SubSeq(body, 1, j - 1)[m] = body[m]
    BY <2>1, OneMore
  <2> QED
    BY <2>2 DEF T
<1> HIDE DEF body, n
<1>7. \A m \in 1..Len(SubSeq(body, 1, d)) : SubSeq(body, 1, d)[m] # <<>>
  <2>1. \A m \in 1..d : m \in 1..n
    BY <1>2, <1>3 DEF j
  <2>2. \A m \in 1..n : body[m] # <<>>
    BY <1>2 DEF LegibleDirective
  <2>3. Len(SubSeq(body, 1, d)) = d /\ \A m \in 1..d : SubSeq(body, 1, d)[m] = body[m]
    BY <1>3, <1>6
  <2> QED
    BY <2>1, <2>2, <2>3
<1>8. body[j] \in Seq(STRING) /\ LegibleDirective(body[j])
  BY <1>2, <1>3
<1>9. body[j] \in Seq(Word)
  <2>1. STRING \subseteq Word
    BY DEF Word
  <2> QED
    BY <1>8, <2>1, SeqMonotonic
<1>10. /\ DirectiveEnd(layout, s, k, j) \in Nat
       /\ whole => DirectiveEnd(layout, s, k, j) + 2 <= Len(tokens)
  BY <1>2, <1>3
<1>11. q = p + Len(DirectiveTokens(w, layout))
  <2>1. DirectiveEnd(layout, s, k, j) = p + Len(DirectiveTokens(body[j], layout))
    BY <1>3, <1>5
  <2> QED
    BY <2>1 DEF body, j
<1>12. \A m \in 1..Len(b) : b[m] # <<>>
  BY <1>7 DEF body
<1>13. Stand(p, DirectiveTokens(w, layout))
  <2>1. Stand(p, DirectiveTokens(body[j], layout))
    BY <1>3, <1>5
  <2> QED
    BY <2>1 DEF body, j
<1>14. w \in Seq(STRING) /\ w \in Seq(Word) /\ LegibleDirective(w)
  BY <1>8, <1>9 DEF body, j
<1>15. q \in Nat /\ (whole => q + 2 <= Len(tokens))
  BY <1>10 DEF j
<1>16. More(c, b, w) /\ b \in Seq(Seq(STRING))
  BY <1>3, <1>6 DEF body, j
<1>17. BodyMeans(currLocation, b)
  BY <1>1 DEF body
<1>18. d + 1 \in 0..Len(source[s][k].body) /\ d + 1 \in Nat
  BY <1>3 DEF body, n, j
<1> QED
  BY <1>11, <1>12, <1>13, <1>14, <1>15, <1>16, <1>17, <1>18 DEF StandsIn, OneMoreOf

\* What is left when a directive is read.
LEMMA DirectiveDone ==
  ASSUME NEW layout, Turn(layout), NEW s \in Nat, NEW k \in Nat, NEW d \in Nat,
         InLocation(layout, s, k, d), d < Len(source[s][k].body),
         NEW p \in Nat, p = DirectiveEnd(layout, s, k, d),
         NEW w, w = source[s][k].body[d + 1],
         i' \in Nat \ {0}, p < i', i' <= p + Len(DirectiveTokens(w, layout)) + 1,
         \A j \in 1..Len(w) : i' <= p + j => w[j] \notin LocationWords,
         config' = config, currServer' = currServer, inServer' = inServer,
         inLocation' = inLocation, phase' = phase, currLocation'.path = currLocation.path,
         BodyMeans(currLocation', SubSeq(source[s][k].body, 1, d + 1))
  PROVE  Goes(layout)
<1>1. /\ s = Len(config) + 1 /\ s <= Len(source) /\ k \in 1..Len(source[s])
      /\ Len(source[s]) \in Nat /\ source[s][k].block
      /\ inServer /\ inLocation /\ ServerMeans(currServer, SubSeq(source[s], 1, k - 1))
      /\ currLocation.path = source[s][k].words[2]
  BY LocationHere
<1>2. PICK q, b, c : /\ q = DirectiveEnd(layout, s, k, d + 1)
                     /\ b = SubSeq(source[s][k].body, 1, d)
                     /\ c = SubSeq(source[s][k].body, 1, d + 1)
  OBVIOUS
<1>9. OfBody(layout, s, k, d, p, w, q, b, c)
  BY <1>2 DEF OfBody
<1>3. /\ w \in Seq(Word) /\ Stand(p, DirectiveTokens(w, layout))
      /\ q = p + Len(DirectiveTokens(w, layout))
  <2>1. w \in Seq(Word) /\ StandsIn(p, q, w, layout)
    BY <1>9, DirectiveHere
  <2> QED
    BY <2>1 DEF StandsIn
<1>4. d + 1 \in 0..Len(source[s][k].body) /\ d + 1 \in Nat
  BY <1>9, DirectiveHere
<1>5. ";" \notin LocationWords /\ "" \notin LocationWords
  BY DEF LocationWords
<1>6. i' <= q + 1
  BY <1>3
<1>7. PassedOver(q, LocationWords)'
  BY <1>3, <1>5, <1>6, DirectivePassed
<1>8. ServerMeans(currServer', SubSeq(source[s], 1, k - 1)) /\ inServer' /\ inLocation'
      /\ currLocation'.path = source[s][k].words[2]
  BY <1>1
<1> QED
  BY <1>1, <1>2, <1>4, <1>7, <1>8, NextInLocation

\* The path stays.
LEMMA SetPath ==
  ASSUME currLocation \in LocationSet, NEW branch \in Directives
  PROVE  Set(branch).path = currLocation.path
<1>1. CASE branch = "root"
  BY <1>1 DEF Set, LocationSet
<1>2. CASE branch = "upload_store"
  BY <1>2 DEF Set, LocationSet
<1>3. CASE branch = "index"
  BY <1>3 DEF Set, LocationSet
<1>4. CASE branch = "methods"
  BY <1>4 DEF Set, LocationSet
<1>5. CASE branch = "error_page"
  BY <1>5 DEF Set, LocationSet
<1>6. CASE branch = "cgi"
  BY <1>6 DEF Set, LocationSet
<1>7. CASE branch = "return"
  BY <1>7 DEF Set, LocationSet
<1>8. CASE branch = "autoindex"
  BY <1>8 DEF Set, LocationSet
<1> QED
  BY <1>1, <1>2, <1>3, <1>4, <1>5, <1>6, <1>7, <1>8 DEF Directives

\* A setter is called with the words of the directive.
LEMMA SetMeans ==
  ASSUME NEW b \in Seq(Seq(STRING)), \A m \in 1..Len(b) : b[m] # <<>>,
         NEW w \in Seq(STRING), LegibleDirective(w), NEW c, More(c, b, w),
         currLocation \in LocationSet, BodyMeans(currLocation, b), w[1] \in Directives,
         w[1] \notin {"index", "methods"} => tokens[i + 1] = w[2],
         w[1] \in {"error_page", "cgi", "return"} => tokens[i + 2] = w[3],
         w[1] = "index" =>
           LET list == SubSeq(tokens, i + 1, Reach - 1)
           IN list \in Seq(Word) /\ NoEmpty(list) = Tail(w),
         w[1] = "methods" => SubSeq(tokens, i + 1, Reach - 1) = Tail(w)
  PROVE  BodyMeans(Set(w[1]), c)
<1> DEFINE L == currLocation
           list == SubSeq(tokens, i + 1, Reach - 1)
<1>1. /\ w[1] = "root" => BodyMeans([L EXCEPT !.root = w[2]], c)
      /\ w[1] = "upload_store" => BodyMeans([L EXCEPT !.upload_store = w[2]], c)
      /\ w[1] = "index" =>
           \A some \in Seq(Word) : NoEmpty(some) = Tail(w) =>
             BodyMeans([L EXCEPT !.index = @ \o some], c)
      /\ w[1] = "methods" => BodyMeans([L EXCEPT !.methods = @ \o Tail(w)], c)
      /\ w[1] = "error_page" =>
           BodyMeans([L EXCEPT !.errors = Insert(@, NumberOf[w[2]], w[3])], c)
      /\ w[1] = "cgi" => BodyMeans([L EXCEPT !.cgi = Insert(@, w[2], w[3])], c)
      /\ w[1] = "return" =>
           BodyMeans([L EXCEPT !.redir = <<NumberOf[w[2]], w[3]>>, !.isRedirection = TRUE], c)
      /\ w[1] = "autoindex" => BodyMeans([L EXCEPT !.autoindex = @ \/ w[2] = "on"], c)
  BY BodySet
<1>2. CASE w[1] = "root"
  <2>1. Set("root") = [L EXCEPT !.root = w[2]]
    BY <1>2 DEF Set
  <2> QED
    BY <1>1, <1>2, <2>1
<1>3. CASE w[1] = "upload_store"
  <2>1. Set("upload_store") = [L EXCEPT !.upload_store = w[2]]
    BY <1>3 DEF Set
  <2> QED
    BY <1>1, <1>3, <2>1
<1>4. CASE w[1] = "index"
  <2>1. Set("index") = [L EXCEPT !.index = @ \o list]
    BY <1>4 DEF Set
  <2>2. list \in Seq(Word) /\ NoEmpty(list) = Tail(w)
    BY <1>4
  <2>3. \A some \in Seq(Word) : NoEmpty(some) = Tail(w) =>
          BodyMeans([L EXCEPT !.index = @ \o some], c)
    BY <1>1, <1>4
  <2> HIDE DEF list
  <2>4. BodyMeans([L EXCEPT !.index = @ \o list], c)
    BY <2>2, <2>3
  <2> QED
    BY <1>4, <2>1, <2>4
<1>5. CASE w[1] = "methods"
  <2>1. Set("methods") = [L EXCEPT !.methods = @ \o Tail(w)]
    BY <1>5 DEF Set
  <2> QED
    BY <1>1, <1>5, <2>1
<1>6. CASE w[1] = "error_page"
  <2>1. Set("error_page") = [L EXCEPT !.errors = Insert(@, NumberOf[w[2]], w[3])]
    BY <1>6 DEF Set
  <2> QED
    BY <1>1, <1>6, <2>1
<1>7. CASE w[1] = "cgi"
  <2>1. Set("cgi") = [L EXCEPT !.cgi = Insert(@, w[2], w[3])]
    BY <1>7 DEF Set
  <2> QED
    BY <1>1, <1>7, <2>1
<1>8. CASE w[1] = "return"
  <2>1. Set("return") = [L EXCEPT !.redir = <<NumberOf[w[2]], w[3]>>, !.isRedirection = TRUE]
    BY <1>8 DEF Set
  <2> QED
    BY <1>1, <1>8, <2>1
<1>9. CASE w[1] = "autoindex"
  <2>1. Set("autoindex") = [L EXCEPT !.autoindex = @ \/ w[2] = "on"]
    BY <1>9 DEF Set
  <2> QED
    BY <1>1, <1>9, <2>1
<1> QED
  BY <1>2, <1>3, <1>4, <1>5, <1>6, <1>7, <1>8, <1>9 DEF Directives

\* A directive is read when its words are there.
LEMMA DirectiveTaken ==
  ASSUME NEW layout, Turn(layout), NEW s \in Nat, NEW k \in Nat, NEW d \in Nat,
         InLocation(layout, s, k, d), d < Len(source[s][k].body),
         NEW p \in Nat, p = DirectiveEnd(layout, s, k, d),
         NEW w, w = source[s][k].body[d + 1], w[1] \in Directives,
         Directive(w[1]), Reach \in Nat, p <= Reach,
         Reach <= p + Len(DirectiveTokens(w, layout)),
         \A j \in 1..Len(w) : Reach + 1 <= p + j => w[j] \notin LocationWords,
         w[1] \notin {"index", "methods"} => tokens[i + 1] = w[2],
         w[1] \in {"error_page", "cgi", "return"} => tokens[i + 2] = w[3],
         w[1] = "index" =>
           LET list == SubSeq(tokens, i + 1, Reach - 1)
           IN list \in Seq(Word) /\ NoEmpty(list) = Tail(w),
         w[1] = "methods" => SubSeq(tokens, i + 1, Reach - 1) = Tail(w)
  PROVE  Goes(layout)
<1>1. /\ currLocation' = Set(w[1]) /\ i' = Reach + 1 /\ config' = config
      /\ currServer' = currServer /\ inServer' = inServer /\ inLocation' = inLocation
      /\ phase' = phase
  BY DEF Directive
<1>2. currLocation \in LocationSet
  BY TurnFacts
<1>3. currLocation'.path = currLocation.path
  BY <1>1, <1>2, SetPath
<1>10. /\ Turn(layout) /\ s \in Nat /\ k \in Nat /\ d \in Nat /\ InLocation(layout, s, k, d)
       /\ d < Len(source[s][k].body) /\ p \in Nat /\ p = DirectiveEnd(layout, s, k, d)
       /\ w = source[s][k].body[d + 1]
  OBVIOUS
<1>9. PICK q, b, c : /\ q = DirectiveEnd(layout, s, k, d + 1)
                     /\ b = SubSeq(source[s][k].body, 1, d)
                     /\ c = SubSeq(source[s][k].body, 1, d + 1)
  OBVIOUS
<1>20. OfBody(layout, s, k, d, p, w, q, b, c)
  BY <1>9, <1>10 DEF OfBody
<1>4. /\ w \in Seq(STRING) /\ LegibleDirective(w)
      /\ More(c, b, w) /\ b \in Seq(Seq(STRING)) /\ \A m \in 1..Len(b) : b[m] # <<>>
      /\ BodyMeans(currLocation, b)
  <2>1. w \in Seq(STRING) /\ LegibleDirective(w)
    BY <1>20, DirectiveHere
  <2>2. OneMoreOf(b, c, w)
    BY <1>20, DirectiveHere
  <2> QED
    BY <2>1, <2>2 DEF OneMoreOf
<1>5. BodyMeans(currLocation', c)
  BY <1>1, <1>2, <1>4, SetMeans
<1>6. i' \in Nat \ {0} /\ p < i'
  <2>1. i' = Reach + 1 /\ Reach \in Nat /\ p <= Reach /\ p \in Nat
    BY <1>1
  <2> QED
    BY ONLY <2>1
<1>7. i' <= p + Len(DirectiveTokens(w, layout)) + 1
  <2> DEFINE m == Len(DirectiveTokens(w, layout))
  <2>1. m \in Nat
    <3>3. w \in Seq(Word) /\ StandsIn(p, q, w, layout)
      BY <1>20, DirectiveHere
    <3>1. Stand(p, DirectiveTokens(w, layout)) /\ tokens \in Seq(Word)
      BY <3>3, TurnFacts DEF StandsIn
    <3>2. m \in {Len(w) + 1, Len(w) + 2} /\ Len(w) \in Nat
      BY <3>1, <3>3, DirectiveStands
    <3> QED
      BY ONLY <3>2
  <2>2. Reach \in Nat /\ Reach <= p + m /\ p \in Nat
    OBVIOUS
  <2> HIDE DEF m
  <2>3. i' <= p + m + 1
    BY ONLY <1>1, <2>1, <2>2
  <2> QED
    BY <2>3 DEF m
<1>8. \A j \in 1..Len(w) : i' <= p + j => w[j] \notin LocationWords
  BY <1>1
<1> QED
  BY <1>1, <1>3, <1>5, <1>6, <1>7, <1>8, <1>9, DirectiveDone

\* The first stop is where it should be, if the file goes that far.
LEMMA FirstIs ==
  ASSUME tokens \in Seq(Word), i \in Nat \ {0}, i <= Len(tokens), NEW stops,
         NEW e \in Nat, i < e, e <= Len(tokens) => tokens[e] \in stops,
         \A j \in i + 1 .. e - 1 : j <= Len(tokens) => tokens[j] \notin stops
  PROVE  LET f == FirstBehind(stops) IN
         /\ f \in Nat /\ (f <= Len(tokens) => f = e) /\ (e <= Len(tokens) => f <= Len(tokens))
<1> DEFINE f == FirstBehind(stops)
           n == Len(tokens)
<1>1. /\ f \in i + 1 .. n + 1
      /\ f <= n => tokens[f] \in stops
      /\ \A j \in i + 1 .. f - 1 : tokens[j] \notin stops
  BY FirstBehindFacts
<1>2. n \in Nat /\ i \in Nat /\ e \in Nat /\ i < e
  BY LenProperties
<1> HIDE DEF f
<1>3. f \in Nat
  <2>1. f \in i + 1 .. n + 1
    BY <1>1
  <2> HIDE DEF n
  <2> QED
    BY ONLY <1>2, <2>1
<1>4. e <= n => ~(e \in i + 1 .. f - 1)
  BY <1>1
<1>5. f <= n => ~(f \in i + 1 .. e - 1)
  BY <1>1
<1>6. f \in i + 1 .. n + 1
  BY <1>1
<1> HIDE DEF n
<1>7. (f <= n => f = e) /\ (e <= n => f <= n)
  BY ONLY <1>2, <1>3, <1>4, <1>5, <1>6
<1> QED
  BY <1>3, <1>7 DEF f, n

\* A complete file has all that a branch looks at.
LEMMA ReadOver ==
  ASSUME NEW layout, Turn(layout), i <= Len(tokens), Reach > Len(tokens),
         whole => Reach <= Len(tokens), Reach \in Nat
  PROVE  Goes(layout)
<1>1. /\ tokens \in Seq(Word) /\ i \in Nat \ {0} /\ Len(tokens) \in Nat /\ ParserStep
  BY TurnFacts DEF Turn
<1>2. Overrun
  BY <1>1, TurnIs
<1>3. config' = config /\ phase' = "undefined"
  BY <1>2 DEF Overrun, parserVars
<1>4. ~whole
  BY <1>1
<1> QED
  BY <1>3, <1>4, CutShort

\* A directive's tokens are its words, and one or two more; a complete file has them.
FitsAt(p, w, layout) ==
  /\ Len(w) \in Nat /\ Len(DirectiveTokens(w, layout)) \in {Len(w) + 1, Len(w) + 2}
  /\ whole => p + Len(DirectiveTokens(w, layout)) <= Len(tokens)
AtFirst(w) == tok = w[1]
\* The parser is at the first word of a directive.
AtDirective(layout, s, k, d, p, w) ==
  /\ Turn(layout) /\ s \in Nat /\ k \in Nat /\ d \in Nat /\ InLocation(layout, s, k, d)
  /\ d < Len(source[s][k].body) /\ p \in Nat /\ p = DirectiveEnd(layout, s, k, d)
  /\ i <= Len(tokens) /\ i = p + 1 /\ w = source[s][k].body[d + 1]
\* What is known of it.
LEMMA DirectiveNext ==
  ASSUME NEW layout, NEW s, NEW k, NEW d, NEW p, NEW w, AtDirective(layout, s, k, d, p, w)
  PROVE  /\ w \in Seq(STRING) /\ w \in Seq(Word) /\ LegibleDirective(w)
         /\ 1 \in 1..Len(w) /\ DOMAIN w = 1..Len(w)
         /\ Stand(p, DirectiveTokens(w, layout)) /\ FitsAt(p, w, layout)
         /\ Stand(p, w)
         /\ AtFirst(w)
<1>10. /\ Turn(layout) /\ s \in Nat /\ k \in Nat /\ d \in Nat /\ InLocation(layout, s, k, d)
       /\ d < Len(source[s][k].body) /\ p \in Nat /\ p = DirectiveEnd(layout, s, k, d)
       /\ i <= Len(tokens) /\ i = p + 1 /\ w = source[s][k].body[d + 1]
  BY DEF AtDirective
<1>1. PICK q, b, c : /\ q = DirectiveEnd(layout, s, k, d + 1)
                     /\ b = SubSeq(source[s][k].body, 1, d)
                     /\ c = SubSeq(source[s][k].body, 1, d + 1)
  OBVIOUS
<1>20. OfBody(layout, s, k, d, p, w, q, b, c)
  BY <1>1, <1>10 DEF OfBody
<1>2. w \in Seq(STRING) /\ LegibleDirective(w)
  BY <1>20, DirectiveHere
<1>3. w \in Seq(Word) /\ StandsIn(p, q, w, layout)
  BY <1>20, DirectiveHere
<1>4. whole => q + 2 <= Len(tokens)
  BY <1>20, DirectiveHere
<1>5. Len(w) \in Nat /\ 1 \in 1..Len(w) /\ DOMAIN w = 1..Len(w)
  BY <1>2, DirectiveWords
<1>6. tokens \in Seq(Word) /\ Stand(p, DirectiveTokens(w, layout))
  BY <1>3, <1>10, TurnFacts DEF StandsIn
<1>7. Len(DirectiveTokens(w, layout)) \in {Len(w) + 1, Len(w) + 2} /\ Stand(p, w)
  BY <1>3, <1>6, <1>10, DirectiveStands
<1>8. whole => p + Len(DirectiveTokens(w, layout)) <= Len(tokens)
  <2>1. q = p + Len(DirectiveTokens(w, layout)) /\ q \in Nat
    BY <1>3 DEF StandsIn
  <2>2. Len(tokens) \in Nat
    BY <1>10, TurnFacts
  <2>3. whole => q <= Len(tokens)
    BY ONLY <1>4, <2>1, <2>2
  <2> QED
    BY <2>1, <2>3
<1>9. \A j \in 1..Len(w) : p + j <= Len(tokens) => tokens[p + j] = w[j]
  BY <1>7 DEF Stand
<1>11. tok = w[1]
  BY <1>5, <1>9, <1>10 DEF tok
<1> QED
  BY <1>2, <1>3, <1>5, <1>6, <1>7, <1>8, <1>11 DEF FitsAt, AtFirst

\* A directive with one or two arguments.
LEMMA FixedRead ==
  ASSUME NEW layout, NEW s, NEW k, NEW d, NEW p, NEW w, AtDirective(layout, s, k, d, p, w),
         w[1] \in Directives \ {"index", "methods"}
  PROVE  Goes(layout)
<1>14. /\ Turn(layout) /\ s \in Nat /\ k \in Nat /\ d \in Nat /\ InLocation(layout, s, k, d)
       /\ d < Len(source[s][k].body) /\ p \in Nat /\ p = DirectiveEnd(layout, s, k, d)
       /\ i <= Len(tokens) /\ i = p + 1 /\ w = source[s][k].body[d + 1]
  BY DEF AtDirective
<1>15. FitsAt(p, w, layout)
  BY DirectiveNext
<1> DEFINE n == Len(w)
           m == Len(DirectiveTokens(w, layout))
<1>1. w \in Seq(STRING) /\ LegibleDirective(w)
  BY DirectiveNext
<1>2. n \in Nat /\ m \in {n + 1, n + 2}
  BY <1>15 DEF FitsAt
<1>3. Branch = w[1]
  <2>1. AtFirst(w)
    BY DirectiveNext
  <2>2. inServer /\ inLocation
    BY <1>14, LocationHere
  <2> QED
    BY <2>1, <2>2, BranchIs DEF AtFirst
<1>4. whole => p + m <= Len(tokens)
  BY <1>15 DEF FitsAt
<1>5. \A j \in 1..n : p + j <= Len(tokens) => tokens[p + j] = w[j]
  <2>1. Stand(p, w)
    BY DirectiveNext
  <2> QED
    BY <2>1 DEF Stand
<1>6. Len(tokens) \in Nat /\ i \in Nat /\ i \in Nat \ {0} /\ tokens \in Seq(Word) /\ ParserStep
  BY <1>14, TurnFacts DEF Turn
<1>7. /\ w[1] \in {"error_page", "cgi", "return"} => n = 3 /\ Reach = i + 2
      /\ (n = 2 /\ Reach = i + 1) \/ (n = 3 /\ Reach = i + 2)
  <2>1. w[1] \in {"root", "upload_store", "autoindex"} \/ w[1] \in {"error_page", "cgi", "return"}
    BY DEF Directives
  <2>2. CASE w[1] \in {"root", "upload_store", "autoindex"}
    <3>1. n = 2
      BY <1>1, <2>2, DirectiveWords
    <3>2. Reach = i + 1
      BY <1>3, <2>2, ReachIs
    <3>3. w[1] \notin {"error_page", "cgi", "return"}
      BY <2>2
    <3> QED
      BY <3>1, <3>2, <3>3
  <2>3. CASE w[1] \in {"error_page", "cgi", "return"}
    <3>1. n = 3
      BY <1>1, <2>3, DirectiveWords
    <3>2. Reach = i + 2
      BY <1>3, <2>3, ReachIs
    <3> QED
      BY <3>1, <3>2
  <2> QED
    BY <2>1, <2>2, <2>3
<1>8. (n = 2 /\ Reach = i + 1) \/ (n = 3 /\ Reach = i + 2)
  BY <1>7
<1>9. i = p + 1 /\ p \in Nat
  BY <1>14
<1> HIDE DEF n, m
<1>10. Reach \in Nat /\ Reach = p + n /\ n >= 2 /\ m \in Nat
  BY ONLY <1>2, <1>6, <1>8, <1>9
<1>11. whole => Reach <= Len(tokens)
  BY ONLY <1>2, <1>4, <1>6, <1>9, <1>10
<1>12. CASE Reach > Len(tokens)
  BY <1>10, <1>11, <1>12, <1>14, ReadOver
<1>13. CASE Reach <= Len(tokens)
  <2>1. Directive(w[1])
    BY <1>3, <1>6, <1>13, <1>14, TurnIs
  <2>2. tokens[i + 1] = w[2]
    <3>1. 2 \in 1..n /\ p + 2 <= Len(tokens) /\ i + 1 = p + 2
      BY ONLY <1>2, <1>6, <1>9, <1>10, <1>13
    <3> QED
      BY <1>5, <3>1
  <2>3. w[1] \in {"error_page", "cgi", "return"} => tokens[i + 2] = w[3]
    <3>1. n = 3 => 3 \in 1..n /\ p + 3 <= Len(tokens) /\ i + 2 = p + 3
      BY ONLY <1>2, <1>6, <1>9, <1>10, <1>13
    <3> QED
      BY <1>5, <1>7, <3>1
  <2>4. p <= Reach /\ Reach <= p + m /\ \A j \in 1..n : ~(Reach + 1 <= p + j)
    BY ONLY <1>2, <1>9, <1>10
  <2>5. w[1] # "index" /\ w[1] # "methods" /\ w[1] \in Directives
    OBVIOUS
  <2> QED
    BY <1>10, <2>1, <2>2, <2>3, <2>4, <2>5, <1>14, DirectiveTaken DEF n, m
<1> QED
  BY <1>6, <1>10, <1>12, <1>13

\* What is behind the first word.
LEMMA TailWords ==
  ASSUME NEW S, NEW w \in Seq(S), 1 \in 1..Len(w)
  PROVE  /\ Tail(w) \in Seq(S) /\ Len(Tail(w)) = Len(w) - 1 /\ Len(w) \in Nat
         /\ \A j \in 1 .. Len(w) - 1 : Tail(w)[j] = w[j + 1]
         /\ \A j \in 2..Len(w) : w[j] \in Range(Tail(w))
<1>1. w # <<>> /\ Len(w) \in Nat
  BY LenProperties, EmptySeq
<1>2. /\ Tail(w) \in Seq(S) /\ Len(Tail(w)) = Len(w) - 1
      /\ \A j \in 1 .. Len(Tail(w)) : Tail(w)[j] = w[j + 1]
  BY <1>1, HeadTailProperties
<1> DEFINE t == Tail(w)
           n == Len(w)
<1>3. DOMAIN t = 1 .. n - 1
  BY <1>2, LenProperties
<1> HIDE DEF t
<1>4. ASSUME NEW j \in 2..n
      PROVE  w[j] \in Range(t)
  <2>1. j - 1 \in 1 .. n - 1 /\ (j - 1) + 1 = j
    BY <1>1
  <2>2. j - 1 \in DOMAIN t /\ t[j - 1] = w[j]
    BY <1>2, <1>3, <2>1 DEF t
  <2> QED
    BY <2>2 DEF Range
<1> QED
  BY <1>1, <1>2, <1>4 DEF t

\* The list of an index or of methods.
LEMMA ListIs ==
  ASSUME tokens \in Seq(Word), NEW p \in Nat, i = p + 1, NEW w \in Seq(Word), 1 \in 1..Len(w),
         Stand(p, w), NEW e \in Nat, e <= Len(tokens), NEW empty \in Word,
         \/ e = p + Len(w) + 1
         \/ e = p + Len(w) + 2 /\ tokens[p + Len(w) + 1] = empty
  PROVE  LET list == SubSeq(tokens, i + 1, e - 1)
         IN /\ list \in Seq(Word)
            /\ e = p + Len(w) + 1 => list = Tail(w)
            /\ e = p + Len(w) + 2 => list = Tail(w) \o <<empty>>
<1> DEFINE n == Len(w)
           a == p + 2
           r == e - 1
           L == SubSeq(tokens, a, r)
           t == Tail(w)
<1>1. n \in Nat /\ n >= 1 /\ p \in Nat /\ Len(tokens) \in Nat /\ e \in Nat
      /\ e <= Len(tokens)
  BY LenProperties
<1>2. e = p + n + 1 \/ e = p + n + 2
  OBVIOUS
<1>3. t \in Seq(Word) /\ Len(t) = n - 1 /\ \A j \in 1 .. n - 1 : t[j] = w[j + 1]
  BY TailWords
<1>4. i + 1 = a
  BY <1>1
<1>5. e = p + n + 2 => tokens[p + n + 1] = empty
  BY <1>1
<1>6. \A j \in 1..n : p + j <= Len(tokens) => tokens[p + j] = w[j]
  BY DEF Stand
<1> HIDE DEF n, t
<1>7. a \in Nat /\ a >= 1 /\ r \in Nat /\ r <= Len(tokens)
  BY ONLY <1>1, <1>2
<1> HIDE DEF a, r
<1>8. /\ L \in Seq(Word) /\ Len(L) = IF a <= r THEN r - a + 1 ELSE 0
      /\ \A j \in 1..(r - a + 1) : L[j] = tokens[a + j - 1]
  BY <1>7, SubSeqFacts
<1>9. Len(L) = e - p - 2 /\ e - p - 2 \in Nat
  BY ONLY <1>1, <1>2, <1>8 DEF a, r
<1> HIDE DEF L
<1>10. ASSUME NEW j \in 1 .. e - p - 2
       PROVE  L[j] = tokens[p + (j + 1)]
  <2>1. j \in 1..(r - a + 1) /\ a + j - 1 = p + (j + 1)
    BY ONLY <1>1, <1>9, j \in 1 .. e - p - 2 DEF a, r
  <2> QED
    BY <1>8, <2>1
<1>11. ASSUME NEW j \in 1 .. n - 1
       PROVE  L[j] = t[j]
  <2>1. j \in 1 .. e - p - 2 /\ j + 1 \in 1..n /\ p + (j + 1) <= Len(tokens)
    BY ONLY <1>1, <1>2, j \in 1 .. n - 1
  <2> QED
    BY <1>3, <1>6, <1>10, <2>1
<1>12. CASE e = p + n + 1
  <2>1. Len(L) = n - 1
    BY ONLY <1>1, <1>9, <1>12
  <2>2. L = t
    BY <1>3, <1>8, <1>11, <2>1, SeqEqual
  <2>3. e # p + n + 2
    BY ONLY <1>1, <1>12
  <2> QED
    BY <1>4, <1>8, <2>2, <2>3 DEF L, r, t, n
<1>13. CASE e = p + n + 2
  <2> DEFINE one == <<empty>>
  <2>1. one \in Seq(Word) /\ Len(one) = 1 /\ one[1] = empty
    BY Tuples
  <2> HIDE DEF one
  <2>2. Len(L) = n /\ n \in 1 .. e - p - 2
    BY ONLY <1>1, <1>9, <1>13
  <2>3. L[n] = empty
    <3>1. L[n] = tokens[p + (n + 1)]
      BY <1>10, <2>2
    <3>2. p + (n + 1) = p + n + 1
      BY ONLY <1>1
    <3> QED
      BY <1>5, <1>13, <3>1, <3>2
  <2>4. Concatenated(L, t, one)
    <3>1. Len(L) = Len(t) + Len(one) /\ Len(t) \in Nat /\ Len(one) \in Nat /\ Len(L) \in Nat
      BY <1>1, <1>3, <2>1, <2>2
    <3>2. \A j \in 1..Len(t) : L[j] = t[j]
      BY <1>3, <1>11
    <3>3. \A j \in 1..Len(one) : L[Len(t) + j] = one[j]
      <4>1. Len(t) + 1 = n
        BY <1>1, <1>3
      <4> QED
        BY <2>1, <2>3, <4>1
    <3> QED
      BY <3>1, <3>2, <3>3 DEF Concatenated
  <2>5. L = t \o one
    BY <1>3, <1>8, <2>1, <2>4, ConcatIs
  <2>6. e # p + n + 1
    BY ONLY <1>1, <1>13
  <2> QED
    BY <1>4, <1>8, <2>5, <2>6 DEF L, r, t, n, one
<1> QED
  BY <1>2, <1>12, <1>13 DEF n

\* What a directive ends with: a semicolon, perhaps behind an empty token.
EndsAs(p, n, m, end, empty) ==
  \A j \in n + 1 .. m : p + j <= Len(tokens) => tokens[p + j] = IF j = m THEN end ELSE empty

\* So the directive ends that the parser is at.
LEMMA DirectiveEnds ==
  ASSUME NEW layout, NEW s, NEW k, NEW d, NEW p, NEW w, AtDirective(layout, s, k, d, p, w)
  PROVE  EndsAs(p, Len(w), Len(DirectiveTokens(w, layout)), ";", "")
<1>1. Turn(layout) /\ p \in Nat
  BY DEF AtDirective
<1>2. w \in Seq(Word) /\ Stand(p, DirectiveTokens(w, layout))
  BY DirectiveNext
<1>3. tokens \in Seq(Word)
  BY <1>1, TurnFacts
<1> QED
  BY <1>1, <1>2, <1>3, DirectiveStands DEF EndsAs

\* The list read before e: the words behind the first, with an empty one if there is one.
ListSo(list, p, e, w, empty) ==
  /\ list \in Seq(Word)
  /\ e = p + Len(w) + 1 => list = Tail(w)
  /\ e = p + Len(w) + 2 => list = Tail(w) \o <<empty>>

EndsBehind(p, e, n, empty) ==
  \/ e = p + n + 1
  \/ e = p + n + 2 /\ tokens[p + n + 1] = empty

\* That is the list of the directive that the parser is at.
LEMMA ListIsSo ==
  ASSUME NEW layout, NEW s, NEW k, NEW d, NEW p, NEW w, AtDirective(layout, s, k, d, p, w),
         NEW e \in Nat, e <= Len(tokens), NEW empty \in Word, EndsBehind(p, e, Len(w), empty)
  PROVE  ListSo(SubSeq(tokens, i + 1, e - 1), p, e, w, empty)
<1>1. Turn(layout) /\ p \in Nat /\ i = p + 1
  BY DEF AtDirective
<1>2. w \in Seq(Word) /\ 1 \in 1..Len(w) /\ Stand(p, w)
  BY DirectiveNext
<1>3. tokens \in Seq(Word)
  BY <1>1, TurnFacts
<1>4. \/ e = p + Len(w) + 1
      \/ e = p + Len(w) + 2 /\ tokens[p + Len(w) + 1] = empty
  BY DEF EndsBehind
<1> QED
  BY ONLY <1>1, <1>2, <1>3, <1>4, e \in Nat, e <= Len(tokens), empty \in Word, ListIs
    DEF ListSo

\* A list reaches from the second word to the end; the token there is in range.
LEMMA InReach ==
  ASSUME NEW p \in Nat, NEW h \in Nat \ {0}, tokens \in Seq(Word), p + h <= Len(tokens)
  PROVE  tokens[p + h] \in Range(tokens)
<1> DEFINE e == p + h
<1>1. e \in 1..Len(tokens)
  OBVIOUS
<1> HIDE DEF e
<1>2. tokens[e] \in Range(tokens)
  BY <1>1 DEF Range
<1> QED
  BY <1>2 DEF e

\* What is known of a directive whose list ends at a token in stops.
LEMMA ListEnds ==
  ASSUME NEW layout, NEW s, NEW k, NEW d, NEW p, NEW w, AtDirective(layout, s, k, d, p, w),
         NEW stops, Reach = FirstBehind(stops), NEW h,
         h = Len(w) + 1 \/ h = Len(DirectiveTokens(w, layout)),
         p + h <= Len(tokens) => tokens[p + h] \in stops,
         \A j \in 2 .. h - 1 : p + j <= Len(tokens) => tokens[p + j] \notin stops
  PROVE  /\ Reach \in Nat /\ (Reach <= Len(tokens) => Reach = p + h)
         /\ whole => Reach <= Len(tokens)
<1>1. Turn(layout) /\ p \in Nat /\ i <= Len(tokens) /\ i = p + 1
  BY DEF AtDirective
<1>2. FitsAt(p, w, layout) /\ 1 \in 1..Len(w)
  BY DirectiveNext
<1>3. tokens \in Seq(Word) /\ i \in Nat \ {0} /\ Len(tokens) \in Nat
  BY <1>1, TurnFacts
<1> DEFINE n == Len(w)
           m == Len(DirectiveTokens(w, layout))
           e == p + h
<1>4. n \in Nat /\ m \in {n + 1, n + 2} /\ n >= 1 /\ (h = n + 1 \/ h = m)
      /\ (whole => p + m <= Len(tokens))
  BY <1>2 DEF FitsAt
<1> HIDE DEF n, m
<1>5. h \in Nat /\ h >= 2 /\ h <= m /\ m \in Nat
  BY ONLY <1>4
<1>6. e \in Nat /\ i < e /\ (whole => e <= Len(tokens))
  BY ONLY <1>1, <1>3, <1>4, <1>5
<1>7. e <= Len(tokens) => tokens[e] \in stops
  OBVIOUS
<1>8. ASSUME NEW j \in i + 1 .. e - 1, j <= Len(tokens)
      PROVE  tokens[j] \notin stops
  <2> DEFINE x == j - p
  <2>1. j \in i + 1 .. e - 1 /\ j <= Len(tokens)
    BY <1>8
  <2>2. x \in 2 .. h - 1 /\ p + x = j
    BY ONLY <1>1, <1>5, <2>1
  <2> HIDE DEF x
  <2> QED
    BY <1>8, <2>2
<1> HIDE DEF e
<1>9. /\ Reach \in Nat /\ (Reach <= Len(tokens) => Reach = e)
      /\ (e <= Len(tokens) => Reach <= Len(tokens))
  BY <1>1, <1>3, <1>6, <1>7, <1>8, FirstIs
<1> QED
  BY <1>6, <1>9 DEF e

\* An index: its list ends at the semicolon.
LEMMA IndexRead ==
  ASSUME NEW layout, NEW s, NEW k, NEW d, NEW p, NEW w, AtDirective(layout, s, k, d, p, w),
         w[1] = "index"
  PROVE  Goes(layout)
<1>1. /\ Turn(layout) /\ s \in Nat /\ k \in Nat /\ d \in Nat /\ InLocation(layout, s, k, d)
      /\ d < Len(source[s][k].body) /\ p \in Nat /\ p = DirectiveEnd(layout, s, k, d)
      /\ i <= Len(tokens) /\ i = p + 1 /\ w = source[s][k].body[d + 1]
  BY DEF AtDirective
<1>2. w \in Seq(Word) /\ 1 \in 1..Len(w) /\ Stand(p, DirectiveTokens(w, layout))
  BY DirectiveNext
<1>3. w \in Seq(STRING) /\ LegibleDirective(w)
  BY DirectiveNext
<1>4. Stand(p, w)
  BY DirectiveNext
<1>5. Branch = "index"
  <2>1. AtFirst(w)
    BY DirectiveNext
  <2>2. inServer /\ inLocation
    BY <1>1, LocationHere
  <2> QED
    BY <2>1, <2>2, BranchIs DEF AtFirst, Directives
<1>6. tokens \in Seq(Word) /\ i \in Nat \ {0} /\ Len(tokens) \in Nat /\ ParserStep
  BY <1>1, TurnFacts DEF Turn
<1> DEFINE n == Len(w)
           m == Len(DirectiveTokens(w, layout))
           end == ";"
           empty == ""
           list == SubSeq(tokens, i + 1, Reach - 1)
<1>0. FitsAt(p, w, layout)
  BY DirectiveNext
<1>7. n \in Nat /\ m \in {n + 1, n + 2}
  BY <1>0 DEF FitsAt
<1>8. EndsAs(p, n, m, end, empty)
  BY DirectiveEnds
<1>9. Tail(w) \in Seq(Word) /\ \A j \in 2..n : w[j] # end /\ w[j] # empty
  <2>1. Range(Tail(w)) \cap {";", ""} = {}
    BY <1>3, DirectiveWords
  <2>2. Tail(w) \in Seq(Word) /\ \A j \in 2..n : w[j] \in Range(Tail(w))
    BY <1>2, TailWords
  <2> QED
    BY <2>1, <2>2
<1>10. empty \in Word /\ empty # end
  BY DEF Word
<1>11. Reach = FirstBehind({end})
  BY <1>5, ReachIs
<1> HIDE DEF n, m, end, empty
<1>12. \A j \in 1..n : p + j <= Len(tokens) => tokens[p + j] = w[j]
  BY <1>4 DEF Stand, n
<1>13. m \in n + 1 .. m /\ m \in Nat
  BY ONLY <1>7
<1>14. p + m <= Len(tokens) => tokens[p + m] \in {end}
  BY <1>8, <1>13 DEF EndsAs
<1>15. ASSUME NEW j \in 2 .. m - 1, p + j <= Len(tokens)
       PROVE  tokens[p + j] \notin {end}
  <2>1. j \in 2..n \/ (j \in n + 1 .. m /\ j # m)
    BY ONLY <1>7, j \in 2 .. m - 1
  <2>2. CASE j \in 2..n
    <3>1. j \in 1..n
      BY ONLY <2>2, <1>7
    <3> QED
      BY <1>9, <1>12, <1>15, <2>2, <3>1
  <2>3. CASE j \in n + 1 .. m /\ j # m
    BY <1>8, <1>10, <1>15, <2>3 DEF EndsAs
  <2> QED
    BY <2>1, <2>2, <2>3
<1>16. /\ Reach \in Nat /\ (Reach <= Len(tokens) => Reach = p + m)
       /\ whole => Reach <= Len(tokens)
  BY <1>11, <1>14, <1>15, ListEnds DEF m
<1>17. CASE Reach > Len(tokens)
  BY <1>1, <1>16, <1>17, ReadOver
<1>18. CASE Reach <= Len(tokens)
  <2>1. Reach = p + m /\ Reach \in Nat
    BY <1>16, <1>18
  <2>2. "index" \in Directives
    BY DEF Directives
  <2>3. Directive(w[1])
    BY <1>1, <1>5, <1>6, <1>18, <2>2, TurnIs
  <2>4. \/ Reach = p + n + 1
        \/ Reach = p + n + 2 /\ tokens[p + n + 1] = empty
    <3>0. p \in Nat /\ Len(tokens) \in Nat
      BY <1>1, <1>6
    <3>1. Reach = p + n + 1 \/ (Reach = p + n + 2 /\ m = n + 2)
      BY ONLY <3>0, <1>7, <2>1
    <3>2. ASSUME Reach = p + n + 2, m = n + 2
          PROVE  tokens[p + n + 1] = empty
      <4> DEFINE x == n + 1
      <4>1. x \in n + 1 .. m /\ p + x <= Len(tokens) /\ x # m /\ p + x = p + n + 1
        BY ONLY <3>0, <1>7, <1>18, <3>2
      <4> HIDE DEF x
      <4> QED
        BY <1>8, <4>1 DEF EndsAs
    <3> QED
      BY <3>1, <3>2
  <2>5. /\ list \in Seq(Word)
        /\ Reach = p + n + 1 => list = Tail(w)
        /\ Reach = p + n + 2 => list = Tail(w) \o <<empty>>
    <3>1. EndsBehind(p, Reach, n, empty)
      BY <2>4 DEF EndsBehind
    <3>2. ListSo(list, p, Reach, w, empty)
      BY <1>10, <1>18, <2>1, <3>1, ListIsSo DEF n
    <3> QED
      BY <3>2 DEF ListSo, n
  <2>6. NoEmpty(Tail(w)) = Tail(w)
    <3> DEFINE t == Tail(w)
    <3>1. Len(t) = n - 1 /\ \A j \in 1 .. n - 1 : t[j] = w[j + 1]
      BY <1>2, TailWords DEF n
    <3>2. t \in Seq(Word)
      BY <1>9
    <3> HIDE DEF t
    <3>3. \A j \in 1 .. n - 1 : j + 1 \in 2..n
      BY ONLY <1>7
    <3>4. \A j \in 1..Len(t) : t[j] # ""
      BY <1>9, <3>1, <3>3 DEF empty
    <3>5. NoEmpty(t) = t
      BY <3>2, <3>4, NoEmptyConcat
    <3> QED
      BY <3>5 DEF t
  <2>7. NoEmpty(Tail(w) \o <<empty>>) = Tail(w)
    <3> DEFINE one == <<empty>>
    <3>1. one \in Seq(Word) /\ NoEmpty(one) = <<>>
      <4>1. one \in Seq(Word)
        BY <1>10, Tuples
      <4>2. NoEmpty(one) = <<>>
        BY <1>9, NoEmptyConcat DEF empty
      <4> QED
        BY <4>1, <4>2
    <3> HIDE DEF one
    <3>2. NoEmpty(Tail(w) \o one) = NoEmpty(Tail(w)) \o NoEmpty(one)
      BY <1>9, <3>1, NoEmptyConcat
    <3>3. Tail(w) \o <<>> = Tail(w)
      BY <1>9, ConcatEmptySeq
    <3> QED
      BY <2>6, <3>1, <3>2, <3>3 DEF one
  <2>8. NoEmpty(list) = Tail(w)
    BY <2>4, <2>5, <2>6, <2>7
  <2>9. p <= Reach /\ Reach <= p + m /\ \A j \in 1..n : ~(Reach + 1 <= p + j)
    <3>1. p \in Nat
      BY <1>1
    <3> QED
      BY ONLY <3>1, <1>7, <2>1
  <2> QED
    BY <1>1, <2>1, <2>2, <2>3, <2>5, <2>8, <2>9, DirectiveTaken DEF n, m
<1> QED
  BY <1>6, <1>16, <1>17, <1>18

\* Methods: the list ends at what is none.
LEMMA MethodsRead ==
  ASSUME NEW layout, NEW s, NEW k, NEW d, NEW p, NEW w, AtDirective(layout, s, k, d, p, w),
         w[1] = "methods"
  PROVE  Goes(layout)
<1>1. /\ Turn(layout) /\ s \in Nat /\ k \in Nat /\ d \in Nat /\ InLocation(layout, s, k, d)
      /\ d < Len(source[s][k].body) /\ p \in Nat /\ p = DirectiveEnd(layout, s, k, d)
      /\ i <= Len(tokens) /\ i = p + 1 /\ w = source[s][k].body[d + 1]
  BY DEF AtDirective
<1>2. w \in Seq(Word) /\ 1 \in 1..Len(w) /\ Stand(p, DirectiveTokens(w, layout))
  BY DirectiveNext
<1>3. w \in Seq(STRING) /\ LegibleDirective(w)
  BY DirectiveNext
<1>4. Stand(p, w)
  BY DirectiveNext
<1>5. Branch = "methods"
  <2>1. AtFirst(w)
    BY DirectiveNext
  <2>2. inServer /\ inLocation
    BY <1>1, LocationHere
  <2> QED
    BY <2>1, <2>2, BranchIs DEF AtFirst, Directives
<1>6. tokens \in Seq(Word) /\ i \in Nat \ {0} /\ Len(tokens) \in Nat /\ ParserStep
  BY <1>1, TurnFacts DEF Turn
<1> DEFINE n == Len(w)
           m == Len(DirectiveTokens(w, layout))
           h == n + 1
           end == ";"
           empty == ""
           stops == Range(tokens) \ Methods
           list == SubSeq(tokens, i + 1, Reach - 1)
<1>0. FitsAt(p, w, layout)
  BY DirectiveNext
<1>7. n \in Nat /\ m \in {n + 1, n + 2}
  BY <1>0 DEF FitsAt
<1>8. EndsAs(p, n, m, end, empty)
  BY DirectiveEnds
<1>9. \A j \in 2..n : w[j] \in Methods
  <2>1. Range(Tail(w)) \subseteq Methods
    BY <1>3, DirectiveWords
  <2>2. \A j \in 2..n : w[j] \in Range(Tail(w))
    BY <1>2, TailWords
  <2> QED
    BY <2>1, <2>2
<1>10. end \notin Methods /\ empty \notin Methods
  BY DEF Methods
<1>11. Reach = FirstBehind(stops)
  BY <1>5, ReachIs
<1> HIDE DEF n, m, h, end, empty
<1>12. \A j \in 1..n : p + j <= Len(tokens) => tokens[p + j] = w[j]
  BY <1>4 DEF Stand, n
<1>13. h \in n + 1 .. m /\ h \in Nat /\ m \in Nat
  BY ONLY <1>7 DEF h
<1>14. p + h <= Len(tokens) => tokens[p + h] \in stops
  <2> SUFFICES ASSUME p + h <= Len(tokens) PROVE tokens[p + h] \in stops
    OBVIOUS
  <2>2. tokens[p + h] \in Range(tokens)
    <3>1. h \in Nat \ {0} /\ p \in Nat /\ tokens \in Seq(Word)
      BY ONLY <1>1, <1>6, <1>7 DEF h
    <3> QED
      BY ONLY <3>1, p + h <= Len(tokens), InReach
  <2>3. tokens[p + h] = end \/ tokens[p + h] = empty
    BY <1>8, <1>13 DEF EndsAs
  <2> QED
    BY <1>10, <2>2, <2>3
<1>15. ASSUME NEW j \in 2 .. h - 1, p + j <= Len(tokens)
       PROVE  tokens[p + j] \notin stops
  <2>1. j \in 2..n /\ j \in 1..n
    BY ONLY <1>7, j \in 2 .. h - 1 DEF h
  <2> QED
    BY <1>9, <1>12, <1>15, <2>1
<1> HIDE DEF stops
<1>16. /\ Reach \in Nat /\ (Reach <= Len(tokens) => Reach = p + h)
       /\ whole => Reach <= Len(tokens)
  BY <1>11, <1>14, <1>15, ListEnds DEF h, n
<1>17. CASE Reach > Len(tokens)
  BY <1>1, <1>16, <1>17, ReadOver
<1>18. CASE Reach <= Len(tokens)
  <2>1. Reach = p + h /\ Reach \in Nat
    BY <1>16, <1>18
  <2>2. "methods" \in Directives
    BY DEF Directives
  <2>3. Directive(w[1])
    BY <1>1, <1>5, <1>6, <1>18, <2>2, TurnIs
  <2>4. Reach = p + n + 1
    BY ONLY <1>1, <1>7, <2>1 DEF h
  <2>5. list = Tail(w)
    <3>1. empty \in Word
      BY DEF Word, empty
    <3>2. EndsBehind(p, Reach, n, empty)
      BY <2>4 DEF EndsBehind
    <3>3. ListSo(list, p, Reach, w, empty)
      BY <1>18, <2>1, <3>1, <3>2, ListIsSo DEF n
    <3> QED
      BY <2>4, <3>3 DEF ListSo, n
  <2>9. p <= Reach /\ Reach <= p + m /\ \A j \in 1..n : ~(Reach + 1 <= p + j)
    <3>1. p \in Nat
      BY <1>1
    <3> QED
      BY ONLY <3>1, <1>7, <2>4
  <2> QED
    BY <1>1, <2>1, <2>2, <2>3, <2>5, <2>9, DirectiveTaken DEF n, m
<1> QED
  BY <1>6, <1>16, <1>17, <1>18

\* A directive the parser does not know: the words are passed over one by one.
LEMMA UnknownSaid ==
  ASSUME NEW layout, NEW s, NEW k, NEW d, NEW p, NEW w, AtDirective(layout, s, k, d, p, w),
         w[1] \notin Directives
  PROVE  Goes(layout)
<1>1. /\ Turn(layout) /\ s \in Nat /\ k \in Nat /\ d \in Nat /\ InLocation(layout, s, k, d)
      /\ d < Len(source[s][k].body) /\ p \in Nat /\ p = DirectiveEnd(layout, s, k, d)
      /\ i <= Len(tokens) /\ i = p + 1 /\ w = source[s][k].body[d + 1]
  BY DEF AtDirective
<1>2. w \in Seq(STRING) /\ LegibleDirective(w) /\ DOMAIN w = 1..Len(w) /\ 1 \in 1..Len(w)
  BY DirectiveNext
<1>3. AtFirst(w) /\ FitsAt(p, w, layout)
  BY DirectiveNext
<1>4. \A j \in 1..Len(w) : w[j] \notin LocationWords
  <2>1. Range(w) \cap LocationWords = {}
    BY <1>2, DirectiveWords
  <2> QED
    BY <1>2, <2>1 DEF Range
<1>5. inServer /\ inLocation
  BY <1>1, LocationHere
<1>6. Branch = ""
  <2>1. tok \notin LocationWords
    BY <1>2, <1>3, <1>4 DEF AtFirst
  <2> QED
    BY <1>5, <2>1, BranchIs
<1>7. tokens \in Seq(Word) /\ i \in Nat \ {0} /\ Len(tokens) \in Nat /\ ParserStep
  BY <1>1, TurnFacts DEF Turn
<1>8. Reach = i
  BY <1>6, ReachIs
<1>9. Ignored
  BY <1>1, <1>6, <1>7, <1>8, TurnIs
<1>10. i' = i + 1 /\ UNCHANGED parserVars /\ phase' = phase
  BY <1>9 DEF Ignored
<1>11. PICK q, b, c : /\ q = DirectiveEnd(layout, s, k, d + 1)
                      /\ b = SubSeq(source[s][k].body, 1, d)
                      /\ c = SubSeq(source[s][k].body, 1, d + 1)
  OBVIOUS
<1>20. OfBody(layout, s, k, d, p, w, q, b, c)
  BY <1>1, <1>11 DEF OfBody
<1>12. OneMoreOf(b, c, w)
  BY <1>20, DirectiveHere
<1>13. BodyMeans(currLocation, c)
  <2>1. currLocation \in LocationSet
    BY <1>1, TurnFacts
  <2>2. /\ More(c, b, w) /\ b \in Seq(Seq(STRING)) /\ \A m \in 1..Len(b) : b[m] # <<>>
        /\ BodyMeans(currLocation, b)
    BY <1>12 DEF OneMoreOf
  <2> QED
    BY <1>2, <2>1, <2>2, BodySet
<1>14. currLocation' = currLocation
  BY <1>10 DEF parserVars
<1>15. BodyMeans(currLocation', SubSeq(source[s][k].body, 1, d + 1))
  BY <1>11, <1>13, <1>14
<1>16. i' \in Nat \ {0} /\ p < i' /\ i' <= p + Len(DirectiveTokens(w, layout)) + 1
  <2> DEFINE m == Len(DirectiveTokens(w, layout))
             n == Len(w)
  <2>1. n \in Nat /\ m \in {n + 1, n + 2}
    BY <1>3 DEF FitsAt
  <2> HIDE DEF m, n
  <2>2. i' \in Nat \ {0} /\ p < i' /\ i' <= p + m + 1
    <3>1. i = p + 1 /\ p \in Nat /\ i' = i + 1
      BY <1>1, <1>10
    <3> QED
      BY ONLY <2>1, <3>1
  <2> QED
    BY <2>2 DEF m
<1>17. /\ config' = config /\ currServer' = currServer /\ inServer' = inServer
       /\ inLocation' = inLocation /\ currLocation'.path = currLocation.path
  BY <1>10, <1>14 DEF parserVars
<1> QED
  BY <1>1, <1>4, <1>10, <1>15, <1>16, <1>17, DirectiveDone

\* A turn of the parser's loop within a location.
LEMMA LocationTurn ==
  ASSUME NEW layout, Turn(layout), NEW s \in Nat, NEW k \in Nat, NEW d \in Nat,
         InLocation(layout, s, k, d)
  PROVE  Goes(layout)
<1>1. Len(tokens) \in Nat /\ i \in Nat
  BY TurnFacts
<1>2. PICK p \in Nat : p = DirectiveEnd(layout, s, k, d) /\ i <= p + 1
  BY LocationHere
<1>3. d \in 0..Len(source[s][k].body) /\ Len(source[s][k].body) \in Nat
  BY LocationHere
<1>4. CASE i > Len(tokens)
  BY <1>4, LocationCut
<1>5. CASE i <= Len(tokens) /\ i <= p
  BY <1>2, <1>5, LocationPasses
<1>6. CASE i <= Len(tokens) /\ i = p + 1 /\ d = Len(source[s][k].body)
  BY <1>2, <1>6, LocationCloses
<1>7. CASE i <= Len(tokens) /\ i = p + 1 /\ d < Len(source[s][k].body)
  <2>1. PICK w : w = source[s][k].body[d + 1]
    OBVIOUS
  <2>2. AtDirective(layout, s, k, d, p, w)
    BY <1>2, <1>7, <2>1 DEF AtDirective
  <2>3. CASE w[1] \in Directives \ {"index", "methods"}
    BY <2>2, <2>3, FixedRead
  <2>4. CASE w[1] = "index"
    BY <2>2, <2>4, IndexRead
  <2>5. CASE w[1] = "methods"
    BY <2>2, <2>5, MethodsRead
  <2>6. CASE w[1] \notin Directives
    BY <2>2, <2>6, UnknownSaid
  <2> QED
    BY <2>3, <2>4, <2>5, <2>6
<1> QED
  BY <1>1, <1>2, <1>3, <1>4, <1>5, <1>6, <1>7

\* A turn of the parser's loop, wherever it is.
LEMMA ParserGoes ==
  ASSUME NEW layout, Turn(layout), PlaceInv(layout)
  PROVE  Goes(layout)
<1>1. CASE Outside(layout)
  BY <1>1, OutsideTurn
<1>2. CASE \E s, k \in Nat : InServer(layout, s, k)
  BY <1>2, ServerTurn
<1>3. CASE \E s, k, d \in Nat : InLocation(layout, s, k, d)
  BY <1>3, LocationTurn
<1> QED
  BY <1>1, <1>2, <1>3 DEF PlaceInv

----------------------------------------------------------------------------
(* The invariant, from the first step to the last.                         *)

\* Everything in Sources can be read.
AllLegible == \A servers \in Sources : Legible(servers)

\* A whole file is one of its beginnings.
LEMMA WholeBegins ==
  ASSUME NEW file \in Seq(LineType)
  PROVE  file \in Beginnings(file)
<1>1. SubSeq(file, 1, Len(file)) = file
  BY SubSeqFull
<1>2. Len(file) \in 0 .. Len(file)
  BY LenProperties
<1> QED
  BY <1>1, <1>2 DEF Beginnings

\* The program starts with a file that can be read, and has read nothing of it.
LEMMA ReadStarts ==
  ASSUME AllLegible, Init
  PROVE  ReadInv
<1>1. source \in Seq(Seq(ItemType)) /\ Legible(source)
  BY SourceAssumption DEF Init, AllLegible
<1>2. \A layout : FileLines(source, layout) \in Seq(LineType)
  BY <1>1, FileLinesTyped
<1>3. \E layout \in Layouts : LinesInv(layout)
  <2>1. CASE whole
    <3>1. PICK layout \in Layouts : lines = FileLines(source, layout)
      BY <2>1 DEF Init
    <3>2. LinesInv(layout)
      BY <1>2, <3>1, WholeBegins DEF LinesInv
    <3> QED
      BY <3>2
  <2>2. CASE ~whole
    <3>1. PICK layout \in Layouts, cut \in Cuts :
            lines \in IF cut THEN Beginnings(FileLines(source, layout))
                      ELSE {FileLines(source, layout)}
      BY DEF Init
    <3>2. lines \in Beginnings(FileLines(source, layout))
      BY <1>2, <3>1, WholeBegins
    <3>3. LinesInv(layout)
      BY <2>2, <3>2 DEF LinesInv
    <3> QED
      BY <3>3
  <2> QED
    BY <2>1, <2>2
<1>4. /\ config = <<>> /\ i = 1 /\ ~inServer /\ ~inLocation /\ phase = "reading"
  BY DEF Init
<1>5. ConfigInv
  <2>1. Len(config) = 0 /\ Len(source) \in Nat
    BY <1>1, <1>4, LenProperties, EmptySeq
  <2> QED
    BY <2>1 DEF ConfigInv
<1> QED
  BY <1>1, <1>3, <1>4, <1>5 DEF ReadInv

\* The tokens are those of a file written from the source, as far as it goes.
LEMMA ReadTokenized ==
  ASSUME TypeInv, ReadInv, Tokenize
  PROVE  ReadInv'
<1>1. PICK layout \in Layouts : LinesInv(layout)
  BY DEF ReadInv, Tokenize
<1>2. /\ Legible(source) /\ ConfigInv /\ config = <<>> /\ i = 1 /\ ~inServer /\ ~inLocation
  BY DEF ReadInv, Tokenize
<1>3. /\ tokens' = TokensIn(lines) /\ phase' = "parsing" /\ i' = i /\ source' = source
      /\ whole' = whole /\ config' = config /\ inServer' = inServer
      /\ inLocation' = inLocation
  BY DEF Tokenize, TokensIn, fileVars, parserVars
<1>4. source \in Seq(Seq(ItemType))
  BY DEF TypeInv
<1> DEFINE file == FileLines(source, layout)
<1>5. file \in Seq(LineType) /\ TokensIn(file) = FileTokens(source, layout)
  BY <1>2, <1>4, FileLinesTyped, FileTold
<1>6. lines \in Beginnings(file) /\ (whole => lines = file)
  BY <1>1 DEF LinesInv
<1> HIDE DEF file
<1>7. Opens(tokens', FileTokens(source', layout))
  BY <1>3, <1>5, <1>6, FileCutOff
<1>8. whole' => Len(tokens') = Len(FileTokens(source', layout))
  BY <1>3, <1>5, <1>6
<1>9. TokensInv(layout)'
  BY <1>7, <1>8 DEF TokensInv
<1>10. ServerEnd(layout, 0) = 0
  <2>1. Reached(ServersTokens(source, layout), 0) = 0
    BY <1>2, <1>4, FileTold, FlatParts DEF FlatPlaces
  <2> QED
    BY <2>1 DEF ServerEnd
<1>11. Outside(layout)'
  <2>1. ServerEnd(layout, Len(config))' = ServerEnd(layout, Len(config'))
    BY <1>3, PlacesStay
  <2>2. Len(config') = 0
    BY <1>2, <1>3, EmptySeq
  <2> QED
    BY <1>2, <1>3, <1>10, <2>1, <2>2 DEF Outside
<1>12. PlaceInv(layout)'
  BY <1>11 DEF PlaceInv
<1>13. ConfigInv'
  BY <1>2, <1>3, ConfigStays
<1> QED
  BY <1>2, <1>3, <1>9, <1>12, <1>13 DEF ReadInv

\* A turn of the parser's loop keeps what is read.
LEMMA ReadParsed ==
  ASSUME TypeInv, ReadInv, ParserStep
  PROVE  ReadInv'
<1>1. /\ phase = "parsing" /\ tokens' = tokens /\ source' = source /\ whole' = whole
      /\ phase' \in {"parsing", "binding", "undefined"}
  BY ParserFrame DEF fileVars
<1>2. PICK layout \in Layouts : TokensInv(layout) /\ PlaceInv(layout)
  BY <1>1 DEF ReadInv
<1>3. Legible(source) /\ ConfigInv /\ source \in Seq(Seq(ItemType))
  BY DEF ReadInv, TypeInv
<1>4. Turn(layout)
  <2>1. Mapped(layout)
    BY <1>2, <1>3, PlacesKnown DEF TokensInv
  <2> QED
    BY <1>2, <1>3, <2>1 DEF Turn
<1>5. Goes(layout)
  BY <1>2, <1>4, ParserGoes
<1>6. TokensInv(layout)'
  BY <1>1, <1>2 DEF TokensInv
<1>7. /\ ConfigInv' /\ (phase' = "parsing" => PlaceInv(layout)')
      /\ (whole /\ phase' # "parsing" => phase' # "undefined" /\ Len(config') = Len(source))
  BY <1>5 DEF Goes
<1> QED
  BY <1>1, <1>3, <1>6, <1>7 DEF ReadInv

\* Nor do the later steps, or none, change it.
LEMMA ReadDone ==
  ASSUME ReadInv, UNCHANGED <<source, whole, config>>, phase \notin {"reading", "parsing"},
         phase' \in {"binding", "failed", "running"}
  PROVE  ReadInv'
<1>1. ConfigInv'
  BY ConfigStays DEF ReadInv
<1>2. Legible(source') /\ phase' # "undefined" /\ phase' # "reading" /\ phase' # "parsing"
  BY DEF ReadInv
<1>3. whole' => Len(config') = Len(source')
  BY DEF ReadInv
<1> QED
  BY <1>1, <1>2, <1>3 DEF ReadInv

\* Where nothing changes, the parser stays where it is.
LEMMA PlaceStays ==
  ASSUME UNCHANGED vars, NEW layout, PlaceInv(layout)
  PROVE  PlaceInv(layout)'
<1>1. /\ source' = source /\ tokens' = tokens /\ i' = i /\ config' = config
      /\ currServer' = currServer /\ currLocation' = currLocation /\ inServer' = inServer
      /\ inLocation' = inLocation
  BY DEF vars, fileVars, parserVars
<1>2. \A p, words : PassedOver(p, words) => PassedOver(p, words)'
  BY <1>1 DEF PassedOver
<1>3. /\ \A s : ServerEnd(layout, s)' = ServerEnd(layout, s)
      /\ \A s, k : ItemEnd(layout, s, k)' = ItemEnd(layout, s, k)
      /\ \A s, k, d : DirectiveEnd(layout, s, k, d)' = DirectiveEnd(layout, s, k, d)
  BY <1>1 DEF ServerEnd, ItemEnd, DirectiveEnd
<1>4. Outside(layout) => Outside(layout)'
  BY <1>1, <1>3 DEF Outside
<1>5. \A s, k : ServerRead(s, k) => ServerRead(s, k)'
  BY <1>1 DEF ServerRead
<1>6. ASSUME NEW s, NEW k, InServer(layout, s, k)
      PROVE  InServer(layout, s, k)'
  BY <1>1, <1>2, <1>3, <1>5, <1>6 DEF InServer
<1>7. ASSUME NEW s, NEW k, NEW d, InLocation(layout, s, k, d)
      PROVE  InLocation(layout, s, k, d)'
  BY <1>1, <1>2, <1>3, <1>5, <1>7 DEF InLocation
<1> QED
  BY <1>4, <1>6, <1>7 DEF PlaceInv

\* Where nothing changes, the invariant holds on.
LEMMA ReadStays ==
  ASSUME ReadInv, UNCHANGED vars
  PROVE  ReadInv'
<1>1. UNCHANGED <<source, whole, lines, tokens, i, config, inServer, inLocation, phase>>
  BY DEF vars, fileVars, parserVars
<1>2. ConfigInv'
  BY <1>1, ConfigStays DEF ReadInv
<1>3. ASSUME NEW layout
      PROVE  /\ LinesInv(layout) => LinesInv(layout)'
             /\ TokensInv(layout) => TokensInv(layout)'
  BY <1>1 DEF LinesInv, TokensInv
<1> QED
  BY <1>1, <1>2, <1>3, PlaceStays DEF ReadInv

\* Every step keeps it.
LEMMA StepRead ==
  ASSUME TypeInv, ReadInv, [Next]_vars
  PROVE  ReadInv'
<1>1. CASE Tokenize
  BY <1>1, ReadTokenized
<1>2. CASE ParserStep
  BY <1>2, ReadParsed
<1>3. CASE InitServer \/ InitServerThrows \/ RunServer
  <2>1. /\ UNCHANGED <<source, whole, config>> /\ phase \notin {"reading", "parsing"}
        /\ phase' \in {"binding", "failed", "running"}
    BY <1>3 DEF InitServer, InitServerThrows, RunServer, Binding, fileVars, parserVars
  <2> QED
    BY <2>1, ReadDone
<1>4. CASE UNCHANGED vars
  BY <1>4, ReadStays
<1> QED
  BY <1>1, <1>2, <1>3, <1>4 DEF Next, ParserStep, Directives

\* What it says of the servers read so far.
LEMMA InvMeant ==
  ASSUME TypeInv, ReadInv
  PROVE  ReadAsMeant
<1> DEFINE c == Cleaned(config)
           m == Meaning(source)
           S == {CleanServer(config[s]) : s \in DOMAIN config}
                  \cup {MeaningOfServer(source[s]) : s \in DOMAIN source}
<1>1. /\ Len(config) \in Nat /\ DOMAIN config = 1..Len(config)
      /\ Len(source) \in Nat /\ DOMAIN source = 1..Len(source)
  BY LenProperties DEF TypeInv
<1>2. /\ Len(config) <= Len(source)
      /\ \A s \in 1..Len(config) : CleanServer(config[s]) = MeaningOfServer(source[s])
  BY DEF ReadInv, ConfigInv
<1>3. c = [s \in 1..Len(config) |-> CleanServer(config[s])]
  BY <1>1 DEF Cleaned, CleanServer, AllClean
<1>4. m = [s \in 1..Len(source) |-> MeaningOfServer(source[s])]
  BY <1>1 DEF Meaning
<1>5. c \in [1..Len(config) -> S] /\ m \in [1..Len(source) -> S]
  BY <1>1, <1>3, <1>4
<1> HIDE DEF c, m, S
<1>6. c \in Seq(S) /\ Len(c) = Len(config) /\ m \in Seq(S) /\ Len(m) = Len(source)
  BY <1>1, <1>5, MadeSeq
<1>7. \A s \in 1..Len(c) : c[s] = m[s]
  BY <1>1, <1>2, <1>3, <1>4, <1>6
<1>8. IsPrefix(c, m)
  BY <1>2, <1>6, <1>7, PrefixFacts
<1> QED
  BY <1>8 DEF ReadAsMeant, c, m

\* What it says of a whole file.
LEMMA InvWhole ==
  ASSUME ReadInv
  PROVE  WholeFileRead
BY DEF ReadInv, WholeFileRead

----------------------------------------------------------------------------
(* The theorems.                                                           *)

\* The type invariant: the parser is in a location only in a server, every
\* location has its fields and methods the server knows (their setter gets what
\* the loop before it lets through), and servers_fd names servers of the
\* configuration, by numbers main may have.
THEOREM StartupTyped == Spec => []TypeOK
<1>1. Spec => []IInv
  BY StartsTyped, StepTyped, PTL DEF Spec
<1> QED
  BY <1>1, InvTyped, PTL

\* run_server is called with one socket for each listen directive of the
\* configuration: as many under a server's place as it has directives, and each
\* bound where the directive says when that is a proper address.
THEOREM AllListensServed == Spec => []ListensServed
<1>1. Spec => []IInv
  BY StartsTyped, StepTyped, PTL DEF Spec
<1> QED
  BY <1>1, InvServed, PTL

\* Whatever can be written in a file, however it is laid out and wherever it ends:
\* the servers read so far are the first ones written.
THEOREM ConfigReadAsMeant ==
  ASSUME AllLegible
  PROVE  Spec => []ReadAsMeant
<1>1. Init => IInv /\ ReadInv
  BY StartsTyped, ReadStarts
<1>2. IInv /\ ReadInv /\ [Next]_vars => (IInv /\ ReadInv)'
  BY StepTyped, StepRead DEF IInv
<1>3. IInv /\ ReadInv => ReadAsMeant
  BY InvMeant DEF IInv
<1> QED
  BY <1>1, <1>2, <1>3, PTL DEF Spec

\* A complete file is read to its end.
THEOREM WholeFilesRead ==
  ASSUME AllLegible
  PROVE  Spec => []WholeFileRead
<1>1. Init => IInv /\ ReadInv
  BY StartsTyped, ReadStarts
<1>2. IInv /\ ReadInv /\ [Next]_vars => (IInv /\ ReadInv)'
  BY StepTyped, StepRead DEF IInv
<1>3. IInv /\ ReadInv => WholeFileRead
  BY InvWhole
<1> QED
  BY <1>1, <1>2, <1>3, PTL DEF Spec
=============================================================================
