----------------------------- MODULE UploadProofs -----------------------------
(***************************************************************************)
(* Theorems about Upload, for all requests, older files and sizes of a     *)
(* segment.                                                                *)
(***************************************************************************)
EXTENDS Upload, TextProofs, FiniteSetTheorems

\* What a client's file holds, what of a part is on its way there, and the
\* second behind the first.
Stored(c) == SubSeq(c.disk[c.file], 1, c.at)
Written(c) == IF c.open THEN Stored(c) ELSE <<>>
Pending(c) == Written(c) \o c.body

\* The fields are of their types, and the offset is inside the file.
Fit(c) ==
  /\ c \in ClientState
  /\ c.file # "none" => c.at <= Len(c.disk[c.file])
  /\ c.open => c.file # "none" /\ request.store = "usable"

\* What a step does not lose: if what was on its way was the end of a text, what
\* is on its way now is the end of it too.
Keeps(c, d) ==
  \A t \in Seq(Piece) : IsSuffix(Pending(c), t) => IsSuffix(Pending(d), t)

\* The file of d is the one of c, and has grown.
Extends(c, d) ==
  c.open /\ d.open =>
    /\ d.file = c.file /\ d.at >= c.at
    /\ SubSeq(d.disk[c.file], 1, c.at) = Stored(c)

\* What the parts of the parser leave alone.
Steady(c, d) ==
  /\ d.endHeaders = c.endHeaders /\ d.complete = c.complete /\ d.answer = c.answer
  /\ d.bodySize = c.bodySize /\ d.oneBody = c.oneBody
  /\ d.boundary = c.boundary /\ d.endBoundry = c.endBoundry

----------------------------------------------------------------------------
(* Writing.                                                                *)

\* Writing s at an offset of a text keeps what is in front of it.
LEMMA OverwriteFacts ==
  ASSUME NEW S, NEW old \in Seq(S), NEW at \in 0..Len(old), NEW s \in Seq(S)
  PROVE  /\ Overwrite(old, at, s) \in Seq(S)
         /\ Len(Overwrite(old, at, s)) >= at + Len(s)
         /\ SubSeq(Overwrite(old, at, s), 1, at + Len(s)) = SubSeq(old, 1, at) \o s
         /\ SubSeq(Overwrite(old, at, s), 1, at) = SubSeq(old, 1, at)
<1>1. Len(old) \in Nat /\ Len(s) \in Nat
  BY LenProperties
<1> DEFINE a == SubSeq(old, 1, at)
           b == Drop(at + Len(s), old)
           w == Overwrite(old, at, s)
<1>2. a \in Seq(S) /\ Len(a) = at
  BY <1>1, SubSeqFacts
<1>3. b \in Seq(S)
  BY <1>1, DropFacts
<1>4. w = (a \o s) \o b
  BY DEF Overwrite
<1> HIDE DEF a, b, w
<1>5. /\ a \o s \in Seq(S) /\ Len(a \o s) = at + Len(s)
      /\ SubSeq(a \o s, 1, at) = a
  BY <1>1, <1>2, FrontOfConcat
<1> DEFINE c == a \o s
<1>6. c \in Seq(S) /\ Len(c) = at + Len(s) /\ SubSeq(c, 1, at) = a /\ at \in 0..Len(c)
  BY <1>1, <1>5
<1> HIDE DEF c
<1>7. /\ c \o b \in Seq(S) /\ Len(c \o b) = Len(c) + Len(b)
      /\ SubSeq(c \o b, 1, at) = SubSeq(c, 1, at) /\ SubSeq(c \o b, 1, Len(c)) = c
  <2>1. /\ c \o b \in Seq(S) /\ Len(c \o b) = Len(c) + Len(b)
        /\ SubSeq(c \o b, 1, Len(c)) = c
        /\ \A n \in 0..Len(c) : SubSeq(c \o b, 1, n) = SubSeq(c, 1, n)
    <3>1. c \in Seq(S) /\ b \in Seq(S)
      BY <1>3, <1>6
    <3> QED
      BY <3>1, FrontOfConcat
  <2> QED
    BY <1>6, <2>1
<1>8. w = c \o b /\ Len(b) \in Nat
  BY <1>3, <1>4, LenProperties DEF c
<1>9. Len(w) >= at + Len(s)
  BY <1>1, <1>6, <1>7, <1>8
<1>10. SubSeq(w, 1, at + Len(s)) = c /\ SubSeq(w, 1, at) = a /\ w \in Seq(S)
  BY <1>6, <1>7, <1>8
<1> QED
  BY <1>9, <1>10 DEF a, c, w

\* AppendBody puts s behind what is stored, or throws.
LEMMA AppendBodyFacts ==
  ASSUME NEW c, Fit(c), NEW s \in Seq(Piece), NEW d, d = AppendBody(c, s)
  PROVE  /\ Fit(d)
         /\ Steady(c, d) /\ d.file = c.file /\ d.open = c.open
         /\ d.body = c.body /\ d.inBody = c.inBody /\ d.finishBody = c.finishBody
         /\ d.up => c.up /\ c.open
         /\ c.open => Stored(d) = Stored(c) \o s /\ d.at = c.at + Len(s)
         /\ Extends(c, d)
<1>1. c \in ClientState
  BY DEF Fit
<1>2. CASE ~c.open
  <2>1. d = [c EXCEPT !.up = FALSE]
    BY <1>2 DEF AppendBody
  <2>2. d \in ClientState /\ d.disk = c.disk /\ d.at = c.at /\ d.file = c.file /\ ~d.open /\ ~d.up
    BY <1>1, <1>2, <2>1 DEF ClientState
  <2>3. Fit(d)
    BY <1>2, <2>2 DEF Fit
  <2>4. d.body = c.body /\ d.inBody = c.inBody /\ d.finishBody = c.finishBody
    BY <1>1, <2>1 DEF ClientState
  <2>5. Steady(c, d)
    BY <1>1, <2>1 DEF Steady, ClientState
  <2>6. Extends(c, d)
    BY <1>2 DEF Extends
  <2>7. d.file = c.file /\ d.open = c.open
    BY <1>1, <2>1 DEF ClientState
  <2> QED
    BY <1>2, <2>2, <2>3, <2>4, <2>5, <2>6, <2>7
<1>3. CASE c.open
  <2> DEFINE f == c.file
             old == c.disk[f]
             w == Overwrite(old, c.at, s)
  <2>1. /\ f \in Names /\ old \in Seq(Piece) /\ c.at \in 0..Len(old) /\ c.at \in Nat
        /\ c.disk \in [Names -> Seq(Piece)] /\ Len(s) \in Nat
    <3>1. f \in Names /\ c.at \in Nat /\ c.disk \in [Names -> Seq(Piece)] /\ c.at <= Len(old)
      BY <1>1, <1>3 DEF Fit, ClientState
    <3>2. old \in Seq(Piece)
      BY <3>1
    <3>3. Len(old) \in Nat /\ Len(s) \in Nat
      BY <3>2, LenProperties
    <3> QED
      BY <3>1, <3>2, <3>3
  <2>2. d = [c EXCEPT !.disk[f] = w, !.at = c.at + Len(s)]
    BY <1>3 DEF AppendBody
  <2>3. /\ w \in Seq(Piece) /\ Len(w) >= c.at + Len(s)
        /\ SubSeq(w, 1, c.at + Len(s)) = SubSeq(old, 1, c.at) \o s
        /\ SubSeq(w, 1, c.at) = SubSeq(old, 1, c.at)
    BY <2>1, OverwriteFacts
  <2> HIDE DEF w
  <2>4. /\ d.disk = [c.disk EXCEPT ![f] = w] /\ d.at = c.at + Len(s) /\ d.file = f
        /\ d.open = c.open /\ d.up = c.up
    BY <1>1, <2>2 DEF ClientState
  <2>5. d.disk[f] = w /\ d.disk \in [Names -> Seq(Piece)]
    BY <2>1, <2>3, <2>4
  <2>6. d.body = c.body /\ d.inBody = c.inBody /\ d.finishBody = c.finishBody
    BY <1>1, <2>2 DEF ClientState
  <2>7. d.at \in Nat
    BY <2>1, <2>4
  <2>8. d \in ClientState
    <3>1. d = [c EXCEPT !.disk = [c.disk EXCEPT ![f] = w], !.at = c.at + Len(s)]
      BY <1>1, <2>2 DEF ClientState
    <3> QED
      BY <1>1, <2>4, <2>5, <2>7, <3>1 DEF ClientState
  <2>9. Fit(d)
    BY <2>1, <2>3, <2>4, <2>5, <2>8 DEF Fit
  <2>10. Stored(d) = Stored(c) \o s
    BY <2>3, <2>4, <2>5 DEF Stored
  <2>11. Extends(c, d)
    <3>1. d.at >= c.at
      BY <2>1, <2>4
    <3>2. SubSeq(d.disk[f], 1, c.at) = SubSeq(c.disk[f], 1, c.at)
      BY <2>3, <2>5
    <3> QED
      BY <2>4, <3>1, <3>2 DEF Extends, Stored
  <2>12. Steady(c, d)
    BY <1>1, <2>2 DEF Steady, ClientState
  <2> QED
    BY <1>3, <2>4, <2>6, <2>9, <2>10, <2>11, <2>12
<1> QED
  BY <1>2, <1>3

\* What is on its way is a text.
LEMMA PendingFacts ==
  ASSUME NEW c, Fit(c)
  PROVE  /\ c.file # "none" => Stored(c) \in Seq(Piece) /\ Len(Stored(c)) = c.at
         /\ Written(c) \in Seq(Piece) /\ c.body \in Seq(Piece)
         /\ Pending(c) \in Seq(Piece)
<1>1. c.body \in Seq(Piece)
  BY DEF Fit, ClientState
<1>5. c.open => c.file # "none"
  BY DEF Fit
<1>2. ASSUME c.file # "none"
      PROVE  Stored(c) \in Seq(Piece) /\ Len(Stored(c)) = c.at
  <2> DEFINE old == c.disk[c.file]
  <2>1. c.file \in Names /\ c.disk \in [Names -> Seq(Piece)]
    BY <1>2 DEF Fit, ClientState
  <2>4. old \in Seq(Piece)
    BY <2>1
  <2>3. c.at \in Nat /\ c.at <= Len(old)
    BY <1>2 DEF Fit, ClientState
  <2> HIDE DEF old
  <2>2. SubSeq(old, 1, c.at) \in Seq(Piece) /\ Len(SubSeq(old, 1, c.at)) = c.at
    BY <2>4, <2>3, SubSeqFacts
  <2> QED
    BY <2>2 DEF Stored, old
<1>3. Written(c) \in Seq(Piece)
  <2>1. CASE c.open
    BY <1>2, <1>5, <2>1 DEF Written
  <2>2. CASE ~c.open
    BY <2>2, EmptySeq DEF Written
  <2> QED
    BY <2>1, <2>2
<1>4. Pending(c) \in Seq(Piece)
  BY <1>1, <1>3, ConcatProperties DEF Pending
<1> QED
  BY <1>1, <1>2, <1>3, <1>4

\* A text written to the file from the front of what is kept back goes nowhere else.
LEMMA PendingMoves ==
  ASSUME NEW c, NEW d, Fit(c), c.open, d.open,
         NEW s \in Seq(Piece), NEW r \in Seq(Piece), c.body = s \o r,
         Stored(d) = Stored(c) \o s, d.body = r
  PROVE  Pending(d) = Pending(c)
<1>1. Stored(c) \in Seq(Piece)
  BY PendingFacts DEF Fit
<1>2. (Stored(c) \o s) \o r = Stored(c) \o (s \o r)
  BY <1>1, ConcatAssociative
<1> QED
  BY <1>2 DEF Pending, Written

\* A file that is closed leaves what is kept back.
LEMMA PendingCloses ==
  ASSUME NEW c, NEW d, Fit(c), Fit(d), ~d.open, d.body = c.body
  PROVE  Keeps(c, d)
<1>1. Pending(d) = c.body
  BY PendingFacts, ConcatEmptySeq DEF Pending, Written
<1> QED
  BY <1>1, PendingFacts, SuffixShrinks DEF Keeps, Pending

----------------------------------------------------------------------------
(* The multipart parser.                                                   *)

\* What a step of the parser within a part may do.
Within(c, d) ==
  /\ Fit(d) /\ Steady(c, d) /\ Extends(c, d)
  /\ d.up => c.up /\ Keeps(c, d)
  /\ d.open => c.open /\ d.inBody = c.inBody

\* Up to the end of a body, if it has come.
LEMMA EndsInBody ==
  ASSUME NEW c, Fit(c), Found(c.endBoundry, c.body), NEW d,
         d = [AppendBody(c, Before(c.endBoundry, c.body)) EXCEPT
                !.body = From(c.endBoundry, c.body), !.finishBody = TRUE]
  PROVE  Within(c, d) /\ d.open = c.open
<1> DEFINE s == Before(c.endBoundry, c.body)
           r == From(c.endBoundry, c.body)
           a == AppendBody(c, s)
<1>1. s \in Seq(Piece) /\ r \in Seq(Piece) /\ s \o r = c.body
  <2>1. c.body \in Seq(Piece) /\ c.endBoundry \in Seq(Piece \cup {SmallMark})
    BY DEF Fit, ClientState
  <2>2. \A S, T : \A p \in Seq(T), x \in Seq(S) :
          Found(p, x) => /\ Before(p, x) \in Seq(S) /\ From(p, x) \in Seq(S)
                         /\ Before(p, x) \o From(p, x) = x
    BY BeforeFrom
  <2> QED
    BY <2>1, <2>2
<1> HIDE DEF s, r, a
<1>2. /\ Fit(a) /\ a.file = c.file /\ a.open = c.open /\ a.body = c.body
      /\ a.inBody = c.inBody
      /\ Steady(c, a) /\ Extends(c, a)
      /\ a.up => c.up /\ c.open
      /\ c.open => Stored(a) = Stored(c) \o s
  BY <1>1, AppendBodyFacts DEF a
<1>3. d = [a EXCEPT !.body = r, !.finishBody = TRUE]
  BY DEF a, s, r
<1>4. a \in ClientState /\ c \in ClientState
  BY <1>2 DEF Fit
<1>5. /\ d.up = a.up /\ d.disk = a.disk /\ d.at = a.at /\ d.file = a.file /\ d.open = a.open
      /\ d.body = r /\ d.inBody = a.inBody /\ d \in ClientState
  BY <1>1, <1>3, <1>4 DEF ClientState
<1>6. a.open = c.open /\ a.file = c.file /\ a.inBody = c.inBody
  BY <1>2, <1>4 DEF ClientState
<1>7. Fit(d)
  BY <1>2, <1>5 DEF Fit
<1>8. Steady(c, d)
  BY ZenonT(90), <1>2, <1>3, <1>4 DEF Steady, ClientState
<1>9. Extends(c, d)
  BY <1>2, <1>5, <1>6 DEF Extends
<1>10. ASSUME d.up PROVE c.up /\ Keeps(c, d)
  <2>1. c.up /\ c.open /\ d.open /\ Stored(d) = Stored(c) \o s
    BY <1>2, <1>5, <1>6, <1>10 DEF Stored
  <2>2. Pending(d) = Pending(c)
    BY <1>1, <1>5, <2>1, PendingMoves
  <2> QED
    BY <2>1, <2>2 DEF Keeps
<1> QED
  BY <1>5, <1>6, <1>7, <1>8, <1>9, <1>10 DEF Within

\* At a boundary.
LEMMA BoundaryInBody ==
  ASSUME NEW c, Fit(c), Found(c.boundary, c.body), NEW d,
         d = PartEnds(AppendBody(c, Before(c.boundary, c.body)))
  PROVE  Within(c, d)
<1> DEFINE s == Before(c.boundary, c.body)
           a == AppendBody(c, s)
<1>1. s \in Seq(Piece)
  <2>1. c.body \in Seq(Piece) /\ c.boundary \in Seq(Piece \cup {SmallMark})
    BY DEF Fit, ClientState
  <2> QED
    BY <2>1, BeforeFrom
<1> HIDE DEF s, a
<1>2. Fit(a) /\ a.body = c.body
  BY <1>1, AppendBodyFacts DEF a
<1>12. Steady(c, a)
  BY <1>1, AppendBodyFacts DEF a
<1>13. a.up => c.up
  BY <1>1, AppendBodyFacts DEF a
<1>3. d = [a EXCEPT !.open = FALSE, !.inBody = FALSE]
  <2>1. d = PartEnds(a)
    BY DEF a, s
  <2> QED
    BY <2>1 DEF PartEnds, CloseFileUpload
<1>4. a \in ClientState
  BY <1>2 DEF Fit
<1>5. /\ d.up = a.up /\ d.disk = a.disk /\ d.at = a.at /\ d.file = a.file /\ ~d.open
      /\ d.body = a.body /\ d \in ClientState
  BY <1>3, <1>4 DEF ClientState
<1>6. a.body = c.body
  BY <1>2
<1>7. Fit(d)
  BY <1>2, <1>5 DEF Fit
<1>8. Steady(c, d)
  <2>1. Steady(a, d)
    BY <1>3, <1>4 DEF Steady, ClientState
  <2> QED
    BY <1>12, <2>1 DEF Steady
<1>9. Keeps(c, d)
  BY <1>5, <1>6, <1>7, PendingCloses
<1>10. Extends(c, d)
  BY <1>5 DEF Extends
<1>11. ASSUME d.up PROVE c.up
  <2>1. a.up
    BY <1>5, <1>11
  <2> QED
    BY <1>13, <2>1
<1> QED
  BY <1>5, <1>7, <1>8, <1>9, <1>10, <1>11 DEF Within

\* What is no boundary and cannot begin one.
LEMMA HoldsBack ==
  ASSUME NEW c, Fit(c), NEW n \in 0..Len(c.body), NEW d,
         d = [AppendBody(c, SubSeq(c.body, 1, n)) EXCEPT !.body = KeptBack(c, n)]
  PROVE  Within(c, d)
<1> DEFINE s == SubSeq(c.body, 1, n)
           r == Drop(n, c.body)
           a == AppendBody(c, s)
<1>1. s \in Seq(Piece) /\ r \in Seq(Piece) /\ s \o r = c.body
  <2>1. c.body \in Seq(Piece) /\ Len(c.body) \in Nat
    <3>1. c.body \in Seq(Piece)
      BY DEF Fit, ClientState
    <3> QED
      BY <3>1, LenProperties
  <2>2. s \in Seq(Piece)
    BY <2>1, SubSeqFacts
  <2>3. r \in Seq(Piece)
    BY <2>1, DropFacts
  <2> QED
    BY <2>1, <2>2, <2>3, TakeAndDrop
<1> HIDE DEF s, r, a
<1>2. /\ Fit(a) /\ a.file = c.file /\ a.open = c.open /\ a.body = c.body
      /\ a.inBody = c.inBody
      /\ Steady(c, a) /\ Extends(c, a)
      /\ a.up => c.up /\ c.open
      /\ c.open => Stored(a) = Stored(c) \o s
  BY <1>1, AppendBodyFacts DEF a
<1>3. d = [a EXCEPT !.body = r]
  BY DEF a, s, r, KeptBack
<1>4. a \in ClientState /\ c \in ClientState
  BY <1>2 DEF Fit
<1>5. /\ d.up = a.up /\ d.disk = a.disk /\ d.at = a.at /\ d.file = a.file /\ d.open = a.open
      /\ d.body = r /\ d.inBody = a.inBody /\ d \in ClientState
  BY <1>1, <1>3, <1>4 DEF ClientState
<1>6. a.open = c.open /\ a.file = c.file /\ a.inBody = c.inBody
  BY <1>2, <1>4 DEF ClientState
<1>7. Fit(d)
  BY <1>2, <1>5 DEF Fit
<1>8. Steady(c, d)
  BY SMTT(90), <1>2, <1>3, <1>4 DEF Steady, ClientState
<1>9. Extends(c, d)
  BY <1>2, <1>5, <1>6 DEF Extends
<1>10. ASSUME d.up PROVE c.up /\ Keeps(c, d)
  <2>1. c.up /\ c.open /\ d.open /\ Stored(d) = Stored(c) \o s
    BY <1>2, <1>5, <1>6, <1>10 DEF Stored
  <2>2. Pending(d) = Pending(c)
    BY <1>1, <1>5, <2>1, PendingMoves
  <2> QED
    BY <2>1, <2>2 DEF Keeps
<1> QED
  BY <1>5, <1>6, <1>7, <1>8, <1>9, <1>10 DEF Within

\* A step within a part, whatever of a boundary has come.
LEMMA HandleInBodyFacts ==
  ASSUME NEW c, Fit(c), NEW d, d = HandleInBody(c)
  PROVE  Within(c, d)
<1> DEFINE ended == IF Found(c.endBoundry, c.body)
                    THEN [AppendBody(c, Before(c.endBoundry, c.body)) EXCEPT
                            !.body = From(c.endBoundry, c.body), !.finishBody = TRUE]
                    ELSE c
           safe == SafeZone(ended)
<1>1. d = IF Found(c.boundary, ended.body)
          THEN PartEnds(AppendBody(ended, Before(c.boundary, ended.body)))
          ELSE IF safe > 0
          THEN [AppendBody(ended, SubSeq(ended.body, 1, safe)) EXCEPT
                  !.body = KeptBack(ended, safe)]
          ELSE ended
  BY DEF HandleInBody
<1>2. Within(c, ended) /\ ended.open = c.open
  <2>1. CASE Found(c.endBoundry, c.body)
    BY <2>1, EndsInBody
  <2>2. CASE ~Found(c.endBoundry, c.body)
    BY <2>2 DEF Within, Steady, Extends, Keeps, Fit, ClientState, Stored
  <2> QED
    BY <2>1, <2>2
<1> HIDE DEF ended
<1>3. ended.boundary = c.boundary
  BY <1>2 DEF Within, Steady
<1>4. Fit(ended) /\ safe \in 0..Len(ended.body)
  <2>1. Fit(ended) /\ ended.body \in Seq(Piece) /\ ended.boundary \in Seq(Piece \cup {SmallMark})
    BY <1>2 DEF Within, Fit, ClientState
  <2>2. Len(ended.body) \in Nat /\ Len(ended.boundary) \in Nat
    BY <2>1, LenProperties
  <2>3. safe = IF Len(ended.body) >= Len(ended.boundary)
               THEN Len(ended.body) - Len(ended.boundary) ELSE Len(ended.body)
    BY DEF SafeZone
  <2> HIDE DEF safe
  <2>4. \A m, n \in Nat : m >= n => m - n \in 0..m
    OBVIOUS
  <2>5. safe \in 0..Len(ended.body)
    <3>1. CASE Len(ended.body) >= Len(ended.boundary)
      BY <2>2, <2>3, <2>4, <3>1
    <3>2. CASE ~(Len(ended.body) >= Len(ended.boundary))
      BY <2>2, <2>3, <3>2
    <3> QED
      BY <3>1, <3>2
  <2> QED
    BY <2>1, <2>5
<1> HIDE DEF safe
<1>5. Within(ended, d)
  <2>1. CASE Found(c.boundary, ended.body)
    BY <1>1, <1>3, <1>4, <2>1, BoundaryInBody
  <2>2. CASE ~Found(c.boundary, ended.body) /\ safe > 0
    BY <1>1, <1>4, <2>2, HoldsBack
  <2>3. CASE ~Found(c.boundary, ended.body) /\ ~(safe > 0)
    <3>1. d = ended
      BY <1>1, <2>3
    <3> QED
      BY <1>4, <3>1 DEF Within, Steady, Extends, Keeps, Fit, ClientState, Stored
  <2> QED
    BY <2>1, <2>2, <2>3
<1>6. Fit(d) /\ Steady(c, d)
  BY <1>2, <1>5 DEF Within, Steady
<1>7. Extends(c, d)
  <2> SUFFICES ASSUME c.open, d.open
               PROVE  /\ d.file = c.file /\ d.at >= c.at
                      /\ SubSeq(d.disk[c.file], 1, c.at) = Stored(c)
    BY DEF Extends
  <2>1. /\ ended.open
        /\ ended.file = c.file /\ ended.at >= c.at
        /\ SubSeq(ended.disk[c.file], 1, c.at) = Stored(c)
        /\ d.file = ended.file /\ d.at >= ended.at
        /\ SubSeq(d.disk[c.file], 1, ended.at) = Stored(ended)
    BY <1>2, <1>5 DEF Within, Extends
  <2>2. /\ c.at \in Nat /\ ended.at \in Nat /\ d.at \in Nat
        /\ ended.disk[c.file] \in Seq(Piece) /\ ended.at <= Len(ended.disk[c.file])
        /\ d.disk[c.file] \in Seq(Piece) /\ d.at <= Len(d.disk[c.file])
    BY <1>2, <1>4, <1>6, <2>1 DEF Fit, ClientState
  <2> DEFINE e == ended.disk[c.file]
             f == d.disk[c.file]
  <2>3. /\ SubSeq(f, 1, ended.at) = SubSeq(e, 1, ended.at)
        /\ e \in Seq(Piece) /\ f \in Seq(Piece) /\ Len(e) \in Nat /\ Len(f) \in Nat
        /\ ended.at \in 0..Len(e) /\ ended.at \in 0..Len(f) /\ c.at \in 0..ended.at
    BY <2>1, <2>2, LenProperties DEF Stored
  <2> HIDE DEF e, f
  <2>4. SubSeq(SubSeq(f, 1, ended.at), 1, c.at) = SubSeq(f, 1, c.at)
    BY <2>3, FrontOfFront
  <2>5. SubSeq(SubSeq(e, 1, ended.at), 1, c.at) = SubSeq(e, 1, c.at)
    BY <2>3, FrontOfFront
  <2>6. SubSeq(f, 1, c.at) = Stored(c)
    BY <2>1, <2>3, <2>4, <2>5 DEF e
  <2> QED
    BY <2>1, <2>2, <2>6 DEF f
<1>8. d.up => c.up /\ Keeps(c, d)
  BY <1>2, <1>5 DEF Within, Keeps
<1>9. d.open => c.open /\ d.inBody = c.inBody
  BY <1>2, <1>5 DEF Within
<1> QED
  BY <1>6, <1>7, <1>8, <1>9 DEF Within

\* What the end of the headers of a part may do.
Begins(c, d) ==
  /\ Fit(d) /\ d.endHeaders = c.endHeaders /\ d.bodySize = c.bodySize
  /\ d.oneBody = c.oneBody
  /\ d.up => c.up /\ Keeps(c, d)
  /\ \/ d.complete = c.complete /\ d.answer = c.answer
     \/ d.complete /\ d.answer = "500" /\ ~d.open
  /\ d.open => \/ d.inBody
               \/ d.inBody = c.inBody /\ d.finishBody = c.finishBody /\ c.open

\* Writing the beginning of a part to a new file.
StartsWith(c, name, start) ==
  [AppendBody(GenerateTmpFile(c, name), start) EXCEPT !.body = <<>>]

\* A new file starts with what has been received of its part.
LEMMA StartsFile ==
  ASSUME NEW c, Fit(c), NEW start \in Seq(Piece), NEW name \in Names, NEW d,
         d = StartsWith(c, name, start)
  PROVE  /\ Fit(d) /\ Steady(c, d) /\ d.inBody = c.inBody /\ d.finishBody = c.finishBody
         /\ d.body = <<>>
         /\ d.up => /\ c.up /\ Pending(d) = start
                    /\ d.open /\ d.file = name /\ d.at = Len(start) /\ Stored(d) = start
<1> DEFINE g == GenerateTmpFile(c, name)
           a == AppendBody(g, start)
<1>1. c \in ClientState
  BY DEF Fit
<1>2. Fit(g) /\ Steady(c, g) /\ g.inBody = c.inBody /\ g.finishBody = c.finishBody
  <2>1. CASE request.store = "usable"
    <3>1. g = [c EXCEPT !.file = name, !.open = TRUE, !.at = 0]
      BY <2>1 DEF GenerateTmpFile
    <3> HIDE DEF g
    <3>2. g \in ClientState /\ Steady(c, g) /\ g.inBody = c.inBody
          /\ g.finishBody = c.finishBody
      BY <1>1, <3>1 DEF ClientState, Steady
    <3>3. g.file = name /\ g.at = 0 /\ g.disk = c.disk
      BY <1>1, <3>1 DEF ClientState
    <3>4. c.disk \in [Names -> Seq(Piece)]
      BY <1>1 DEF ClientState
    <3>5. c.disk[name] \in Seq(Piece)
      BY <3>4
    <3>6. 0 <= Len(c.disk[name])
      BY <3>5, LenProperties
    <3>7. g.file # "none"
      BY <3>3 DEF Names
    <3> QED
      BY <2>1, <3>2, <3>3, <3>6, <3>7 DEF Fit
  <2>2. CASE request.store # "usable"
    <3>1. g = [c EXCEPT !.up = FALSE]
      BY <2>2 DEF GenerateTmpFile
    <3> HIDE DEF g
    <3>2. g \in ClientState /\ Steady(c, g) /\ g.inBody = c.inBody
          /\ g.finishBody = c.finishBody
      BY <1>1, <3>1 DEF ClientState, Steady
    <3>3. g.file = c.file /\ g.at = c.at /\ g.disk = c.disk /\ g.open = c.open
      BY <1>1, <3>1 DEF ClientState
    <3> QED
      BY <2>2, <3>2, <3>3 DEF Fit
  <2> QED
    BY <2>1, <2>2
<1>3. g.up => c.up /\ g.file = name /\ g.at = 0 /\ g.disk = c.disk /\ g.open
  BY <1>1 DEF GenerateTmpFile, ClientState
<1> HIDE DEF g, a
<1>4. Fit(a) /\ a.open = g.open /\ a.inBody = g.inBody /\ a.file = g.file
      /\ a.finishBody = g.finishBody
  BY <1>2, AppendBodyFacts DEF a
<1>5. Steady(g, a)
  BY <1>2, AppendBodyFacts DEF a
<1>6. ASSUME a.up
      PROVE  g.up /\ g.open /\ Stored(a) = Stored(g) \o start /\ a.at = g.at + Len(start)
  BY <1>2, <1>6, AppendBodyFacts DEF a
<1>7. d = [a EXCEPT !.body = <<>>]
  BY DEF a, g, StartsWith
<1>8. a \in ClientState
  BY <1>4 DEF Fit
<1>9. /\ d \in ClientState /\ d.body = <<>> /\ d.open = a.open /\ d.file = a.file
      /\ d.at = a.at /\ d.disk = a.disk /\ d.inBody = a.inBody /\ d.finishBody = a.finishBody
  <2>1. <<>> \in Seq(Piece)
    BY EmptySeq
  <2> QED
    BY <1>7, <1>8, <2>1 DEF ClientState
<1>10. Fit(d)
  BY <1>4, <1>9 DEF Fit
<1>11. Steady(c, d)
  <2>1. Steady(a, d)
    BY <1>7, <1>8 DEF Steady, ClientState
  <2> QED
    BY <1>2, <1>5, <2>1 DEF Steady
<1>12. ASSUME d.up
       PROVE  /\ c.up /\ Pending(d) = start
              /\ d.open /\ d.file = name /\ d.at = Len(start) /\ Stored(d) = start
  <2>1. a.up
    BY <1>7, <1>8, <1>12 DEF ClientState
  <2>2. g.up /\ g.open /\ Stored(a) = Stored(g) \o start /\ a.at = g.at + Len(start)
    BY <1>6, <2>1
  <2>3. c.up /\ g.file = name /\ g.at = 0 /\ g.disk = c.disk
    BY <1>3, <2>2
  <2>4. Stored(g) = <<>>
    <3>1. c.disk[name] \in Seq(Piece)
      BY <1>1 DEF ClientState
    <3> QED
      BY <2>3, <3>1, SubSeqEmpty DEF Stored
  <2>5. Stored(a) = start
    BY <2>2, <2>4, ConcatEmptySeq
  <2>6. Stored(d) = start /\ d.open
    BY <1>4, <1>9, <2>2, <2>5 DEF Stored
  <2>7. d.at = Len(start)
    <3>1. Len(start) \in Nat
      BY LenProperties
    <3> QED
      BY <1>9, <2>2, <2>3, <3>1
  <2>8. d.file = name
    BY <1>4, <1>9, <2>3
  <2> QED
    BY <1>9, <2>3, <2>6, <2>7, <2>8, ConcatEmptySeq DEF Pending, Written
<1>13. d.inBody = c.inBody
  BY <1>2, <1>4, <1>9
<1>14. d.finishBody = c.finishBody /\ d.body = <<>>
  BY <1>2, <1>4, <1>9
<1> QED
  BY <1>10, <1>11, <1>12, <1>13, <1>14

\* The headers of a part.
LEMMA HandleBodyHeadersFacts ==
  ASSUME NEW c, Fit(c), NEW d, d = HandleBodyHeaders(c)
  PROVE  Begins(c, d)
<1> DEFINE inside == [c EXCEPT !.inBody = TRUE]
           n == Find(<<Blank>>, c.body)
           start == Drop(n, c.body)
<1>1. c \in ClientState
  BY DEF Fit
<1>2. /\ inside \in ClientState /\ Steady(c, inside) /\ inside.inBody /\ inside.up = c.up
      /\ inside.open = c.open /\ inside.file = c.file /\ inside.at = c.at
      /\ inside.disk = c.disk /\ inside.body = c.body
  BY <1>1 DEF ClientState, Steady
<1> HIDE DEF inside
<1>3. Fit(inside)
  BY <1>2 DEF Fit
<1>4. Pending(inside) = Pending(c)
  BY <1>2 DEF Pending, Written, Stored
<1>5. CASE ~Found(<<Blank>>, c.body)
  <2>1. d = c
    BY <1>5 DEF HandleBodyHeaders
  <2> QED
    BY <2>1 DEF Begins, Keeps
<1>6. CASE Found(<<Blank>>, c.body) /\ NameUnended(c.body)
  <2>1. d = inside
    BY <1>6 DEF HandleBodyHeaders, inside
  <2>2. d.up => c.up /\ Keeps(c, d)
    BY <1>2, <1>4, <2>1 DEF Keeps
  <2>3. /\ d.endHeaders = c.endHeaders /\ d.bodySize = c.bodySize /\ d.oneBody = c.oneBody
        /\ d.complete = c.complete /\ d.answer = c.answer
    BY <1>2, <2>1 DEF Steady
  <2> QED
    BY <1>2, <1>3, <2>1, <2>2, <2>3 DEF Begins
<1>7. CASE Found(<<Blank>>, c.body) /\ ~NameUnended(c.body) /\ request.store = "unset"
  <2>1. d = [inside EXCEPT !.answer = "500", !.complete = TRUE]
    BY <1>7 DEF HandleBodyHeaders, Refuse, inside
  <2>2. ~c.open
    BY <1>7 DEF Fit
  <2>3. /\ d \in ClientState /\ d.up = inside.up /\ d.open = inside.open
        /\ d.file = inside.file /\ d.at = inside.at /\ d.disk = inside.disk
        /\ d.body = inside.body /\ d.complete /\ d.answer = "500"
        /\ d.endHeaders = inside.endHeaders /\ d.bodySize = inside.bodySize
        /\ d.oneBody = inside.oneBody
    BY ZenonT(90), <1>2, <2>1 DEF ClientState
  <2>4. Fit(d) /\ ~d.open
    BY <1>2, <1>3, <2>2, <2>3 DEF Fit
  <2>5. Pending(d) = Pending(inside)
    BY <2>3 DEF Pending, Written, Stored
  <2>6. ASSUME d.up PROVE c.up /\ Keeps(c, d)
    BY <1>2, <1>4, <2>3, <2>5, <2>6 DEF Keeps
  <2>7. d.endHeaders = c.endHeaders /\ d.bodySize = c.bodySize /\ d.oneBody = c.oneBody
    BY <1>2, <2>3 DEF Steady
  <2> QED
    BY <2>3, <2>4, <2>6, <2>7 DEF Begins
<1>8. CASE Found(<<Blank>>, c.body) /\ ~NameUnended(c.body) /\ request.store # "unset"
  <2> DEFINE name == PartName(c.body)
  <2>1. d = StartsWith(inside, name, start)
    BY <1>8 DEF HandleBodyHeaders, inside, StartsWith
  <2>2. name \in Names
    BY DEF PartName, Names
  <2>3. /\ c.body \in Seq(Piece) /\ n \in 0..Len(c.body) /\ start \in Seq(Piece)
        /\ SubSeq(c.body, 1, n) \in Seq(Piece)
        /\ SubSeq(c.body, 1, n) \o start = c.body
    <3>1. c.body \in Seq(Piece)
      BY <1>1 DEF ClientState
    <3>2. <<Blank>> \in Seq(Piece) /\ Len(<<Blank>>) = 1
      BY DEF Piece
    <3>3. n \in Nat /\ n + 1 <= Len(c.body) + 1 /\ Len(c.body) \in Nat
      BY <1>8, <3>1, <3>2, FindFacts, LenProperties
    <3>4. n \in 0..Len(c.body) /\ n \in Nat
      BY <3>3
    <3> HIDE DEF n
    <3>5. start \in Seq(Piece)
      BY <3>1, <3>4, DropFacts
    <3>6. SubSeq(c.body, 1, n) \in Seq(Piece)
      BY <3>1, <3>3, <3>4, SubSeqFacts
    <3>7. SubSeq(c.body, 1, n) \o start = c.body
      BY <3>1, <3>4, TakeAndDrop
    <3> QED
      BY <3>1, <3>4, <3>5, <3>6, <3>7
  <2> HIDE DEF start, n, name
  <2>4. /\ Fit(d) /\ Steady(inside, d) /\ d.inBody = inside.inBody
        /\ d.up => inside.up /\ Pending(d) = start
    <3>1. start \in Seq(Piece)
      BY <2>3
    <3> QED
      BY <1>3, <2>1, <2>2, <3>1, StartsFile
  <2>5. ASSUME d.up PROVE c.up /\ Keeps(c, d)
    <3>1. c.up /\ Pending(d) = start
      BY <1>2, <2>4, <2>5
    <3> SUFFICES ASSUME NEW t \in Seq(Piece), IsSuffix(Pending(c), t)
                 PROVE  IsSuffix(start, t)
      BY <3>1 DEF Keeps
    <3>2. Written(c) \in Seq(Piece)
      BY PendingFacts
    <3>3. IsSuffix(c.body, t)
      BY <2>3, <3>2, SuffixShrinks DEF Pending
    <3> DEFINE u == SubSeq(c.body, 1, n)
    <3>4. u \in Seq(Piece) /\ start \in Seq(Piece) /\ IsSuffix(u \o start, t)
      BY <2>3, <3>3
    <3> HIDE DEF u
    <3> QED
      BY <3>4, SuffixShrinks
  <2>6. /\ d.endHeaders = c.endHeaders /\ d.bodySize = c.bodySize /\ d.oneBody = c.oneBody
        /\ d.complete = c.complete /\ d.answer = c.answer
    BY <1>2, <2>4 DEF Steady
  <2>7. d.inBody
    BY <1>2, <2>4
  <2> QED
    BY <2>4, <2>5, <2>6, <2>7 DEF Begins
<1> QED
  BY <1>5, <1>6, <1>7, <1>8

----------------------------------------------------------------------------
(* One recv().                                                             *)

\* A request whose body is being received.
Ready(c) ==
  /\ Fit(c) /\ ~c.complete /\ c.answer = "none" /\ c.bodySize > 0
  /\ c.open /\ ~c.finishBody => c.oneBody \/ c.inBody
  /\ c.oneBody => c.body = <<>>

\* buf has been taken, and the bytes still expected are not yet counted down.
Took(c, buf, x) ==
  /\ Fit(x) /\ x.endHeaders = c.endHeaders /\ x.bodySize = c.bodySize
  /\ x.oneBody = c.oneBody
  /\ x.up => c.up
  /\ x.up => \A t \in Seq(Piece) : IsSuffix(Pending(c), t) => IsSuffix(Pending(x), t \o buf)
  /\ \/ x.answer = "none" /\ ~x.complete
     \/ x.answer = "500" /\ x.complete /\ ~x.open /\ ~x.oneBody
  /\ x.open /\ ~x.finishBody => x.oneBody \/ x.inBody
  /\ x.oneBody => x.body = <<>>
  /\ x.oneBody /\ x.up => x.file # "none" /\ Stored(x) = Stored(c) \o buf
  /\ c.open /\ ~c.finishBody => Extends(c, x)

\* The bytes are appended to what the parser has kept back.
More(c, buf) == [c EXCEPT !.body = @ \o buf]

LEMMA MoreFacts ==
  ASSUME NEW c, Fit(c), NEW buf \in Seq(Piece), NEW more, more = More(c, buf)
  PROVE  /\ Fit(more) /\ Steady(c, more) /\ Stored(more) = Stored(c)
         /\ more.inBody = c.inBody /\ more.finishBody = c.finishBody
         /\ more.open = c.open /\ more.file = c.file /\ more.at = c.at
         /\ more.up = c.up
         /\ Pending(more) = Pending(c) \o buf
<1>1. c \in ClientState
  BY DEF Fit
<1> DEFINE b == c.body \o buf
<1>2. c.body \in Seq(Piece) /\ b \in Seq(Piece)
  <2>1. c.body \in Seq(Piece)
    BY <1>1 DEF ClientState
  <2> QED
    BY <2>1, ConcatProperties
<1>3. more = [c EXCEPT !.body = b]
  BY <1>1 DEF ClientState, More
<1> HIDE DEF b
<1>4. /\ more \in ClientState /\ more.file = c.file /\ more.at = c.at
      /\ more.disk = c.disk /\ more.body = b /\ more.open = c.open /\ more.up = c.up
      /\ more.inBody = c.inBody /\ more.finishBody = c.finishBody
  BY <1>1, <1>2, <1>3 DEF ClientState
<1>5. Steady(c, more)
  BY <1>1, <1>3 DEF Steady, ClientState
<1>6. Fit(more)
  BY <1>4 DEF Fit
<1>7. Stored(more) = Stored(c) /\ Written(more) = Written(c)
  <2>1. Stored(more) = Stored(c)
    BY <1>4 DEF Stored
  <2>2. more.open = c.open
    BY <1>4
  <2> QED
    BY <2>1, <2>2 DEF Written
<1>8. Pending(more) = Pending(c) \o buf
  <2>1. Written(c) \in Seq(Piece)
    BY PendingFacts
  <2>2. (Written(c) \o c.body) \o buf = Written(c) \o (c.body \o buf)
    <3> DEFINE u == Written(c)
               v == c.body
    <3>1. u \in Seq(Piece) /\ v \in Seq(Piece)
      BY <1>2, <2>1
    <3> HIDE DEF u, v
    <3>2. (u \o v) \o buf = u \o (v \o buf)
      BY <3>1, ConcatAssociative
    <3> QED
      BY <3>2 DEF u, v
  <2> QED
    BY <1>4, <1>7, <2>2 DEF Pending, b
<1> QED
  BY <1>4, <1>5, <1>6, <1>7, <1>8

\* What keeps the end of a text keeps it with more behind.
LEMMA KeepsMore ==
  ASSUME NEW c, Fit(c), NEW more, NEW x, NEW buf \in Seq(Piece), Keeps(more, x),
         Pending(more) = Pending(c) \o buf,
         NEW t \in Seq(Piece), IsSuffix(Pending(c), t)
  PROVE  IsSuffix(Pending(x), t \o buf)
<1>1. Pending(c) \in Seq(Piece)
  BY PendingFacts
<1>2. IsSuffix(Pending(c) \o buf, t \o buf)
  BY <1>1, SuffixGrows
<1>3. t \o buf \in Seq(Piece)
  BY ConcatProperties
<1> QED
  BY <1>2, <1>3 DEF Keeps

\* A body that is no multipart.
LEMMA TookPlain ==
  ASSUME NEW c, Ready(c), NEW buf \in Seq(Piece), c.oneBody, NEW x, x = AppendBody(c, buf)
  PROVE  Took(c, buf, x)
<1>1. Fit(c) /\ c.body = <<>> /\ c.answer = "none" /\ ~c.complete
  BY DEF Ready
<1>2. Fit(x) /\ x.body = c.body /\ x.file = c.file /\ x.open = c.open
  BY <1>1, AppendBodyFacts
<1>3. Steady(c, x)
  BY <1>1, AppendBodyFacts
<1>4. /\ x.endHeaders = c.endHeaders /\ x.bodySize = c.bodySize /\ x.oneBody = c.oneBody
      /\ x.answer = "none" /\ ~x.complete /\ x.oneBody
  BY <1>1, <1>3 DEF Steady
<1>5. Extends(c, x)
  BY <1>1, AppendBodyFacts
<1>6. ASSUME x.up PROVE c.up /\ c.open /\ Stored(x) = Stored(c) \o buf
  BY <1>1, <1>6, AppendBodyFacts
<1>7. ASSUME x.up, NEW t \in Seq(Piece), IsSuffix(Pending(c), t)
      PROVE  IsSuffix(Pending(x), t \o buf)
  <2>1. x.open /\ c.open /\ Stored(x) = Stored(c) \o buf
    BY <1>2, <1>6, <1>7
  <2>2. Stored(c) \in Seq(Piece) /\ Stored(x) \in Seq(Piece)
    BY <1>1, <1>2, <2>1, PendingFacts DEF Fit
  <2>3. Pending(c) = Stored(c) /\ Pending(x) = Stored(x)
    BY <1>1, <1>2, <2>1, <2>2, ConcatEmptySeq DEF Pending, Written
  <2> QED
    BY <1>7, <2>1, <2>2, <2>3, SuffixGrows
<1>8. x.up => x.file # "none" /\ Stored(x) = Stored(c) \o buf
  <2> SUFFICES ASSUME x.up PROVE x.file # "none" /\ Stored(x) = Stored(c) \o buf
    OBVIOUS
  <2>1. x.open /\ Stored(x) = Stored(c) \o buf
    BY <1>2, <1>6
  <2> QED
    BY <1>2, <2>1 DEF Fit
<1>9. x.body = <<>>
  BY <1>1, <1>2
<1> QED
  BY <1>2, <1>4, <1>5, <1>6, <1>7, <1>8, <1>9 DEF Took

\* The data of a part.
LEMMA TookInBody ==
  ASSUME NEW c, Ready(c), NEW buf \in Seq(Piece), ~c.oneBody, c.inBody, ~c.finishBody,
         NEW more, more = More(c, buf),
         NEW x, x = HandleInBody(more)
  PROVE  Took(c, buf, x)
<1>1. Fit(c) /\ c.answer = "none" /\ ~c.complete
  BY DEF Ready
<1>2. Fit(more) /\ Stored(more) = Stored(c) /\ Pending(more) = Pending(c) \o buf
  BY <1>1, MoreFacts
<1>3. Steady(c, more)
  BY <1>1, MoreFacts
<1>4. more.inBody = c.inBody /\ more.open = c.open
  BY ZenonT(90), <1>1, MoreFacts
<1>12. more.file = c.file /\ more.at = c.at
  BY <1>1, MoreFacts
<1>5. Within(more, x)
  BY <1>2, HandleInBodyFacts
<1>6. Steady(c, x)
  BY <1>3, <1>5 DEF Steady, Within
<1>7. /\ x.endHeaders = c.endHeaders /\ x.bodySize = c.bodySize /\ x.oneBody = c.oneBody
      /\ x.answer = "none" /\ ~x.complete /\ ~x.oneBody
  BY <1>1, <1>6 DEF Steady
<1>8. Extends(c, x)
  BY <1>2, <1>4, <1>5, <1>12 DEF Extends, Within
<1>9. ASSUME x.up, NEW t \in Seq(Piece), IsSuffix(Pending(c), t)
      PROVE  IsSuffix(Pending(x), t \o buf)
  <2>1. Keeps(more, x)
    BY <1>5, <1>9 DEF Within
  <2> QED
    BY <1>1, <1>2, <1>9, <2>1, KeepsMore
<1>10. x.open => x.inBody
  BY <1>4, <1>5 DEF Within
<1>11. Fit(x)
  BY <1>5 DEF Within
<1>13. ASSUME x.up PROVE c.up
  <2>1. more.up
    BY <1>5, <1>13 DEF Within
  <2>2. more.up = c.up
    BY <1>1, MoreFacts
  <2> QED
    BY <2>1, <2>2
<1> QED
  BY <1>7, <1>8, <1>9, <1>10, <1>11, <1>13 DEF Took

\* The headers of a part.
LEMMA TookHeaders ==
  ASSUME NEW c, Ready(c), NEW buf \in Seq(Piece), ~c.oneBody,
         ~(c.inBody /\ ~c.finishBody),
         NEW more, more = More(c, buf),
         NEW x, x = HandleBodyHeaders(more)
  PROVE  Took(c, buf, x)
<1>1. Fit(c) /\ c.answer = "none" /\ ~c.complete
  BY DEF Ready
<1>2. Fit(more) /\ Pending(more) = Pending(c) \o buf
  BY <1>1, MoreFacts
<1>3. Steady(c, more)
  BY <1>1, MoreFacts
<1>4. more.inBody = c.inBody /\ more.open = c.open /\ more.finishBody = c.finishBody
  BY <1>1, MoreFacts
<1>5. Begins(more, x)
  BY <1>2, HandleBodyHeadersFacts
<1>6. /\ more.endHeaders = c.endHeaders /\ more.bodySize = c.bodySize
      /\ more.oneBody = c.oneBody /\ more.answer = "none" /\ ~more.complete
  BY <1>1, <1>3 DEF Steady
<1>7. /\ x.endHeaders = c.endHeaders /\ x.bodySize = c.bodySize /\ x.oneBody = c.oneBody
      /\ ~x.oneBody
  BY <1>5, <1>6 DEF Begins
<1>8. \/ x.answer = "none" /\ ~x.complete
      \/ x.answer = "500" /\ x.complete /\ ~x.open /\ ~x.oneBody
  BY <1>5, <1>6, <1>7 DEF Begins
<1>9. ASSUME x.up, NEW t \in Seq(Piece), IsSuffix(Pending(c), t)
      PROVE  IsSuffix(Pending(x), t \o buf)
  <2>1. Keeps(more, x)
    BY <1>5, <1>9 DEF Begins
  <2> QED
    BY <1>1, <1>2, <1>9, <2>1, KeepsMore
<1>10. c.open => c.finishBody
  BY DEF Ready
<1>11. ASSUME x.open, ~x.finishBody PROVE x.inBody
  <2> SUFFICES ASSUME ~x.inBody PROVE FALSE
    OBVIOUS
  <2>1. x.finishBody = more.finishBody
    BY <1>5, <1>11 DEF Begins
  <2>2. more.open
    BY <1>5, <1>11 DEF Begins
  <2> QED
    BY <1>4, <1>10, <1>11, <2>1, <2>2
<1>12. Fit(x)
  BY <1>5 DEF Begins
<1>13. ASSUME x.up PROVE c.up
  <2>1. more.up
    BY <1>5, <1>13 DEF Begins
  <2>2. more.up = c.up
    BY <1>1, MoreFacts
  <2> QED
    BY <2>1, <2>2
<1> QED
  BY <1>7, <1>8, <1>9, <1>10, <1>11, <1>12, <1>13 DEF Took

\* buf has been taken and counted, and answered if it was the last of the body.
Posted(c, buf, d) ==
  /\ Fit(d) /\ d.endHeaders = c.endHeaders /\ d.bodySize = c.bodySize - Len(buf)
  /\ d.oneBody = c.oneBody
  /\ d.up => c.up
  /\ d.up => \A t \in Seq(Piece) : IsSuffix(Pending(c), t) => IsSuffix(Pending(d), t \o buf)
  /\ \/ d.answer = "none" /\ ~d.complete /\ d.bodySize > 0
     \/ d.answer = "200" /\ d.complete /\ d.bodySize = 0 /\ ~d.open
     \/ d.answer = "500" /\ d.complete /\ ~d.open /\ ~d.oneBody
  /\ d.open /\ ~d.finishBody => d.oneBody \/ d.inBody
  /\ d.oneBody => d.body = <<>>
  /\ d.oneBody /\ d.up => d.file # "none" /\ Stored(d) = Stored(c) \o buf
  /\ c.open /\ ~c.finishBody => Extends(c, d)

\* What was taken is counted.
LEMMA CountsDown ==
  ASSUME NEW c, Ready(c), NEW buf \in Seq(Piece), Len(buf) <= c.bodySize,
         NEW x, Took(c, buf, x),
         NEW y, y = [x EXCEPT !.bodySize = @ - Len(buf)],
         NEW d, d = IF y.bodySize = 0 THEN UploadDone(y) ELSE y
  PROVE  Posted(c, buf, d)
<1>1. x \in ClientState /\ x.bodySize = c.bodySize /\ c.bodySize \in Nat /\ Len(buf) \in Nat
  <2>1. c.bodySize \in Nat
    BY DEF Ready, Fit, ClientState
  <2>2. x \in ClientState /\ x.bodySize = c.bodySize
    BY DEF Took, Fit
  <2> QED
    BY <2>1, <2>2, LenProperties
<1> DEFINE m == c.bodySize - Len(buf)
<1>2. m \in Nat
  BY <1>1
<1>3. y = [x EXCEPT !.bodySize = m]
  BY <1>1
<1> HIDE DEF m
<1>4. /\ y \in ClientState /\ y.bodySize = m /\ y.file = x.file /\ y.at = x.at
      /\ y.disk = x.disk /\ y.body = x.body /\ y.endHeaders = x.endHeaders
      /\ y.answer = x.answer
  BY <1>1, <1>2, <1>3 DEF ClientState
<1>5. /\ y.up = x.up /\ y.open = x.open /\ y.complete = x.complete
      /\ y.oneBody = x.oneBody /\ y.inBody = x.inBody /\ y.finishBody = x.finishBody
  BY <1>1, <1>3 DEF ClientState
<1>6. Fit(y)
  <2>1. Fit(x)
    BY DEF Took
  <2> QED
    BY <1>4, <1>5, <2>1 DEF Fit
<1>7. Stored(y) = Stored(x) /\ Pending(y) = Pending(x)
  <2>1. Stored(y) = Stored(x)
    BY <1>4 DEF Stored
  <2>2. Written(y) = Written(x)
    BY <1>5, <2>1 DEF Written
  <2> QED
    BY <1>4, <2>1, <2>2 DEF Pending
<1>8. CASE m # 0
  <2>1. d = y
    BY <1>4, <1>8
  <2>2. Extends(c, x) => Extends(c, y)
    BY <1>4, <1>5 DEF Extends
  <2>3. m > 0
    BY <1>2, <1>8
  <2>4. y.endHeaders = c.endHeaders /\ y.bodySize = c.bodySize - Len(buf)
    BY <1>4 DEF Took, m
  <2>12. y.oneBody = c.oneBody
    BY <1>5 DEF Took
  <2>5. ASSUME y.up
        PROVE  \A t \in Seq(Piece) : IsSuffix(Pending(c), t) => IsSuffix(Pending(y), t \o buf)
    BY <1>5, <1>7, <2>5 DEF Took
  <2>6. \/ y.answer = "none" /\ ~y.complete /\ y.bodySize > 0
        \/ y.answer = "500" /\ y.complete /\ ~y.open /\ ~y.oneBody
    BY <1>4, <1>5, <2>3 DEF Took
  <2>7. y.open /\ ~y.finishBody => y.oneBody \/ y.inBody
    BY <1>5 DEF Took
  <2>8. y.oneBody => y.body = <<>>
    BY <1>4, <1>5 DEF Took
  <2>9. ASSUME y.oneBody, y.up PROVE y.file # "none" /\ Stored(y) = Stored(c) \o buf
    BY <1>4, <1>5, <1>7, <2>9 DEF Took
  <2>10. c.open /\ ~c.finishBody => Extends(c, y)
    BY <2>2 DEF Took
  <2>11. ASSUME y.up PROVE c.up
    BY <1>5, <2>11 DEF Took
  <2> QED
    BY <1>6, <2>1, <2>4, <2>5, <2>6, <2>7, <2>8, <2>9, <2>10, <2>11, <2>12 DEF Posted
<1>9. CASE m = 0
  <2>1. d = [y EXCEPT !.open = FALSE, !.answer = "200", !.complete = TRUE]
    BY <1>4, <1>9 DEF UploadDone, CloseFileUpload
  <2>2. /\ d \in ClientState /\ d.bodySize = y.bodySize /\ d.file = y.file /\ d.at = y.at
        /\ d.disk = y.disk /\ d.body = y.body /\ d.endHeaders = y.endHeaders
        /\ d.answer = "200" /\ d.complete /\ ~d.open
    BY ZenonT(90), <1>4, <2>1 DEF ClientState
  <2>3. d.up = y.up /\ d.oneBody = y.oneBody
    BY <1>4, <2>1 DEF ClientState
  <2>4. Fit(d)
    BY <1>6, <2>2 DEF Fit
  <2>5. Keeps(y, d)
    BY <1>6, <2>2, <2>4, PendingCloses
  <2>6. d.endHeaders = c.endHeaders /\ d.bodySize = c.bodySize - Len(buf) /\ d.bodySize = 0
    BY <1>4, <1>9, <2>2 DEF Took, m
  <2>7. ASSUME d.up, NEW t \in Seq(Piece), IsSuffix(Pending(c), t)
        PROVE  IsSuffix(Pending(d), t \o buf)
    <3>1. IsSuffix(Pending(x), t \o buf)
      BY <1>5, <2>3, <2>7 DEF Took
    <3>2. t \o buf \in Seq(Piece)
      BY ConcatProperties
    <3> QED
      BY <1>7, <2>5, <3>1, <3>2 DEF Keeps
  <2>8. d.oneBody => d.body = <<>>
    BY <1>4, <1>5, <2>2, <2>3 DEF Took
  <2>9. ASSUME d.oneBody, d.up PROVE d.file # "none" /\ Stored(d) = Stored(c) \o buf
    <3>1. x.file # "none" /\ Stored(x) = Stored(c) \o buf
      BY <1>5, <2>3, <2>9 DEF Took
    <3>2. Stored(d) = Stored(y)
      BY <2>2 DEF Stored
    <3> QED
      BY <1>4, <1>7, <2>2, <3>1, <3>2
  <2>10. Extends(c, d)
    BY <2>2 DEF Extends
  <2>12. d.oneBody = c.oneBody
    BY <1>5, <2>3 DEF Took
  <2>11. ASSUME d.up PROVE c.up
    BY <1>5, <2>3, <2>11 DEF Took
  <2> QED
    BY <2>2, <2>4, <2>6, <2>7, <2>8, <2>9, <2>10, <2>11, <2>12 DEF Posted
<1> QED
  BY <1>8, <1>9

\* One recv() of a request whose headers have ended.
LEMMA HandlePostFacts ==
  ASSUME NEW c, Ready(c), NEW seg \in Seq(Piece), NEW d, d = HandlePost(c, seg)
  PROVE  Posted(c, SubSeq(seg, 1, Least(Len(seg), c.bodySize)), d)
<1> DEFINE n == Least(Len(seg), c.bodySize)
           buf == SubSeq(seg, 1, n)
<1>1. n \in 0..Len(seg) /\ n <= c.bodySize /\ Len(seg) \in Nat /\ n \in Nat
  <2>1. c.bodySize \in Nat
    BY DEF Ready, Fit, ClientState
  <2>2. Len(seg) \in Nat
    BY LenProperties
  <2> QED
    BY <2>1, <2>2 DEF Least
<1>2. d = HandlePost(c, seg)
  OBVIOUS
<1> DEFINE x == IF c.oneBody THEN AppendBody(c, buf)
                ELSE IF c.inBody /\ ~c.finishBody THEN HandleInBody(More(c, buf))
                ELSE HandleBodyHeaders(More(c, buf))
           y == [x EXCEPT !.bodySize = @ - n]
<1>3. d = IF y.bodySize = 0 THEN UploadDone(y) ELSE y
  BY DEF HandlePost, ToAppend, More
<1> HIDE DEF n
<1>4. buf \in Seq(Piece) /\ Len(buf) = n
  BY <1>1, SubSeqFacts
<1> HIDE DEF buf
<1>5. Took(c, buf, x)
  <2>1. CASE c.oneBody
    BY <1>4, <2>1, TookPlain
  <2>2. CASE ~c.oneBody /\ c.inBody /\ ~c.finishBody
    BY <1>4, <2>2, TookInBody
  <2>3. CASE ~c.oneBody /\ ~(c.inBody /\ ~c.finishBody)
    <3>1. x = HandleBodyHeaders(More(c, buf))
      BY <2>3
    <3> QED
      BY <1>4, <2>3, <3>1, TookHeaders
  <2> QED
    BY <2>1, <2>2, <2>3
<1> HIDE DEF x
<1>6. y = [x EXCEPT !.bodySize = @ - Len(buf)]
  BY <1>4
<1> HIDE DEF y
<1>7. Posted(c, buf, d)
  BY <1>1, <1>3, <1>4, <1>5, <1>6, CountsDown
<1> QED
  BY <1>7 DEF buf, n

----------------------------------------------------------------------------
(* The invariant.  t is what has been received and counts.                 *)

\* The client has seen no end of headers.
Fresh(c) ==
  /\ ~c.endHeaders /\ ~c.complete /\ ~c.open /\ ~c.oneBody /\ ~c.inBody /\ ~c.finishBody
  /\ c.body = <<>> /\ c.answer = "none"

\* Of t nothing is lost that is still on its way; the bytes expected are those of
\* the request that have not come; and a body of one piece is in its file.
Sound(c, t) ==
  /\ IsSuffix(Pending(c), t)
  /\ \/ /\ c.answer = "none" /\ ~c.complete
        /\ c.bodySize > 0 /\ c.bodySize + Len(t) = request.length
     \/ /\ c.answer = "200" /\ c.complete /\ ~c.open
        /\ c.bodySize = 0 /\ Len(t) = request.length
     \/ c.answer \in {"400", "411", "500"} /\ c.complete /\ ~c.open
  /\ c.open /\ ~c.finishBody => c.oneBody \/ c.inBody
  /\ c.oneBody => c.body = <<>>
  /\ c.oneBody /\ c.answer \in {"none", "200"} => c.file # "none" /\ Stored(c) = t

\* The fields are of their types, what is still to come is the rest of the body,
\* and the client, if the process still runs, is sound.
UploadInv ==
  /\ request \in Requests
  /\ rest \in Seq(Piece) /\ Len(rest) <= Len(request.body)
  /\ rest = Drop(Len(request.body) - Len(rest), request.body)
  /\ Fit(client)
  /\ IF client.endHeaders THEN client.up => Sound(client, Counted)
     ELSE Fresh(client) /\ rest = request.body

\* The front of what has come that counts.
LEMMA CountFacts ==
  ASSUME NEW S, NEW b \in Seq(S), NEW k \in 0..Len(b), NEW l \in Nat
  PROVE  /\ SubSeq(b, 1, k) \in Seq(S) /\ Len(SubSeq(b, 1, k)) = k
         /\ SubSeq(SubSeq(b, 1, k), 1, Least(k, l)) = SubSeq(b, 1, Least(k, l))
         /\ SubSeq(b, 1, Least(k, l)) \in Seq(S)
         /\ Len(SubSeq(b, 1, Least(k, l))) = Least(k, l)
<1>1. Len(b) \in Nat
  BY LenProperties
<1>2. SubSeq(b, 1, k) \in Seq(S) /\ Len(SubSeq(b, 1, k)) = k
  BY <1>1, SubSeqFacts
<1> DEFINE m == Least(k, l)
<1>3. m \in 0..k /\ m \in Nat /\ m <= Len(b)
  BY <1>1 DEF Least
<1> HIDE DEF m
<1>4. SubSeq(SubSeq(b, 1, k), 1, m) = SubSeq(b, 1, m)
  BY <1>3, FrontOfFront
<1>5. SubSeq(b, 1, m) \in Seq(S) /\ Len(SubSeq(b, 1, m)) = m
  BY <1>3, SubSeqFacts
<1> QED
  BY <1>2, <1>4, <1>5 DEF m

\* With n more bytes, what counts is what counted, and of them what is still expected.
LEMMA CountGrows ==
  ASSUME NEW S, NEW b \in Seq(S), NEW k \in 0..Len(b), NEW l \in Nat, k <= l,
         NEW n \in 0..(Len(b) - k)
  PROVE  SubSeq(b, 1, Least(k + n, l))
           = SubSeq(b, 1, Least(k, l)) \o SubSeq(SubSeq(Drop(k, b), 1, n), 1, Least(n, l - k))
<1>1. Len(b) \in Nat /\ k \in Nat /\ n \in Nat
  BY LenProperties
<1> DEFINE m == Least(n, l - k)
           d == Drop(k, b)
<1>2. /\ m \in 0..n /\ m \in 0..(Len(b) - k)
      /\ Least(k, l) = k /\ Least(k + n, l) = k + m
  BY <1>1 DEF Least
<1> HIDE DEF m
<1>3. d \in Seq(S) /\ Len(d) = Len(b) - k
  BY <1>1, DropFacts
<1> HIDE DEF d
<1>4. SubSeq(SubSeq(d, 1, n), 1, m) = SubSeq(d, 1, m)
  BY <1>2, <1>3, FrontOfFront
<1>5. SubSeq(b, 1, k) \o SubSeq(Drop(k, b), 1, m) = SubSeq(b, 1, k + m)
  BY <1>2, TakeMore
<1> QED
  BY <1>2, <1>4, <1>5 DEF m, d

\* A client that is sound stays so when more of the body comes.
LEMMA SoundSteps ==
  ASSUME NEW c, Fit(c), NEW t \in Seq(Piece), Sound(c, t), ~c.complete, c.endHeaders,
         NEW seg \in Seq(Piece), NEW d, d = HandlePost(c, seg)
  PROVE  /\ Fit(d) /\ d.endHeaders
         /\ d.up => Sound(d, t \o SubSeq(seg, 1, Least(Len(seg), c.bodySize)))
         /\ c.open /\ ~c.finishBody => Extends(c, d)
         /\ c.answer = "none" /\ c.bodySize + Len(t) = request.length
         /\ d.up => c.up
<1> DEFINE n == Least(Len(seg), c.bodySize)
           buf == SubSeq(seg, 1, n)
<1>1. c.answer = "none" /\ c.bodySize > 0 /\ c.bodySize + Len(t) = request.length
  BY DEF Sound
<1>2. Ready(c)
  BY <1>1 DEF Ready, Sound
<1>3. Posted(c, buf, d)
  BY <1>2, HandlePostFacts
<1>4. c.bodySize \in Nat /\ Len(t) \in Nat
  <2>1. c.bodySize \in Nat
    BY DEF Fit, ClientState
  <2> QED
    BY <2>1, LenProperties
<1>5. buf \in Seq(Piece) /\ Len(buf) = n /\ n \in Nat
  <2>1. Len(seg) \in Nat
    BY LenProperties
  <2>2. n \in Nat /\ n <= Len(seg)
    BY <1>4, <2>1 DEF Least
  <2> HIDE DEF n
  <2> QED
    BY <2>2, SubSeqFacts
<1> HIDE DEF n, buf
<1>6. t \o buf \in Seq(Piece) /\ Len(t \o buf) = Len(t) + Len(buf)
  BY <1>5, ConcatProperties
<1>7. d.bodySize + Len(t \o buf) = request.length
  <2>1. d.bodySize = c.bodySize - Len(buf) /\ Len(buf) \in Nat
    BY <1>3, <1>5 DEF Posted
  <2> QED
    BY <1>1, <1>4, <1>6, <2>1
<1>8. ASSUME d.up PROVE Sound(d, t \o buf)
  <2>1. IsSuffix(Pending(d), t \o buf)
    BY <1>3, <1>8 DEF Posted, Sound
  <2>2. d.bodySize \in Nat
    BY <1>3 DEF Posted, Fit, ClientState
  <2>3. \/ /\ d.answer = "none" /\ ~d.complete
           /\ d.bodySize > 0 /\ d.bodySize + Len(t \o buf) = request.length
        \/ /\ d.answer = "200" /\ d.complete /\ ~d.open
           /\ d.bodySize = 0 /\ Len(t \o buf) = request.length
        \/ d.answer \in {"400", "411", "500"} /\ d.complete /\ ~d.open
    <3>1. CASE d.bodySize = 0
      <4>1. Len(t \o buf) = request.length
        BY <1>4, <1>5, <1>6, <1>7, <3>1
      <4> QED
        BY <1>3, <3>1, <4>1 DEF Posted
    <3>2. CASE d.bodySize # 0
      BY <1>3, <1>7, <3>2 DEF Posted
    <3> QED
      BY <3>1, <3>2
  <2>4. ASSUME d.oneBody PROVE d.file # "none" /\ Stored(d) = t \o buf
    <3>1. d.file # "none" /\ Stored(d) = Stored(c) \o buf
      BY <1>3, <1>8, <2>4 DEF Posted
    <3>2. c.oneBody
      BY <1>3, <2>4 DEF Posted
    <3>3. Stored(c) = t
      BY <1>1, <3>2 DEF Sound
    <3> QED
      BY <3>1, <3>3
  <2>5. d.oneBody => d.body = <<>>
    BY <1>3 DEF Posted
  <2>6. d.open /\ ~d.finishBody => d.oneBody \/ d.inBody
    BY <1>3 DEF Posted
  <2> QED
    BY <2>1, <2>3, <2>4, <2>5, <2>6 DEF Sound
<1>9. Fit(d) /\ d.endHeaders
  BY <1>3 DEF Posted
<1>10. c.open /\ ~c.finishBody => Extends(c, d)
  BY <1>3 DEF Posted
<1>11. d.up => c.up
  BY <1>3 DEF Posted
<1> QED
  BY <1>1, <1>8, <1>9, <1>10, <1>11 DEF buf, n

\* A client to which the body has not begun to come is sound, and one that refuses it.
LEMMA NothingYet ==
  ASSUME request \in Request, NEW c, Fit(c), c.answer = "none", ~c.complete, ~c.oneBody,
         ~c.open, c.body = <<>>, c.bodySize = request.length, c.bodySize > 0
  PROVE  Sound(c, <<>>)
<1>1. Pending(c) = <<>>
  BY ConcatEmptySeq, EmptySeq DEF Pending, Written
<1>2. IsSuffix(Pending(c), <<>>)
  BY <1>1, SuffixReflexive, EmptySeq
<1>3. c.bodySize + Len(<<>>) = request.length
  <2>1. c.bodySize \in Nat
    BY DEF Fit, ClientState
  <2> QED
    BY <2>1, EmptySeq
<1> QED
  BY <1>2, <1>3 DEF Sound

LEMMA RefusedFacts ==
  ASSUME NEW c, Fit(c), ~c.open, c.body = <<>>, c.endHeaders,
         NEW code \in {"400", "411", "500"}, NEW d, d = Refuse(c, code),
         NEW t \in Seq(Piece)
  PROVE  Fit(d) /\ d.endHeaders /\ Sound(d, t)
<1>1. c \in ClientState
  BY DEF Fit
<1>2. d = [c EXCEPT !.answer = code, !.complete = TRUE]
  BY DEF Refuse
<1>3. /\ d \in ClientState /\ d.file = c.file /\ d.at = c.at /\ d.disk = c.disk
      /\ d.answer = code /\ d.complete /\ d.body = c.body /\ d.endHeaders
  BY <1>1, <1>2 DEF ClientState
<1>4. d.open = c.open
  BY <1>1, <1>2 DEF ClientState
<1>5. Fit(d)
  BY <1>3, <1>4 DEF Fit
<1>6. Pending(d) = <<>>
  BY <1>3, <1>4, ConcatEmptySeq, EmptySeq DEF Pending, Written
<1>7. IsSuffix(Pending(d), t)
  BY <1>6, SuffixReflexive
<1>8. d.oneBody => d.body = <<>>
  BY <1>3
<1>9. ~d.open /\ d.answer \in {"400", "411", "500"} /\ d.answer \notin {"none", "200"}
  BY <1>3, <1>4
<1> QED
  BY <1>3, <1>5, <1>7, <1>8, <1>9 DEF Sound

\* The first bytes of a body.
LEMMA BodyBeginsFacts ==
  ASSUME request \in Request, NEW c, Fit(c), c.endHeaders, c.answer = "none", ~c.complete,
         ~c.oneBody, ~c.open, c.body = <<>>, c.bodySize = request.length, c.bodySize > 0,
         NEW seg \in Seq(Piece), NEW d, d = BodyBegins(c, seg)
  PROVE  /\ Fit(d) /\ d.endHeaders
         /\ d.up => Sound(d, SubSeq(seg, 1, Least(Len(seg), request.length)))
<1> DEFINE n == Least(Len(seg), c.bodySize)
           buf == SubSeq(seg, 1, n)
<1>1. c \in ClientState /\ request.length = c.bodySize /\ c.bodySize \in Nat
  BY DEF Fit, ClientState
<1>2. buf \in Seq(Piece) /\ <<>> \o buf = buf /\ <<>> \in Seq(Piece)
  <2>1. Len(seg) \in Nat
    BY LenProperties
  <2>2. n \in Nat /\ n <= Len(seg)
    BY <1>1, <2>1 DEF Least
  <2> HIDE DEF n
  <2>3. buf \in Seq(Piece)
    BY <2>2, SubSeqFacts
  <2> HIDE DEF buf
  <2> QED
    BY <2>3, ConcatEmptySeq, EmptySeq
<1> HIDE DEF n, buf
<1>3. CASE request.kind = "invalid"
  <2>1. d = Refuse(c, "400")
    BY <1>3 DEF BodyBegins
  <2>2. Fit(d) /\ d.endHeaders /\ Sound(d, buf)
    BY <1>2, <2>1, RefusedFacts
  <2> QED
    BY <1>1, <2>2 DEF buf, n
<1>4. CASE request.kind \in {"multipart", "capital"}
  <2> DEFINE e == [c EXCEPT !.boundary = <<Dashes, Given>>,
                            !.endBoundry = <<Dashes, Given, Dashes>>]
  <2>1. d = HandlePost(e, seg)
    BY <1>4 DEF BodyBegins
  <2>2. /\ <<Dashes, Given>> \in Seq(Piece \cup {SmallMark})
        /\ <<Dashes, Given, Dashes>> \in Seq(Piece \cup {SmallMark})
    <3>1. Given \in Piece \cup {SmallMark} /\ Dashes \in Piece \cup {SmallMark}
      BY DEF Given, Piece
    <3> QED
      BY <3>1
  <2>3. /\ e \in ClientState /\ e.file = c.file /\ e.at = c.at /\ e.disk = c.disk
        /\ e.body = c.body /\ e.bodySize = c.bodySize /\ e.answer = c.answer
    BY <1>1, <2>2 DEF ClientState
  <2>4. e.endHeaders /\ ~e.complete /\ ~e.oneBody /\ ~e.open
    BY <1>1 DEF ClientState
  <2> HIDE DEF e
  <2>5. Fit(e)
    BY <2>3, <2>4 DEF Fit
  <2>6. Sound(e, <<>>)
    BY <2>3, <2>4, <2>5, NothingYet
  <2>7. /\ Fit(d) /\ d.endHeaders
        /\ d.up => Sound(d, <<>> \o SubSeq(seg, 1, Least(Len(seg), e.bodySize)))
    BY <1>2, <2>1, <2>4, <2>5, <2>6, SoundSteps
  <2> QED
    BY <1>1, <1>2, <2>3, <2>7 DEF buf, n
<1>5. CASE request.kind = "plain"
  <2> DEFINE e == [c EXCEPT !.oneBody = TRUE]
             g == GenerateTmpFile(e, "dated")
  <2>1. /\ e \in ClientState /\ e.file = c.file /\ e.at = c.at /\ e.disk = c.disk
        /\ e.body = c.body /\ e.bodySize = c.bodySize /\ e.answer = c.answer
    BY <1>1 DEF ClientState
  <2>2. e.endHeaders /\ ~e.complete /\ e.oneBody /\ ~e.open
    BY <1>1 DEF ClientState
  <2> HIDE DEF e
  <2>3. Fit(e)
    BY <2>1, <2>2 DEF Fit
  <2>4. CASE request.store = "unset"
    <3>1. d = Refuse(e, "500")
      BY <1>5, <2>4 DEF BodyBegins, e
    <3>2. Fit(d) /\ d.endHeaders /\ Sound(d, buf)
      BY <1>2, <2>1, <2>2, <2>3, <3>1, RefusedFacts
    <3> QED
      BY <1>1, <3>2 DEF buf, n
  <2>5. CASE request.store # "unset"
    <3>1. d = HandlePost(g, seg)
      BY <1>5, <2>5 DEF BodyBegins, e
    <3>2. CASE request.store = "usable"
      <4>1. g = [e EXCEPT !.file = "dated", !.open = TRUE, !.at = 0]
        BY <3>2 DEF GenerateTmpFile
      <4> HIDE DEF g
      <4>2. /\ g \in ClientState /\ g.file = "dated" /\ g.at = 0 /\ g.disk = c.disk
            /\ g.body = <<>> /\ g.bodySize = c.bodySize /\ g.answer = "none"
        BY <2>1, <4>1 DEF ClientState, Names
      <4>3. g.endHeaders /\ ~g.complete /\ g.oneBody /\ g.open
        BY <2>1, <2>2, <4>1 DEF ClientState
      <4>4. g.disk["dated"] \in Seq(Piece)
        <5>1. c.disk \in [Names -> Seq(Piece)] /\ "dated" \in Names
          BY <1>1 DEF ClientState, Names
        <5> QED
          BY <4>2, <5>1
      <4>5. Len(g.disk["dated"]) \in Nat
        BY <4>4, LenProperties
      <4>6. Fit(g)
        BY <3>2, <4>2, <4>3, <4>5 DEF Fit
      <4>7. Stored(g) = <<>>
        BY <4>2, <4>4, SubSeqEmpty DEF Stored
      <4>8. Pending(g) = <<>>
        BY <4>2, <4>3, <4>7, ConcatEmptySeq, EmptySeq DEF Pending, Written
      <4>9. IsSuffix(Pending(g), <<>>) /\ g.bodySize + Len(<<>>) = request.length
        <5>1. IsSuffix(Pending(g), <<>>)
          BY <1>2, <4>8, SuffixReflexive
        <5>2. g.bodySize = request.length /\ g.bodySize \in Nat
          BY <1>1, <4>2
        <5>3. Len(<<>>) = 0
          BY EmptySeq
        <5> QED
          BY <5>1, <5>2, <5>3
      <4>10. Sound(g, <<>>)
        BY <4>2, <4>3, <4>7, <4>9 DEF Sound
      <4>11. /\ Fit(d) /\ d.endHeaders
             /\ d.up => Sound(d, <<>> \o SubSeq(seg, 1, Least(Len(seg), g.bodySize)))
        BY <1>2, <3>1, <4>3, <4>6, <4>10, SoundSteps
      <4> QED
        BY <1>1, <1>2, <4>2, <4>11 DEF buf, n
    <3>3. CASE request.store # "usable"
      <4>1. g = [e EXCEPT !.up = FALSE]
        BY <3>3 DEF GenerateTmpFile
      <4> HIDE DEF g
      <4>2. /\ g \in ClientState /\ g.file = c.file /\ g.at = c.at /\ g.disk = c.disk
            /\ g.body = <<>> /\ g.bodySize = c.bodySize /\ g.answer = "none"
        BY <2>1, <4>1 DEF ClientState
      <4>3. g.endHeaders /\ ~g.complete /\ ~g.open /\ ~g.up
        BY <2>1, <2>2, <4>1 DEF ClientState
      <4>4. Fit(g)
        BY <4>2, <4>3 DEF Fit
      <4>5. Ready(g)
        BY <4>2, <4>3, <4>4 DEF Ready
      <4>6. Posted(g, SubSeq(seg, 1, Least(Len(seg), g.bodySize)), d)
        BY <3>1, <4>5, HandlePostFacts
      <4>7. Fit(d) /\ d.endHeaders
        BY <4>3, <4>6 DEF Posted
      <4>8. ~d.up
        BY <4>3, <4>6 DEF Posted
      <4> QED
        BY <4>7, <4>8
    <3> QED
      BY <3>2, <3>3
  <2> QED
    BY <2>4, <2>5
<1> QED
  BY <1>3, <1>4, <1>5 DEF Request

\* The segment that ends the headers.
LEMMA HeadersEndFacts ==
  ASSUME request \in Request, Fit(client), Fresh(client), NEW seg \in Seq(Piece),
         NEW d, d = HeadersEnd(seg)
  PROVE  /\ Fit(d) /\ d.endHeaders
         /\ d.up => Sound(d, SubSeq(seg, 1, Least(Len(seg), request.length)))
<1> DEFINE c == [client EXCEPT !.endHeaders = TRUE, !.bodySize = request.length]
           buf == SubSeq(seg, 1, Least(Len(seg), request.length))
<1>1. request.length \in Nat
  BY DEF Request
<1>2. client \in ClientState
  BY DEF Fit
<1>3. /\ c \in ClientState /\ c.file = client.file /\ c.at = client.at
      /\ c.disk = client.disk /\ c.body = <<>> /\ c.answer = "none"
      /\ c.bodySize = request.length
  BY <1>1, <1>2 DEF ClientState, Fresh
<1>4. c.endHeaders /\ ~c.complete /\ ~c.oneBody /\ ~c.open
  BY <1>2 DEF ClientState, Fresh
<1>5. d = IF request.length = 0 THEN Refuse(c, "411")
          ELSE IF seg = <<>> THEN c ELSE BodyBegins(c, seg)
  BY DEF HeadersEnd
<1> HIDE DEF c
<1>6. Fit(c)
  BY <1>3, <1>4 DEF Fit
<1>7. CASE request.length = 0
  <2>1. buf \in Seq(Piece)
    <3>1. Len(seg) \in Nat
      BY LenProperties
    <3> DEFINE m == Least(Len(seg), request.length)
    <3>2. m \in Nat /\ m <= Len(seg)
      BY <1>1, <3>1 DEF Least
    <3> HIDE DEF m
    <3>3. SubSeq(seg, 1, m) \in Seq(Piece)
      BY <3>2, SubSeqFacts
    <3> QED
      BY <3>3 DEF m
  <2> HIDE DEF buf
  <2>2. Fit(d) /\ d.endHeaders /\ Sound(d, buf)
    BY <1>3, <1>4, <1>5, <1>6, <1>7, <2>1, RefusedFacts
  <2> QED
    BY <2>2 DEF buf
<1>8. CASE request.length # 0 /\ seg = <<>>
  <2>1. d = c
    BY <1>5, <1>8
  <2>2. c.bodySize > 0
    BY <1>1, <1>3, <1>8
  <2>3. Sound(c, <<>>)
    BY <1>3, <1>4, <1>6, <2>2, NothingYet
  <2>4. buf = <<>>
    <3>1. Least(Len(seg), request.length) = 0
      BY <1>1, <1>8, EmptySeq DEF Least
    <3> QED
      BY <1>8, <3>1, SubSeqEmpty
  <2> QED
    BY <1>4, <1>6, <2>1, <2>3, <2>4
<1>9. CASE request.length # 0 /\ seg # <<>>
  <2>1. d = BodyBegins(c, seg)
    BY <1>5, <1>9
  <2>2. c.bodySize > 0
    BY <1>1, <1>3, <1>9
  <2> QED
    BY <1>3, <1>4, <1>6, <2>1, <2>2, BodyBeginsFacts
<1> QED
  BY <1>7, <1>8, <1>9

\* What counts of what has come.
LEMMA CountedFacts ==
  ASSUME UploadInv
  PROVE  /\ Counted \in Seq(Piece) /\ request.length \in Nat
         /\ request.body \in Seq(Piece) /\ Len(request.body) \in Nat
         /\ Len(rest) \in 0..Len(request.body)
         /\ Received \in Seq(Piece) /\ Len(Received) = Len(request.body) - Len(rest)
         /\ Counted = SubSeq(request.body, 1, Least(Len(Received), request.length))
         /\ Len(Counted) = Least(Len(Received), request.length)
<1>1. request \in Request
  BY RequestAssumption DEF UploadInv
<1>2. request.length \in Nat /\ request.body \in Seq(Piece) /\ rest \in Seq(Piece)
  BY <1>1 DEF Request, UploadInv
<1>3. Len(request.body) \in Nat /\ Len(rest) \in Nat /\ Len(rest) <= Len(request.body)
  BY <1>2, LenProperties DEF UploadInv
<1> DEFINE b == request.body
           l == request.length
           k == Len(b) - Len(rest)
           r == SubSeq(b, 1, k)
<1>4. b \in Seq(Piece) /\ l \in Nat /\ k \in 0..Len(b)
  BY <1>2, <1>3
<1>5. Received = r /\ Counted = SubSeq(r, 1, Least(Len(r), l))
  BY DEF Received, Counted
<1> HIDE DEF b, l, k, r
<1>6. r = SubSeq(b, 1, k)
  BY DEF r
<1>7. /\ SubSeq(b, 1, k) \in Seq(Piece) /\ Len(SubSeq(b, 1, k)) = k
      /\ SubSeq(SubSeq(b, 1, k), 1, Least(k, l)) = SubSeq(b, 1, Least(k, l))
      /\ SubSeq(b, 1, Least(k, l)) \in Seq(Piece)
      /\ Len(SubSeq(b, 1, Least(k, l))) = Least(k, l)
  BY <1>4, CountFacts
<1>8. /\ Received \in Seq(Piece) /\ Len(Received) = k
      /\ Counted = SubSeq(b, 1, Least(k, l)) /\ Counted \in Seq(Piece)
      /\ Len(Counted) = Least(k, l)
  BY <1>5, <1>6, <1>7
<1>9. Len(rest) \in 0..Len(request.body) /\ k = Len(request.body) - Len(rest)
  BY <1>3 DEF k, b
<1> QED
  BY <1>2, <1>3, <1>8, <1>9 DEF b, l

\* The invariant holds at the start.
LEMMA UploadInit == Init => UploadInv
<1> SUFFICES ASSUME Init PROVE UploadInv
  OBVIOUS
<1>1. request \in Requests /\ request \in Request /\ rest = request.body
  BY RequestAssumption DEF Init
<1>2. request.body \in Seq(Piece)
  BY <1>1 DEF Request
<1>3. Len(request.body) \in Nat
  BY <1>2, LenProperties
<1>4. rest \in Seq(Piece) /\ Len(rest) <= Len(request.body)
      /\ rest = Drop(Len(request.body) - Len(rest), request.body)
  <2>1. Len(request.body) - Len(rest) = 0
    BY <1>1, <1>3
  <2>2. Drop(0, request.body) = request.body
    BY <1>2, DropNothing
  <2> QED
    BY <1>1, <1>2, <1>3, <2>1, <2>2
<1>5. PICK files \in OldFiles : client = NewClient(files)
  BY DEF Init
<1>6. files \in [Names -> Seq(Piece)]
  BY FilesAssumption
<1>7. <<>> \in Seq(Piece) /\ <<>> \in Seq(Piece \cup {SmallMark})
  BY EmptySeq
<1>8. client \in ClientState
  BY <1>5, <1>6, <1>7 DEF NewClient, ClientState
<1>9. Fit(client)
  BY <1>5, <1>8 DEF NewClient, Fit
<1>10. Fresh(client) /\ ~client.endHeaders
  BY <1>5 DEF NewClient, Fresh
<1> QED
  BY <1>1, <1>4, <1>9, <1>10 DEF UploadInv

\* Every segment received keeps it; and of a file that is being written, what is
\* there stays.
LEMMA UploadReceive ==
  ASSUME UploadInv, NEW n \in 0..MaxSegment, Receive(n)
  PROVE  /\ UploadInv'
         /\ client.open /\ client'.up /\ ~client.finishBody => Extends(client, client')
<1> DEFINE seg == SubSeq(rest, 1, n)
           b == request.body
           k == Len(Received)
           l == request.length
<1>1. n \in Nat
  BY SegmentAssumption
<1>2. /\ rest \in Seq(Piece) /\ b \in Seq(Piece) /\ l \in Nat /\ Len(b) \in Nat
      /\ k \in 0..Len(b) /\ Len(rest) = Len(b) - k /\ rest = Drop(k, b)
      /\ n <= Len(rest) /\ n \in 0..(Len(b) - k)
  <2>1. /\ b \in Seq(Piece) /\ l \in Nat /\ Len(b) \in Nat
        /\ Len(rest) \in 0..Len(b) /\ k = Len(b) - Len(rest)
    BY CountedFacts
  <2>2. rest \in Seq(Piece) /\ rest = Drop(Len(b) - Len(rest), b) /\ n <= Len(rest)
    BY DEF UploadInv, Receive
  <2>3. k \in 0..Len(b) /\ Len(rest) = Len(b) - k /\ n \in 0..(Len(b) - k)
    BY <1>1, <2>1, <2>2
  <2> QED
    BY <2>1, <2>2, <2>3
<1>3. /\ Counted = SubSeq(b, 1, Least(k, l)) /\ Counted \in Seq(Piece)
      /\ Len(Counted) = Least(k, l)
  BY CountedFacts
<1>4. request' = request /\ rest' = Drop(n, rest) /\ client' = AppendData(seg)
  BY DEF Receive
<1>5. seg \in Seq(Piece) /\ Len(seg) = n
  BY <1>1, <1>2, SubSeqFacts
<1>6. ~client.complete /\ client.up
  BY DEF Receive
<1>7. /\ rest' \in Seq(Piece) /\ Len(rest') = Len(b) - (k + n)
      /\ rest' = Drop(k + n, b)
  <2>1. Drop(n, Drop(k, b)) = Drop(k + n, b)
    BY <1>2, TakeMore
  <2>2. k + n \in Nat /\ k + n <= Len(b)
    BY <1>1, <1>2
  <2> DEFINE m == k + n
  <2>3. /\ m \in Nat /\ m <= Len(b)
    BY <2>2
  <2> HIDE DEF m
  <2>4. Drop(m, b) \in Seq(Piece) /\ Len(Drop(m, b)) = Len(b) - m
    BY <1>2, <2>3, DropFacts
  <2> QED
    BY <1>2, <1>4, <2>1, <2>4 DEF m
<1> HIDE DEF seg, k
<1>8. Counted' = SubSeq(b, 1, Least(k + n, l))
  <2> DEFINE m == k + n
             r == SubSeq(b, 1, m)
  <2>1. m \in 0..Len(b) /\ Len(b) - Len(rest') = m
    <3>1. k \in Nat /\ n \in Nat /\ Len(b) \in Nat /\ m \in 0..Len(b)
      BY <1>1, <1>2
    <3>2. Len(rest') = Len(b) - m
      BY <1>7
    <3> HIDE DEF m
    <3> QED
      BY <3>1, <3>2
  <2>2. Received' = SubSeq(request'.body, 1, Len(request'.body) - Len(rest'))
    BY DEF Received
  <2>3. Received' = r
    BY <1>4, <2>1, <2>2
  <2>4. Counted' = SubSeq(r, 1, Least(Len(r), l))
    BY <1>4, <2>3 DEF Counted
  <2>5. r = SubSeq(b, 1, m)
    OBVIOUS
  <2> HIDE DEF m, r
  <2>6. /\ Len(SubSeq(b, 1, m)) = m
        /\ SubSeq(SubSeq(b, 1, m), 1, Least(m, l)) = SubSeq(b, 1, Least(m, l))
    BY ZenonT(90), <1>2, <2>1, CountFacts
  <2> QED
    BY <2>4, <2>5, <2>6 DEF m
<1>9. ASSUME k <= l
      PROVE  Counted' = Counted \o SubSeq(seg, 1, Least(n, l - k))
  <2>1. SubSeq(b, 1, Least(k + n, l))
          = SubSeq(b, 1, Least(k, l)) \o SubSeq(SubSeq(Drop(k, b), 1, n), 1, Least(n, l - k))
    BY <1>2, <1>9, CountGrows
  <2>2. seg = SubSeq(Drop(k, b), 1, n)
    BY <1>2 DEF seg
  <2> QED
    BY <1>3, <1>8, <2>1, <2>2
<1>10. CASE client.endHeaders
  <2>1. client' = HandlePost(client, seg)
    BY <1>4, <1>10 DEF AppendData
  <2>2. Fit(client) /\ Sound(client, Counted)
    BY <1>6, <1>10 DEF UploadInv
  <2>3. /\ Fit(client') /\ client'.endHeaders
        /\ client'.up =>
             Sound(client', Counted \o SubSeq(seg, 1, Least(Len(seg), client.bodySize)))
        /\ client.open /\ ~client.finishBody => Extends(client, client')
        /\ client.answer = "none" /\ client.bodySize + Len(Counted) = l
    BY <1>3, <1>5, <1>6, <1>10, <2>1, <2>2, SoundSteps
  <2>4. client.bodySize \in Nat /\ client.bodySize > 0
    BY <2>2, <2>3 DEF Fit, ClientState, Sound
  <2>5. k <= l /\ client.bodySize = l - k
    <3>1. k \in Nat /\ l \in Nat /\ client.bodySize + Least(k, l) = l
      BY <1>2, <1>3, <2>3
    <3> QED
      BY <2>4, <3>1 DEF Least
  <2>6. client'.up => Sound(client', Counted')
    BY <1>5, <1>9, <2>3, <2>5
  <2>7. UploadInv'
    BY <1>2, <1>4, <1>7, <2>3, <2>6 DEF UploadInv, Fit, Sound
  <2> QED
    BY <2>3, <2>7
<1>11. CASE ~client.endHeaders
  <2>1. client' = HeadersEnd(seg)
    BY <1>4, <1>11 DEF AppendData
  <2>2. Fit(client) /\ Fresh(client) /\ rest = b /\ request \in Request
    BY <1>11, RequestAssumption DEF UploadInv
  <2>3. /\ Fit(client') /\ client'.endHeaders
        /\ client'.up => Sound(client', SubSeq(seg, 1, Least(Len(seg), l)))
    BY <1>5, <2>1, <2>2, HeadersEndFacts
  <2>4. k = 0 /\ k <= l
    BY <1>2, <2>2
  <2>5. Counted = <<>>
    <3>1. Least(k, l) = 0
      BY <1>2, <2>4 DEF Least
    <3> QED
      BY <1>2, <1>3, <3>1, SubSeqEmpty
  <2>6. Counted' = SubSeq(seg, 1, Least(n, l))
    <3>1. Counted' = <<>> \o SubSeq(seg, 1, Least(n, l - k))
      BY <1>9, <2>4, <2>5
    <3> DEFINE m == Least(n, l)
    <3>2. m \in Nat /\ m <= Len(seg) /\ l - k = l
      BY <1>1, <1>2, <1>5, <2>4 DEF Least
    <3> HIDE DEF m
    <3>3. SubSeq(seg, 1, m) \in Seq(Piece)
      BY <1>5, <3>2, SubSeqFacts
    <3> QED
      BY <3>1, <3>2, <3>3, ConcatEmptySeq DEF m
  <2>9. client'.up => Sound(client', Counted')
    BY <1>5, <2>3, <2>6
  <2>7. UploadInv'
    BY <1>2, <1>4, <1>7, <2>3, <2>9 DEF UploadInv, Fit, Sound
  <2>8. ~client.open
    BY <2>2 DEF Fresh
  <2> QED
    BY <2>7, <2>8
<1> QED
  BY <1>10, <1>11

\* No step breaks it.
LEMMA UploadNext == UploadInv /\ [Next]_vars => UploadInv'
<1> SUFFICES ASSUME UploadInv, [Next]_vars PROVE UploadInv'
  OBVIOUS
<1>1. CASE Next
  BY <1>1, UploadReceive DEF Next
<1>2. CASE UNCHANGED vars
  BY <1>2 DEF vars, UploadInv, Fit, Fresh, Sound, Counted, Received
<1> QED
  BY <1>1, <1>2

\* It always holds.
LEMMA UploadAlways == Spec => []UploadInv
BY UploadInit, UploadNext, PTL DEF Spec

----------------------------------------------------------------------------
(* Theorems.                                                               *)

\* Whatever is uploaded, the fields of the Client and of its Request keep their
\* types, and the file written to has a name (srcs/Client.cpp, srcs/POST.cpp).
THEOREM UploadTyped == Spec => []TypeOK
<1>1. UploadInv => TypeOK
  BY DEF UploadInv, TypeOK, Fit
<1> QED
  BY <1>1, UploadAlways, PTL

\* Wherever TCP cuts the body and whatever is in it, what handleInBody has written of
\* a part and what it keeps back are the end of what has been received.
THEOREM UploadLosesNothing == Spec => []NothingLost
<1>1. UploadInv => NothingLost
  <2> SUFFICES ASSUME UploadInv, client.up, client.open
               PROVE  IsSuffix(SubSeq(client.disk[client.file], 1, client.at)
                                 \o client.body, Counted)
    BY DEF NothingLost
  <2>1. client.endHeaders /\ Sound(client, Counted)
    BY DEF UploadInv, Fresh
  <2>2. IsSuffix(Pending(client), Counted)
    BY <2>1 DEF Sound
  <2> QED
    BY <2>2 DEF Pending, Written, Stored
<1> QED
  BY <1>1, UploadAlways, PTL

\* handlePost answers "Upload done." with the last byte of Content-Length, neither
\* sooner nor later, and what it completes has closed its file.
THEOREM UploadCompletes == Spec => []CompletesExactly
<1>1. UploadInv => CompletesExactly
  <2> SUFFICES ASSUME UploadInv, client.up, client.endHeaders
               PROVE  /\ client.answer \in {"none", "200"} =>
                           (client.complete <=> Len(Received) >= request.length)
                      /\ client.complete => ~client.open
    BY DEF CompletesExactly
  <2>1. Sound(client, Counted)
    BY DEF UploadInv
  <2>2. /\ request.length \in Nat /\ Len(Received) \in Nat
        /\ Len(Counted) = Least(Len(Received), request.length)
    <3>1. /\ request.length \in Nat /\ Received \in Seq(Piece)
          /\ Len(Counted) = Least(Len(Received), request.length)
      BY CountedFacts
    <3> QED
      BY <3>1, LenProperties
  <2>3. client.bodySize \in Nat
    BY DEF UploadInv, Fit, ClientState
  <2>4. CASE client.answer = "none"
    <3>1. ~client.complete /\ client.bodySize > 0
          /\ client.bodySize + Len(Counted) = request.length
      BY <2>1, <2>4 DEF Sound
    <3>2. ~(Len(Received) >= request.length)
      BY <2>2, <2>3, <3>1 DEF Least
    <3> QED
      BY <3>1, <3>2
  <2>5. CASE client.answer = "200"
    <3>1. client.complete /\ ~client.open /\ Len(Counted) = request.length
      BY <2>1, <2>5 DEF Sound
    <3>2. Len(Received) >= request.length
      BY <2>2, <3>1 DEF Least
    <3> QED
      BY <3>1, <3>2
  <2>6. CASE client.answer \notin {"none", "200"}
    BY <2>1, <2>6 DEF Sound
  <2> QED
    BY <2>4, <2>5, <2>6
<1> QED
  BY <1>1, UploadAlways, PTL

\* Until the end of a body is met, the Request's upload file is not replaced, and
\* what appendBody has written of it stays as it is.
THEOREM UploadOnlyGrows == Spec => OnlyGrows
<1> DEFINE Grows == client.open /\ client'.open /\ client'.up /\ ~client.finishBody =>
              /\ client'.file = client.file /\ client'.at >= client.at
              /\ SubSeq(client'.disk[client.file], 1, client.at)
                   = SubSeq(client.disk[client.file], 1, client.at)
<1>1. UploadInv /\ [Next]_vars => [Grows]_vars
  <2>1. ASSUME UploadInv, Next PROVE Grows
    <3>1. PICK n \in 0..MaxSegment : Receive(n)
      BY <2>1 DEF Next
    <3>2. client.open /\ client'.up /\ ~client.finishBody => Extends(client, client')
      BY <2>1, <3>1, UploadReceive
    <3> QED
      BY <3>2 DEF Extends, Stored
  <2> QED
    BY <2>1
<1>2. UploadInv /\ UploadInv' /\ [Next]_vars => [Grows]_vars
  BY <1>1
<1> QED
  BY <1>2, UploadAlways, PTL DEF Spec, OnlyGrows

----------------------------------------------------------------------------
(* What is answered "Upload done." is in its file as it was sent.          *)

\* The multipart bodies of one part are what clients make them: a boundary, the
\* headers of the part, the blank line, its data and the closing boundary.
MadeOf(b, h, d) ==
  /\ ~Found(<<Blank>>, h)
  /\ b = ((Delimiter \o h) \o <<Blank>>) \o (d \o <<Dashes, Mark, Dashes>>)
HasOnePart(b) == Cardinality(Occurrences(Delimiter, b)) = 2
WellMade ==
  \A r \in Requests :
    r.kind = "multipart" /\ HasOnePart(r.body) =>
      \E h, d \in Seq(Piece) : MadeOf(r.body, h, d)

\* Where the data of a part start and end.
Shape(b, p, e) ==
  /\ b \in Seq(Piece) /\ p \in Nat /\ e \in Nat /\ 3 <= p /\ p <= e /\ Len(b) = e + 3
  /\ b[1] = Dashes /\ b[2] = Mark
  /\ b[p] = Blank /\ \A i \in 1..(p - 1) : b[i] # Blank
  /\ b[e + 1] = Dashes /\ b[e + 2] = Mark /\ b[e + 3] = Dashes
  /\ \A i \in 2..(e + 2) : i # e + 1 => ~(b[i] = Dashes /\ b[i + 1] = Mark)

\* A set of two members has no third.
LEMMA TwoMembers ==
  ASSUME NEW T, IsFiniteSet(T), Cardinality(T) = 2, NEW x \in T, NEW y \in T, x # y,
         NEW z \in T
  PROVE  z = x \/ z = y
<1> SUFFICES ASSUME z # x, z # y PROVE FALSE
  OBVIOUS
<1>1. IsFiniteSet({}) /\ Cardinality({}) = 0
  BY FS_EmptySet
<1>2. IsFiniteSet({x}) /\ Cardinality({x}) = 1
  BY FS_Singleton
<1>3. IsFiniteSet({x} \cup {y}) /\ Cardinality({x} \cup {y}) = 2
  <2> DEFINE one == {x}
  <2>1. IsFiniteSet(one) /\ Cardinality(one) = 1 /\ y \notin one
    BY <1>2
  <2> HIDE DEF one
  <2>2. IsFiniteSet(one \cup {y}) /\ Cardinality(one \cup {y}) = 1 + 1
    BY <2>1, FS_AddElement
  <2> QED
    BY <2>2 DEF one
<1>4. Cardinality(({x} \cup {y}) \cup {z}) = 3
  <2> DEFINE two == {x} \cup {y}
  <2>1. IsFiniteSet(two) /\ Cardinality(two) = 2 /\ z \notin two
    BY <1>3
  <2> HIDE DEF two
  <2>2. Cardinality(two \cup {z}) = 2 + 1
    BY <2>1, FS_AddElement
  <2> QED
    BY <2>2 DEF two
<1>5. ({x} \cup {y}) \cup {z} \subseteq T
  OBVIOUS
<1>6. Cardinality(({x} \cup {y}) \cup {z}) <= Cardinality(T)
  BY <1>5, FS_Subset
<1> QED
  BY <1>4, <1>6

\* The shape of a body of one part, and its data.
LEMMA ShapeFacts ==
  ASSUME NEW b, NEW h \in Seq(Piece), NEW d \in Seq(Piece), MadeOf(b, h, d), HasOnePart(b)
  PROVE  \E p, e : Shape(b, p, e) /\ Max(Occurrences(Delimiter, b)) - 1 = e
<1>1. Dashes \in Piece /\ Mark \in Piece /\ Blank \in Piece
      /\ Blank # Dashes /\ Blank # Mark /\ Dashes # Mark
  BY DEF Piece, Dashes, Mark, Blank
<1>2. Len(h) \in Nat /\ Len(d) \in Nat
  BY LenProperties
<1> DEFINE u == Delimiter \o h
           v == u \o <<Blank>>
           w == d \o <<Dashes, Mark, Dashes>>
           p == Len(h) + 3
           e == p + Len(d)
<1>3. /\ u \in Seq(Piece) /\ Len(u) = Len(h) + 2
      /\ u[1] = Dashes /\ u[2] = Mark /\ \A i \in 3..(Len(h) + 2) : u[i] = h[i - 2]
  <2> DEFINE a == Delimiter
  <2>1. a \in Seq(Piece) /\ Len(a) = 2 /\ a[1] = Dashes /\ a[2] = Mark
    BY <1>1 DEF Delimiter
  <2> HIDE DEF a
  <2>2. /\ a \o h \in Seq(Piece) /\ Len(a \o h) = Len(a) + Len(h)
        /\ \A i \in 1..(Len(a) + Len(h)) :
             (a \o h)[i] = IF i <= Len(a) THEN a[i] ELSE h[i - Len(a)]
    BY <2>1, ConcatProperties
  <2>3. u = a \o h
    BY DEF a
  <2> HIDE DEF u
  <2>4. u \in Seq(Piece) /\ Len(u) = Len(h) + 2
    BY <1>2, <2>1, <2>2, <2>3
  <2>5. \A i \in 1..(Len(h) + 2) : u[i] = IF i <= 2 THEN a[i] ELSE h[i - 2]
    BY <1>2, <2>1, <2>2, <2>3
  <2>6. u[1] = Dashes /\ u[2] = Mark
    BY <1>2, <2>1, <2>5
  <2>7. \A i \in 3..(Len(h) + 2) : u[i] = h[i - 2]
    BY <1>2, <2>5
  <2> QED
    BY <2>4, <2>6, <2>7
<1> HIDE DEF u
<1>4. /\ v \in Seq(Piece) /\ Len(v) = p /\ v[p] = Blank
      /\ \A i \in 1..(p - 1) : v[i] = u[i]
  <2> DEFINE a == <<Blank>>
  <2>1. a \in Seq(Piece) /\ Len(a) = 1 /\ a[1] = Blank
    BY <1>1
  <2> HIDE DEF a
  <2>2. /\ u \o a \in Seq(Piece) /\ Len(u \o a) = Len(u) + Len(a)
        /\ \A i \in 1..(Len(u) + Len(a)) :
             (u \o a)[i] = IF i <= Len(u) THEN u[i] ELSE a[i - Len(u)]
    BY <1>3, <2>1, ConcatProperties
  <2>3. v = u \o a
    BY DEF a
  <2> HIDE DEF v
  <2>4. v \in Seq(Piece) /\ Len(v) = p
    BY <1>2, <1>3, <2>1, <2>2, <2>3
  <2>5. \A i \in 1..p : v[i] = IF i <= p - 1 THEN u[i] ELSE a[i - (p - 1)]
    BY <1>2, <1>3, <2>1, <2>2, <2>3
  <2>6. v[p] = Blank
    BY <1>2, <2>1, <2>5
  <2>7. \A i \in 1..(p - 1) : v[i] = u[i]
    BY <1>2, <2>5
  <2> QED
    BY <2>4, <2>6, <2>7
<1> HIDE DEF v
<1>5. /\ w \in Seq(Piece) /\ Len(w) = Len(d) + 3
      /\ w[Len(d) + 1] = Dashes /\ w[Len(d) + 2] = Mark /\ w[Len(d) + 3] = Dashes
  <2> DEFINE a == <<Dashes, Mark, Dashes>>
  <2>1. a \in Seq(Piece) /\ Len(a) = 3 /\ a[1] = Dashes /\ a[2] = Mark /\ a[3] = Dashes
    BY <1>1
  <2> HIDE DEF a
  <2>2. /\ d \o a \in Seq(Piece) /\ Len(d \o a) = Len(d) + Len(a)
        /\ \A i \in 1..(Len(d) + Len(a)) :
             (d \o a)[i] = IF i <= Len(d) THEN d[i] ELSE a[i - Len(d)]
    BY <2>1, ConcatProperties
  <2>3. w = d \o a
    BY DEF a
  <2> HIDE DEF w
  <2>4. w \in Seq(Piece) /\ Len(w) = Len(d) + 3
    BY <1>2, <2>1, <2>2, <2>3
  <2>5. \A i \in 1..(Len(d) + 3) : w[i] = IF i <= Len(d) THEN d[i] ELSE a[i - Len(d)]
    BY <1>2, <2>1, <2>2, <2>3
  <2>6. ASSUME NEW k \in 1..3 PROVE w[Len(d) + k] = a[k]
    <3>1. Len(d) + k \in 1..(Len(d) + 3) /\ ~(Len(d) + k <= Len(d)) /\ (Len(d) + k) - Len(d) = k
      BY <1>2
    <3> QED
      BY <2>5, <3>1
  <2>7. w[Len(d) + 1] = a[1] /\ w[Len(d) + 2] = a[2] /\ w[Len(d) + 3] = a[3]
    BY <2>6
  <2> QED
    BY <2>1, <2>4, <2>7
<1>6. b = v \o w
  BY DEF u, v, MadeOf
<1> HIDE DEF w
<1>7. /\ b \in Seq(Piece) /\ Len(b) = e + 3
      /\ \A i \in 1..(e + 3) : b[i] = IF i <= p THEN v[i] ELSE w[i - p]
  <2>1. /\ v \o w \in Seq(Piece) /\ Len(v \o w) = Len(v) + Len(w)
        /\ \A i \in 1..(Len(v) + Len(w)) :
             (v \o w)[i] = IF i <= Len(v) THEN v[i] ELSE w[i - Len(v)]
    BY <1>4, <1>5, ConcatProperties
  <2>2. Len(v) + Len(w) = e + 3
    BY <1>2, <1>4, <1>5
  <2> QED
    BY <1>4, <1>6, <2>1, <2>2
<1>8. p \in Nat /\ e \in Nat /\ 3 <= p /\ p <= e
  BY <1>2
<1>9. b[1] = Dashes /\ b[2] = Mark /\ b[p] = Blank
  <2>1. 1 \in 1..(e + 3) /\ 2 \in 1..(e + 3) /\ p \in 1..(e + 3) /\ 1 <= p /\ 2 <= p
        /\ 1 \in 1..(p - 1) /\ 2 \in 1..(p - 1)
    BY <1>8
  <2> HIDE DEF p, e
  <2>2. b[1] = v[1] /\ b[2] = v[2] /\ b[p] = v[p]
    BY <1>7, <1>8, <2>1
  <2>3. v[1] = u[1] /\ v[2] = u[2]
    BY <1>4, <2>1
  <2> QED
    BY <1>3, <1>4, <2>2, <2>3
<1>10. ASSUME NEW i \in 1..(p - 1) PROVE b[i] # Blank
  <2>1. b[i] = u[i]
    BY <1>4, <1>7, <1>8
  <2>2. CASE i <= 2
    <3>1. i = 1 \/ i = 2
      BY <1>2, <2>2
    <3> QED
      BY <1>1, <1>3, <2>1, <3>1
  <2>3. CASE i > 2
    <3>1. i \in 3..(Len(h) + 2) /\ i - 2 \in 1..Len(h)
      BY <1>2, <2>3
    <3>2. u[i] = h[i - 2]
      BY <1>3, <3>1
    <3>3. h[i - 2] # Blank
      BY <1>1, <3>1, OccursOne DEF Found, MadeOf
    <3> QED
      BY <2>1, <3>2, <3>3
  <2> QED
    BY <1>2, <2>2, <2>3
<1>11. b[e + 1] = Dashes /\ b[e + 2] = Mark /\ b[e + 3] = Dashes
  <2>1. ASSUME NEW k \in 1..3 PROVE b[e + k] = w[Len(d) + k]
    <3>1. e + k \in 1..(e + 3) /\ ~(e + k <= p) /\ (e + k) - p = Len(d) + k
      BY <1>2
    <3> QED
      BY <1>7, <3>1
  <2>2. b[e + 1] = w[Len(d) + 1] /\ b[e + 2] = w[Len(d) + 2] /\ b[e + 3] = w[Len(d) + 3]
    BY <2>1
  <2> QED
    BY <1>5, <2>2
<1> HIDE DEF p, e
<1> DEFINE T == Occurrences(Delimiter, b)
<1>12. \A i : i \in T <=> i \in 1..(e + 2) /\ b[i] = Dashes /\ b[i + 1] = Mark
  <2>1. \A i : i \in T <=> i \in 1..(Len(b) - 1) /\ b[i] = Dashes /\ b[i + 1] = Mark
    BY <1>1, <1>7, OccursTwo DEF Delimiter
  <2> QED
    BY <1>7, <1>8, <2>1
<1>13. 1 \in T /\ e + 1 \in T /\ 1 # e + 1
  <2>1. 1 \in 1..(e + 2) /\ e + 1 \in 1..(e + 2) /\ (e + 1) + 1 = e + 2 /\ 1 + 1 = 2
    BY <1>8
  <2> QED
    BY <1>8, <1>9, <1>11, <1>12, <2>1
<1>14. IsFiniteSet(T)
  <2>1. T \subseteq 1..(e + 2) /\ IsFiniteSet(1..(e + 2))
    BY <1>8, <1>12, FS_Interval
  <2> QED
    BY <2>1, FS_Subset
<1>15. \A i \in T : i = 1 \/ i = e + 1
  BY <1>13, <1>14, TwoMembers DEF HasOnePart
<1>16. Max(T) = e + 1
  <2>1. T \in SUBSET Nat /\ T # {} /\ \A i \in T : i <= e + 2 /\ e + 2 \in Nat
    BY <1>8, <1>12, <1>13
  <2>2. Max(T) \in T /\ \A i \in T : i <= Max(T)
    BY <1>8, <2>1, MaxFacts
  <2>3. Max(T) \in Nat /\ e + 1 <= Max(T)
    BY <1>13, <2>1, <2>2
  <2> QED
    BY <1>8, <1>15, <2>2, <2>3
<1>17. \A i \in 2..(e + 2) : i # e + 1 => ~(b[i] = Dashes /\ b[i + 1] = Mark)
  <2> TAKE i \in 2..(e + 2)
  <2>1. i \in 1..(e + 2) /\ i # 1
    BY <1>8
  <2> QED
    BY <1>12, <1>15, <2>1
<1>18. Shape(b, p, e)
  BY <1>7, <1>8, <1>9, <1>10, <1>11, <1>17 DEF Shape
<1>19. Max(T) - 1 = e
  BY <1>8, <1>16
<1> QED
  BY <1>18, <1>19

\* The data of a part, element by element.
LEMMA DataFacts ==
  ASSUME NEW b, NEW p, NEW e, Shape(b, p, e)
  PROVE  LET data == Behind(<<Blank>>, SubSeq(b, 1, e)) IN
         /\ data \in Seq(Piece) /\ Len(data) = e - p
         /\ \A i \in 1..(e - p) : data[i] = b[p + i]
         /\ ~Found(<<Blank>>, data) => \A i \in (p + 1)..(e + 3) : b[i] # Blank
<1>1. /\ b \in Seq(Piece) /\ p \in Nat /\ e \in Nat /\ 3 <= p /\ p <= e /\ Len(b) = e + 3
      /\ b[p] = Blank /\ \A i \in 1..(p - 1) : b[i] # Blank
      /\ b[e + 1] = Dashes /\ b[e + 2] = Mark /\ b[e + 3] = Dashes
  BY DEF Shape
<1>2. Blank \in Piece /\ Blank # Dashes /\ Blank # Mark
  BY DEF Piece, Dashes, Mark, Blank
<1> DEFINE u == SubSeq(b, 1, e)
           q == <<Blank>>
           data == Behind(q, u)
<1>3. u \in Seq(Piece) /\ Len(u) = e /\ \A i \in 1..e : u[i] = b[i]
  BY <1>1, SubSeqFacts
<1>4. q \in Seq(Piece) /\ Len(q) = 1
  BY <1>2
<1>5. \A i : i \in Occurrences(q, u) <=> i \in 1..e /\ u[i] = Blank
  BY ZenonT(90), <1>2, <1>3, OccursOne
<1> HIDE DEF u, q
<1>6. p \in Occurrences(q, u) /\ \A i \in Occurrences(q, u) : p <= i
  <2>1. p \in 1..e /\ u[p] = Blank
    BY <1>1, <1>3
  <2>2. ASSUME NEW i \in Occurrences(q, u) PROVE p <= i
    <3>1. i \in 1..e /\ u[i] = Blank
      BY <1>5
    <3>2. b[i] = Blank
      BY <1>3, <3>1
    <3>3. i \notin 1..(p - 1)
      BY <1>1, <3>2
    <3> QED
      BY <1>1, <3>1, <3>3
  <2> QED
    BY <1>5, <2>1, <2>2
<1>7. Found(q, u) /\ Find(q, u) = p
  BY <1>3, <1>4, <1>6, FoundAt
<1>8. From(q, u) = Drop(p - 1, u)
  <2>1. From(q, u) = SubSeq(u, p, Len(u)) /\ (p - 1) + 1 = p
    BY <1>1, <1>7 DEF From
  <2> QED
    BY <2>1 DEF Drop
<1>9. data = Drop(1, Drop(p - 1, u))
  BY <1>4, <1>8 DEF Behind
<1>10. Drop(1, Drop(p - 1, u)) = Drop(p, u)
  <2>1. p - 1 \in 0..Len(u) /\ 1 \in 0..(Len(u) - (p - 1)) /\ (p - 1) + 1 = p
    BY <1>1, <1>3
  <2>2. Drop(1, Drop(p - 1, u)) = Drop((p - 1) + 1, u)
    BY <1>3, <2>1, TakeMore
  <2> QED
    BY <2>1, <2>2
<1>11. /\ Drop(p, u) \in Seq(Piece) /\ Len(Drop(p, u)) = e - p
       /\ \A i \in 1..(e - p) : Drop(p, u)[i] = u[p + i]
  <2>1. /\ Drop(p, u) \in Seq(Piece)
        /\ Len(Drop(p, u)) = IF p <= Len(u) THEN Len(u) - p ELSE 0
        /\ \A i \in 1..(Len(u) - p) : Drop(p, u)[i] = u[p + i]
    BY <1>1, <1>3, DropFacts
  <2> QED
    BY <1>1, <1>3, <2>1
<1> HIDE DEF data
<1>12. data \in Seq(Piece) /\ Len(data) = e - p
  BY <1>9, <1>10, <1>11
<1>13. \A i \in 1..(e - p) : data[i] = b[p + i]
  <2> TAKE i \in 1..(e - p)
  <2>1. data[i] = u[p + i] /\ p + i \in 1..e
    BY <1>1, <1>9, <1>10, <1>11
  <2> QED
    BY <1>3, <2>1
<1>14. ASSUME ~Found(q, data), NEW i \in (p + 1)..(e + 3) PROVE b[i] # Blank
  <2>1. \A j : j \in Occurrences(q, data) <=> j \in 1..(e - p) /\ data[j] = Blank
    BY <1>2, <1>12, OccursOne DEF q
  <2>2. CASE i <= e
    <3>1. i - p \in 1..(e - p) /\ p + (i - p) = i
      BY <1>1, <2>2
    <3>2. data[i - p] # Blank /\ data[i - p] = b[i]
      BY <1>13, <1>14, <2>1, <3>1 DEF Found
    <3> QED
      BY <3>2
  <2>3. CASE i > e
    <3>1. i = e + 1 \/ i = e + 2 \/ i = e + 3
      BY <1>1, <2>3
    <3> QED
      BY <1>1, <1>2, <3>1
  <2> QED
    BY <1>1, <2>2, <2>3
<1> QED
  BY <1>12, <1>13, <1>14 DEF data, u, q

----------------------------------------------------------------------------
(* The phases in which such a body is received.  k pieces of b have come.  *)

\* Its boundaries are those of the body, which it is parsing.
Parses(c) ==
  /\ Fit(c) /\ ~c.oneBody
  /\ c.boundary = <<Dashes, Mark>> /\ c.endBoundry = <<Dashes, Mark, Dashes>>

\* No blank line has come.
InHeaders(c, b, p, k) ==
  /\ c.file = "none" /\ ~c.open /\ ~c.inBody /\ ~c.finishBody
  /\ k < p /\ Len(c.body) = k /\ \A i \in 1..k : c.body[i] = b[i]

\* It has, but behind it there is a filename= that no line end follows.
Unnamed(c, b, e, k) ==
  /\ c.file = "none" /\ ~c.open /\ c.inBody /\ ~c.finishBody
  /\ 2 <= k /\ k < e + 3 /\ Len(c.body) = k /\ \A i \in 1..k : c.body[i] = b[i]

\* The data are written as far as a boundary cannot begin in them.
InData(c, b, p, e, k) ==
  /\ c.file # "none" /\ c.open /\ c.inBody /\ ~c.finishBody
  /\ k < e + 3 /\ c.at <= e - p /\ c.at + Len(c.body) = k - p
  /\ \A i \in 1..c.at : Stored(c)[i] = b[p + i]
  /\ \A i \in 1..Len(c.body) : c.body[i] = b[p + c.at + i]

\* They are all written.
DataStored(c, b, p, e, k) ==
  /\ c.file # "none" /\ ~c.open /\ ~c.inBody
  /\ p <= k /\ c.at = e - p
  /\ \A i \in 1..c.at : Stored(c)[i] = b[p + i]
  /\ \A i \in 1..Len(c.body) : c.body[i] # Blank

\* n pieces of s are those of b behind the first o.
Copies(s, n, b, o) == \A i \in 1..n : s[i] = b[o + i]

\* They are all written, and of what follows them as much as was taken for data.
Spilled(c, b, p, e, k) ==
  /\ c.file # "none" /\ c.inBody /\ ~c.finishBody
  /\ c.at > e - p /\ c.at + Len(c.body) = k - p
  /\ Copies(Stored(c), c.at, b, p) /\ Copies(c.body, Len(c.body), b, p + c.at)

Exact(c, b, p, e, k) ==
  \/ InHeaders(c, b, p, k)
  \/ Unnamed(c, b, e, k)
  \/ InData(c, b, p, e, k)
  \/ DataStored(c, b, p, e, k)

Phase(c, b, p, e, k) == Exact(c, b, p, e, k) \/ Spilled(c, b, p, e, k)

\* No blank line follows the one that ends the headers.
NoBlank(b, p, e) == \A i \in (p + 1)..(e + 3) : b[i] # Blank

\* The next n pieces.
Comes(b, p, e, k, n, seg) ==
  /\ Shape(b, p, e) /\ k \in Nat /\ n \in Nat /\ n >= 1 /\ k + n <= e + 3
  /\ seg \in Seq(Piece) /\ Len(seg) = n /\ \A i \in 1..n : seg[i] = b[k + i]

\* What is to be looked at when they have come.
LEMMA MoreOfBody ==
  ASSUME NEW c, Parses(c), NEW seg \in Seq(Piece), NEW m, m = More(c, seg)
  PROVE  /\ Parses(m) /\ Stored(m) = Stored(c) /\ m.file = c.file /\ m.at = c.at
         /\ m.open = c.open /\ m.inBody = c.inBody /\ m.finishBody = c.finishBody
         /\ m.body \in Seq(Piece) /\ c.body \in Seq(Piece)
         /\ Len(m.body) = Len(c.body) + Len(seg)
         /\ \A i \in 1..(Len(c.body) + Len(seg)) :
              m.body[i] = IF i <= Len(c.body) THEN c.body[i] ELSE seg[i - Len(c.body)]
<1>1. Fit(c) /\ c \in ClientState
  BY DEF Parses, Fit
<1>2. c.body \in Seq(Piece) /\ m.body = c.body \o seg
  BY <1>1 DEF More, ClientState
<1>3. /\ c.body \o seg \in Seq(Piece)
      /\ Len(c.body \o seg) = Len(c.body) + Len(seg)
      /\ \A i \in 1..(Len(c.body) + Len(seg)) :
           (c.body \o seg)[i] = IF i <= Len(c.body) THEN c.body[i] ELSE seg[i - Len(c.body)]
  <2> DEFINE s == c.body
  <2>1. s \in Seq(Piece)
    BY <1>2
  <2> HIDE DEF s
  <2>2. /\ s \o seg \in Seq(Piece) /\ Len(s \o seg) = Len(s) + Len(seg)
        /\ \A i \in 1..(Len(s) + Len(seg)) :
             (s \o seg)[i] = IF i <= Len(s) THEN s[i] ELSE seg[i - Len(s)]
    BY <2>1, ConcatProperties
  <2> QED
    BY <2>2 DEF s
<1>4. Fit(m) /\ Stored(m) = Stored(c)
  BY <1>1, MoreFacts
<1>5. Steady(c, m)
  BY <1>1, MoreFacts
<1>6. m.file = c.file /\ m.at = c.at
  BY <1>1, MoreFacts
<1>7. m.open = c.open /\ m.inBody = c.inBody /\ m.finishBody = c.finishBody
  BY <1>1, MoreFacts
<1>8. Parses(m)
  BY <1>4, <1>5 DEF Parses, Steady
<1> QED
  BY <1>2, <1>3, <1>4, <1>6, <1>7, <1>8

\* A part's headers, and what of its data comes with them.
LEMMA HeadersPhase ==
  ASSUME NEW c, NEW b, NEW p, NEW e, NEW k, NEW n, NEW seg,
         request.store = "usable", Parses(c), InHeaders(c, b, p, k), Comes(b, p, e, k, n, seg),
         NEW x, x = HandleBodyHeaders(More(c, seg)), x.up
  PROVE  /\ Parses(x) /\ Phase(x, b, p, e, k + n)
         /\ (x.file # "none" => k + n <= e) => Exact(x, b, p, e, k + n)
<1>1. /\ b \in Seq(Piece) /\ p \in Nat /\ e \in Nat /\ 3 <= p /\ p <= e /\ Len(b) = e + 3
      /\ b[p] = Blank /\ \A i \in 1..(p - 1) : b[i] # Blank
      /\ b[e + 2] = Mark /\ b[e + 3] = Dashes
  BY DEF Comes, Shape
<1>2. /\ k \in Nat /\ n \in Nat /\ n >= 1 /\ k + n <= e + 3
      /\ seg \in Seq(Piece) /\ Len(seg) = n /\ \A i \in 1..n : seg[i] = b[k + i]
  BY DEF Comes
<1> DEFINE m == More(c, seg)
           l == k + n
           s == m.body
<1>3. /\ Parses(m) /\ m.file = "none" /\ ~m.open /\ ~m.inBody /\ ~m.finishBody
  <2>1. Parses(m) /\ m.file = c.file
    BY <1>2, MoreOfBody
  <2>2. m.open = c.open /\ m.inBody = c.inBody /\ m.finishBody = c.finishBody
    BY <1>2, MoreOfBody
  <2>3. c.file = "none" /\ ~c.open /\ ~c.inBody /\ ~c.finishBody
    BY DEF InHeaders
  <2> QED
    BY <2>1, <2>2, <2>3
<1>4. s \in Seq(Piece) /\ Len(s) = l /\ \A i \in 1..l : s[i] = b[i]
  <2>1. /\ s \in Seq(Piece) /\ Len(s) = Len(c.body) + Len(seg)
        /\ \A i \in 1..(Len(c.body) + Len(seg)) :
             s[i] = IF i <= Len(c.body) THEN c.body[i] ELSE seg[i - Len(c.body)]
    BY ZenonT(90), <1>2, MoreOfBody
  <2>2. Len(c.body) = k /\ \A i \in 1..k : c.body[i] = b[i]
    BY DEF InHeaders
  <2>3. ASSUME NEW i \in 1..l PROVE s[i] = b[i]
    <3>1. CASE i <= k
      BY <1>2, <2>1, <2>2, <3>1
    <3>2. CASE i > k
      <4>1. i - k \in 1..n /\ ~(i <= k) /\ k + (i - k) = i
        BY <1>2, <3>2
      <4> QED
        BY <1>2, <2>1, <2>2, <4>1
    <3> QED
      BY <1>2, <3>1, <3>2
  <2> QED
    BY <1>2, <2>1, <2>2, <2>3
<1>5. l \in Nat /\ l <= e + 3 /\ l >= 1
  BY <1>2
<1> HIDE DEF m, l
<1>6. Blank \in Piece /\ Blank # FileName /\ Blank # CutName /\ Dashes # FileName
      /\ Dashes # CutName
  BY DEF Piece, Blank, FileName, CutName, Dashes
<1>7. \A i : i \in Occurrences(<<Blank>>, s) <=> i \in 1..l /\ s[i] = Blank
  BY <1>4, <1>6, OccursOne
<1>8. x = HandleBodyHeaders(m)
  BY DEF m
<1>9. CASE l < p
  <2>1. ~Found(<<Blank>>, s)
    <3>1. ASSUME NEW i \in 1..l PROVE s[i] # Blank
      BY <1>1, <1>4, <1>5, <1>9
    <3> QED
      BY <1>7, <3>1 DEF Found
  <2>2. x = m
    BY <1>8, <2>1 DEF HandleBodyHeaders
  <2>3. InHeaders(x, b, p, l)
    BY <1>3, <1>4, <1>9, <2>2 DEF InHeaders
  <2> QED
    BY <1>1, <1>3, <1>5, <1>9, <2>2, <2>3 DEF Phase, Exact, l
<1>10. CASE p <= l
  <2>1. Found(<<Blank>>, s) /\ Find(<<Blank>>, s) = p
    <3> DEFINE q == <<Blank>>
    <3>1. q \in Seq(Piece)
      BY <1>6
    <3>2. p \in Occurrences(q, s)
      BY <1>1, <1>4, <1>5, <1>7, <1>10
    <3>3. ASSUME NEW i \in Occurrences(q, s) PROVE p <= i
      <4>1. i \in 1..l /\ s[i] = Blank
        BY <1>7
      <4>2. b[i] = Blank
        BY <1>4, <4>1
      <4>3. i \notin 1..(p - 1)
        BY <1>1, <4>2
      <4> QED
        BY <1>1, <1>5, <4>1, <4>3
    <3> HIDE DEF q
    <3>4. Found(q, s) /\ Find(q, s) = p
      BY <1>4, <3>1, <3>2, <3>3, FoundAt
    <3> QED
      BY <3>4 DEF q
  <2> DEFINE inside == [m EXCEPT !.inBody = TRUE]
             start == Drop(p, s)
             name == PartName(s)
  <2>2. m \in ClientState /\ Fit(m)
    BY <1>3 DEF Parses, Fit
  <2>3. /\ inside \in ClientState /\ inside.file = "none" /\ inside.at = m.at
        /\ inside.disk = m.disk /\ inside.body = s
    BY <1>3, <2>2 DEF ClientState
  <2>4. ~inside.open /\ inside.inBody /\ ~inside.finishBody
    BY <1>3, <2>2 DEF ClientState
  <2>5. Steady(m, inside)
    BY <2>2 DEF Steady, ClientState
  <2> HIDE DEF inside
  <2>6. Fit(inside)
    BY <2>3, <2>4 DEF Fit
  <2>7. Parses(inside)
    BY <1>3, <2>5, <2>6 DEF Parses, Steady
  <2>8. CASE NameUnended(s)
    <3>1. x = inside
      BY <1>8, <2>1, <2>8 DEF HandleBodyHeaders, inside
    <3>2. l < e + 3
      <4> SUFFICES ASSUME l = e + 3 PROVE FALSE
        BY <1>1, <1>5
      <4>1. PICK j \in NamesAt(s) : \A i \in DOMAIN s :
              s[i] \in {FileName, Blank, Mark} => i < j
        BY <2>8 DEF NameUnended
      <4>2. DOMAIN s = 1..l
        BY <1>4, LenProperties
      <4>3. j \in 1..l /\ s[j] \in {FileName, CutName}
        BY <4>2 DEF NamesAt
      <4>4. e + 2 \in 1..l /\ s[e + 2] = Mark
        BY <1>1, <1>4, <1>5
      <4>5. e + 2 < j
        BY <4>1, <4>2, <4>4
      <4>6. j = e + 3
        BY <1>1, <4>3, <4>5
      <4>7. s[j] = Dashes
        BY <1>1, <1>4, <4>3, <4>6
      <4> QED
        BY <1>6, <4>3, <4>7
    <3>3. 2 <= l
      BY <1>1, <1>5, <1>10
    <3>4. Unnamed(x, b, e, l)
      BY <1>4, <2>3, <2>4, <3>1, <3>2, <3>3 DEF Unnamed
    <3> QED
      BY <2>7, <3>1, <3>4 DEF Phase, Exact, l
  <2>9. CASE ~NameUnended(s)
    <3>1. x = StartsWith(inside, name, start)
      BY <1>8, <2>1, <2>9 DEF HandleBodyHeaders, StartsWith, inside
    <3>2. name \in Names /\ name # "none"
      BY DEF PartName, Names
    <3>3. /\ start \in Seq(Piece) /\ Len(start) = l - p
          /\ \A i \in 1..(l - p) : start[i] = s[p + i]
      <4>1. /\ Drop(p, s) \in Seq(Piece)
            /\ Len(Drop(p, s)) = IF p <= Len(s) THEN Len(s) - p ELSE 0
            /\ \A i \in 1..(Len(s) - p) : Drop(p, s)[i] = s[p + i]
        BY ZenonT(90), <1>1, <1>4, DropFacts
      <4> QED
        BY <1>4, <1>10, <4>1
    <3> HIDE DEF start, name
    <3>4. /\ Fit(x) /\ x.inBody = inside.inBody /\ x.finishBody = inside.finishBody
          /\ x.body = <<>>
      BY <2>6, <3>1, <3>2, <3>3, StartsFile
    <3>5. Steady(inside, x)
      BY <2>6, <3>1, <3>2, <3>3, StartsFile
    <3>6. x.open /\ x.file = name /\ x.at = Len(start) /\ Stored(x) = start
      BY <2>6, <3>1, <3>2, <3>3, StartsFile
    <3>7. Parses(x)
      BY <2>7, <3>4, <3>5 DEF Parses, Steady
    <3>9. x.at \in Nat /\ x.at = l - p
      BY <1>1, <1>5, <1>10, <3>3, <3>6
    <3>10. \A i \in 1..x.at : Stored(x)[i] = b[p + i]
      <4> TAKE i \in 1..x.at
      <4>1. i \in 1..(l - p) /\ p + i \in 1..l
        BY <1>1, <1>5, <3>9
      <4>2. Stored(x)[i] = start[i] /\ start[i] = s[p + i]
        BY <3>3, <3>6, <4>1
      <4>3. s[p + i] = b[p + i]
        BY <1>4, <4>1
      <4> QED
        BY <4>2, <4>3
    <3>8. x.file # "none" /\ x.inBody /\ ~x.finishBody
      BY <2>4, <3>2, <3>4, <3>6
    <3>11. Len(x.body) = 0 /\ x.at + 0 = l - p
      BY <3>4, <3>9, EmptySeq
    <3>12. Copies(Stored(x), x.at, b, p) /\ Copies(x.body, Len(x.body), b, p + x.at)
      BY <3>10, <3>11 DEF Copies
    <3>13. CASE l <= e
      <4>1. x.at <= e - p /\ l < e + 3
        BY <1>1, <1>5, <3>9, <3>13
      <4>2. InData(x, b, p, e, l)
        BY <3>6, <3>8, <3>11, <3>12, <4>1 DEF InData, Copies
      <4> QED
        BY <3>7, <4>2 DEF Phase, Exact, l
    <3>14. CASE l > e
      <4>1. x.at > e - p
        BY <1>1, <1>5, <3>9, <3>14
      <4>2. Spilled(x, b, p, e, l)
        BY <3>8, <3>11, <3>12, <4>1 DEF Spilled
      <4>3. ~(x.file # "none" => k + n <= e)
        BY <1>1, <1>5, <3>8, <3>14 DEF l
      <4> QED
        BY <3>7, <4>2, <4>3 DEF Phase, l
    <3> QED
      BY <1>1, <1>5, <3>13, <3>14
  <2> QED
    BY <2>8, <2>9
<1> QED
  BY <1>1, <1>5, <1>9, <1>10

\* handleInBody looks for the end of a body, and then for a boundary.
Ended(c) ==
  IF Found(c.endBoundry, c.body)
  THEN [AppendBody(c, Before(c.endBoundry, c.body)) EXCEPT
          !.body = From(c.endBoundry, c.body), !.finishBody = TRUE]
  ELSE c
Looked(c) ==
  IF Found(c.boundary, c.body) THEN PartEnds(AppendBody(c, Before(c.boundary, c.body)))
  ELSE IF SafeZone(c) > 0
  THEN [AppendBody(c, SubSeq(c.body, 1, SafeZone(c))) EXCEPT
          !.body = KeptBack(c, SafeZone(c))]
  ELSE c

LEMMA LooksTwice ==
  ASSUME NEW c, Fit(c)
  PROVE  HandleInBody(c) = Looked(Ended(c)) /\ Fit(Ended(c)) /\ Ended(c).open = c.open
<1>1. Fit(Ended(c)) /\ Ended(c).open = c.open /\ Ended(c).boundary = c.boundary
  <2>1. CASE Found(c.endBoundry, c.body)
    <3>1. Ended(c) = [AppendBody(c, Before(c.endBoundry, c.body)) EXCEPT
                        !.body = From(c.endBoundry, c.body), !.finishBody = TRUE]
      BY <2>1 DEF Ended
    <3>2. Within(c, Ended(c)) /\ Ended(c).open = c.open
      BY <2>1, <3>1, EndsInBody
    <3> QED
      BY <3>2 DEF Within, Steady
  <2>2. CASE ~Found(c.endBoundry, c.body)
    BY <2>2 DEF Ended
  <2> QED
    BY <2>1, <2>2
<1>2. HandleInBody(c) =
        (LET ended == Ended(c) IN
         IF Found(c.boundary, ended.body)
         THEN PartEnds(AppendBody(ended, Before(c.boundary, ended.body)))
         ELSE IF SafeZone(ended) > 0
         THEN [AppendBody(ended, SubSeq(ended.body, 1, SafeZone(ended))) EXCEPT
                 !.body = KeptBack(ended, SafeZone(ended))]
         ELSE ended)
  BY DEF HandleInBody, Ended
<1>3. HandleInBody(c) = Looked(Ended(c))
  BY <1>1, <1>2 DEF Looked
<1> QED
  BY <1>1, <1>3

\* What is written when it succeeds: s, behind what is stored.
Wrote(c, s, r) == [AppendBody(c, s) EXCEPT !.body = r]

LEMMA WritesAndKeeps ==
  ASSUME NEW c, Fit(c), NEW s \in Seq(Piece), NEW r \in Seq(Piece),
         NEW d, d = Wrote(c, s, r), d.up
  PROVE  /\ Fit(d) /\ Steady(c, d) /\ c.up /\ c.open /\ d.open
         /\ d.inBody = c.inBody /\ d.finishBody = c.finishBody
         /\ d.file = c.file /\ d.at = c.at + Len(s) /\ d.body = r
         /\ Stored(d) = Stored(c) \o s
<1> DEFINE a == AppendBody(c, s)
<1>1. Fit(a) /\ a.file = c.file /\ a.open = c.open
  BY AppendBodyFacts
<1>2. Steady(c, a)
  BY AppendBodyFacts
<1>3. a.inBody = c.inBody /\ a.finishBody = c.finishBody
  BY AppendBodyFacts
<1>4. a.up => c.up /\ c.open
  BY AppendBodyFacts
<1>5. c.open => Stored(a) = Stored(c) \o s /\ a.at = c.at + Len(s)
  BY AppendBodyFacts
<1>6. d = [a EXCEPT !.body = r]
  BY DEF Wrote
<1> HIDE DEF a
<1>7. a \in ClientState
  BY <1>1 DEF Fit
<1>8. /\ d \in ClientState /\ d.up = a.up /\ d.file = a.file /\ d.at = a.at
      /\ d.disk = a.disk /\ d.body = r
  BY <1>6, <1>7 DEF ClientState
<1>9. d.open = a.open /\ d.inBody = a.inBody /\ d.finishBody = a.finishBody
  BY <1>6, <1>7 DEF ClientState
<1>10. Steady(a, d)
  BY <1>6, <1>7 DEF Steady, ClientState
<1>11. Fit(d)
  BY <1>1, <1>8, <1>9 DEF Fit
<1>12. Steady(c, d)
  BY <1>2, <1>10 DEF Steady
<1>13. c.up /\ c.open
  BY <1>4, <1>8
<1>14. Stored(d) = Stored(c) \o s /\ d.at = c.at + Len(s)
  BY <1>5, <1>8, <1>13 DEF Stored
<1>15. d.open
  BY <1>1, <1>9, <1>13
<1> QED
  BY <1>1, <1>3, <1>8, <1>9, <1>11, <1>12, <1>13, <1>14, <1>15

\* So it does at the end of a body, which is then known.
WroteLast(c, s, r) == [AppendBody(c, s) EXCEPT !.body = r, !.finishBody = TRUE]

LEMMA WritesAndEnds ==
  ASSUME NEW c, Fit(c), NEW s \in Seq(Piece), NEW r \in Seq(Piece),
         NEW d, d = WroteLast(c, s, r), d.up
  PROVE  /\ Fit(d) /\ Steady(c, d) /\ c.up /\ c.open /\ d.open
         /\ d.file = c.file /\ d.at = c.at + Len(s) /\ d.body = r
         /\ Stored(d) = Stored(c) \o s
<1> DEFINE e == Wrote(c, s, r)
<1>1. Fit(AppendBody(c, s))
  BY AppendBodyFacts
<1>2. e.up = d.up /\ d = [e EXCEPT !.finishBody = TRUE] /\ e \in ClientState
  BY <1>1 DEF Fit, ClientState, Wrote, WroteLast
<1> HIDE DEF e
<1>3. /\ Fit(e) /\ Steady(c, e) /\ c.up /\ c.open /\ e.open
      /\ e.file = c.file /\ e.at = c.at + Len(s) /\ e.body = r
      /\ Stored(e) = Stored(c) \o s
  <2>1. e.up
    BY <1>2
  <2> QED
    BY <2>1, WritesAndKeeps DEF e
<1>4. /\ d \in ClientState /\ d.file = e.file /\ d.at = e.at
      /\ d.disk = e.disk /\ d.body = e.body
  BY <1>2 DEF ClientState
<1>5. d.open = e.open /\ Steady(e, d)
  BY <1>2 DEF ClientState, Steady
<1>6. Fit(d) /\ Steady(c, d)
  BY <1>3, <1>4, <1>5 DEF Fit, Steady
<1>7. Stored(d) = Stored(c) \o s
  BY <1>3, <1>4 DEF Stored
<1> QED
  BY <1>3, <1>4, <1>5, <1>6, <1>7

\* At a boundary the part is closed behind it.
WroteEnd(c, s, d) ==
  /\ Fit(d) /\ Steady(c, d) /\ c.up /\ c.open /\ ~d.open /\ ~d.inBody
  /\ d.file = c.file /\ d.at = c.at + Len(s) /\ d.body = c.body
  /\ Stored(d) = Stored(c) \o s

LEMMA WritesAndCloses ==
  ASSUME NEW c, Fit(c), NEW s \in Seq(Piece), NEW d, d = PartEnds(AppendBody(c, s)), d.up
  PROVE  WroteEnd(c, s, d)
<1> DEFINE a == AppendBody(c, s)
<1>1. Fit(a) /\ a.file = c.file /\ a.body = c.body
  BY AppendBodyFacts
<1>2. Steady(c, a)
  BY AppendBodyFacts
<1>3. a.up => c.up /\ c.open
  BY AppendBodyFacts
<1>4. c.open => Stored(a) = Stored(c) \o s /\ a.at = c.at + Len(s)
  BY AppendBodyFacts
<1>5. d = [a EXCEPT !.open = FALSE, !.inBody = FALSE]
  BY DEF PartEnds, CloseFileUpload
<1> HIDE DEF a
<1>6. a \in ClientState
  BY <1>1 DEF Fit
<1>7. /\ d \in ClientState /\ d.up = a.up /\ d.file = a.file /\ d.at = a.at
      /\ d.disk = a.disk /\ d.body = a.body
  BY <1>5, <1>6 DEF ClientState
<1>8. ~d.open /\ ~d.inBody
  BY <1>5, <1>6 DEF ClientState
<1>9. Steady(a, d)
  BY <1>5, <1>6 DEF Steady, ClientState
<1>10. Fit(d)
  BY <1>1, <1>7, <1>8 DEF Fit
<1>11. Steady(c, d)
  BY <1>2, <1>9 DEF Steady
<1>12. c.up /\ c.open
  BY <1>3, <1>7
<1>13. Stored(d) = Stored(c) \o s /\ d.at = c.at + Len(s)
  BY <1>4, <1>7, <1>12 DEF Stored
<1> QED
  BY <1>1, <1>7, <1>8, <1>10, <1>11, <1>12, <1>13 DEF WroteEnd

\* Closing without writing anything more.
OnlyClosed(c, d) ==
  /\ Fit(d) /\ Steady(c, d) /\ c.up /\ ~d.open /\ ~d.inBody
  /\ d.file = c.file /\ d.at = c.at /\ d.body = c.body /\ Stored(d) = Stored(c)

LEMMA OnlyCloses ==
  ASSUME NEW c, Fit(c), NEW s \in Seq(Piece), Len(s) = 0, NEW d, d = PartEnds(AppendBody(c, s)), d.up
  PROVE  OnlyClosed(c, d)
<1>1. WroteEnd(c, s, d)
  BY WritesAndCloses
<1>2. Fit(d) /\ Steady(c, d) /\ c.up /\ c.open
  BY <1>1 DEF WroteEnd
<1>3. ~d.open /\ ~d.inBody
  BY <1>1 DEF WroteEnd
<1>4. d.file = c.file /\ d.body = c.body
  BY <1>1 DEF WroteEnd
<1>10. d.at = c.at + Len(s)
  BY <1>1 DEF WroteEnd
<1>5. Stored(d) = Stored(c) \o s
  BY <1>1 DEF WroteEnd
<1>6. /\ c.file # "none" /\ c.file \in Names \cup {"none"} /\ c.at \in Nat
      /\ c.disk \in [Names -> Seq(Piece)] /\ c.at <= Len(c.disk[c.file])
  BY <1>2 DEF Fit, ClientState
<1>7. Stored(c) \in Seq(Piece)
  <2> DEFINE t == c.disk[c.file]
  <2>1. t \in Seq(Piece) /\ c.at <= Len(t)
    BY <1>6
  <2> HIDE DEF t
  <2>2. SubSeq(t, 1, c.at) \in Seq(Piece)
    BY <1>6, <2>1, SubSeqFacts
  <2> QED
    BY <2>2 DEF Stored, t
<1>8. d.at = c.at
  BY <1>6, <1>10
<1>9. Stored(d) = Stored(c)
  <2>1. s = <<>>
    BY EmptySeq
  <2> QED
    BY <1>5, <1>7, <2>1, ConcatEmptySeq
<1> QED
  BY <1>2, <1>3, <1>4, <1>8, <1>9 DEF OnlyClosed

\* A part without a file does not outlive the next bytes.
LEMMA UnnamedPhase ==
  ASSUME NEW c, NEW b, NEW p, NEW e, NEW k, NEW n, NEW seg,
         Parses(c), Unnamed(c, b, e, k), Comes(b, p, e, k, n, seg),
         NEW x, x = HandleInBody(More(c, seg)), x.up
  PROVE  FALSE
<1>1. /\ k \in Nat /\ n \in Nat /\ seg \in Seq(Piece) /\ Len(seg) = n
      /\ b[1] = Dashes /\ b[2] = Mark
  BY DEF Comes, Shape
<1> DEFINE m == More(c, seg)
           f == Ended(m)
<1>2. Parses(m) /\ Fit(m) /\ ~m.open
  <2>1. Parses(m) /\ m.open = c.open
    BY <1>1, MoreOfBody
  <2> QED
    BY <2>1 DEF Parses, Unnamed
<1>3. /\ m.body \in Seq(Piece) /\ Len(m.body) >= 2
      /\ m.body[1] = Dashes /\ m.body[2] = Mark
  <2>1. /\ m.body \in Seq(Piece) /\ Len(m.body) = Len(c.body) + Len(seg)
        /\ \A i \in 1..(Len(c.body) + Len(seg)) :
             m.body[i] = IF i <= Len(c.body) THEN c.body[i] ELSE seg[i - Len(c.body)]
    BY <1>1, MoreOfBody
  <2>2. 2 <= k /\ Len(c.body) = k /\ \A i \in 1..k : c.body[i] = b[i]
    BY DEF Unnamed
  <2>3. 1 \in 1..(k + n) /\ 2 \in 1..(k + n) /\ 1 \in 1..k /\ 2 \in 1..k /\ k + n >= 2
    BY <1>1, <2>2
  <2> QED
    BY <1>1, <2>1, <2>2, <2>3
<1> HIDE DEF m
<1>4. x = Looked(f) /\ Fit(f) /\ f.open = m.open
  BY <1>2, LooksTwice DEF m
<1>5. CASE Found(m.endBoundry, m.body)
  <2>1. ~f.up
    <3> DEFINE s == Before(m.endBoundry, m.body)
               r == From(m.endBoundry, m.body)
    <3>1. s \in Seq(Piece) /\ r \in Seq(Piece)
      <4>1. m.endBoundry \in Seq(Piece \cup {SmallMark})
        BY <1>2 DEF Fit, ClientState
      <4> QED
        BY <1>3, <1>5, <4>1, BeforeFrom
    <3>2. f = WroteLast(m, s, r)
      BY <1>5 DEF Ended, WroteLast
    <3> HIDE DEF s, r, f
    <3>3. ASSUME f.up PROVE FALSE
      <4>1. m.open
        BY <1>2, <3>1, <3>2, <3>3, WritesAndEnds
      <4> QED
        BY <1>2, <4>1
    <3> QED
      BY <3>3
  <2> HIDE DEF f
  <2>2. Within(f, x)
    <3>1. f.body \in Seq(Piece) /\ f.boundary \in Seq(Piece \cup {SmallMark})
      BY <1>4 DEF Fit, ClientState
    <3>2. Len(f.body) \in Nat /\ Len(f.boundary) \in Nat
      BY <3>1, LenProperties
    <3>3. CASE Found(f.boundary, f.body)
      <4>1. x = PartEnds(AppendBody(f, Before(f.boundary, f.body)))
        BY <1>4, <3>3 DEF Looked
      <4> QED
        BY <1>4, <3>3, <4>1, BoundaryInBody
    <3>4. CASE ~Found(f.boundary, f.body) /\ SafeZone(f) > 0
      <4> DEFINE z == SafeZone(f)
      <4>1. x = [AppendBody(f, SubSeq(f.body, 1, z)) EXCEPT !.body = KeptBack(f, z)]
        BY <1>4, <3>4 DEF Looked
      <4>2. z \in 0..Len(f.body)
        <5>1. \A i, j \in Nat : (i >= j => i - j \in 0..i) /\ i \in 0..i
          OBVIOUS
        <5> QED
          BY <3>2, <5>1 DEF SafeZone
      <4> HIDE DEF z
      <4> QED
        BY <1>4, <4>1, <4>2, HoldsBack
    <3>5. CASE ~Found(f.boundary, f.body) /\ ~(SafeZone(f) > 0)
      <4>1. x = f
        BY <1>4, <3>5 DEF Looked
      <4> QED
        BY <1>4, <4>1 DEF Within, Steady, Extends, Keeps, Fit, ClientState, Stored
    <3> QED
      BY <3>3, <3>4, <3>5
  <2> QED
    BY <2>1, <2>2 DEF Within
<1>6. CASE ~Found(m.endBoundry, m.body)
  <2>1. f = m
    BY <1>6 DEF Ended
  <2> HIDE DEF f
  <2>2. m.boundary = <<Dashes, Mark>>
    BY <1>2 DEF Parses
  <2>3. 1 \in Occurrences(<<Dashes, Mark>>, m.body)
    <3>1. \A i : i \in Occurrences(<<Dashes, Mark>>, m.body) <=>
            i \in 1..(Len(m.body) - 1) /\ m.body[i] = Dashes /\ m.body[i + 1] = Mark
      <4>1. Dashes \in Piece /\ Mark \in Piece
        BY DEF Piece
      <4> QED
        BY <1>3, <4>1, OccursTwo
    <3>2. Len(m.body) \in Nat
      BY <1>3, LenProperties
    <3>3. 1 \in 1..(Len(m.body) - 1) /\ 1 + 1 = 2
      BY <1>3, <3>2
    <3> QED
      BY <1>3, <3>1, <3>3
  <2>4. Found(m.boundary, m.body)
    BY <2>2, <2>3 DEF Found
  <2> DEFINE s == Before(m.boundary, m.body)
  <2>5. s \in Seq(Piece)
    <3>1. m.boundary \in Seq(Piece \cup {SmallMark})
      BY <1>2 DEF Fit, ClientState
    <3> QED
      BY <1>3, <2>4, <3>1, BeforeFrom
  <2>6. x = PartEnds(AppendBody(m, s))
    BY <1>4, <2>1, <2>4 DEF Looked
  <2> HIDE DEF s
  <2>7. m.open
    <3>1. WroteEnd(m, s, x)
      BY <1>2, <2>5, <2>6, WritesAndCloses
    <3> QED
      BY <3>1 DEF WroteEnd
  <2> QED
    BY <1>2, <2>7
<1> QED
  BY <1>5, <1>6

\* What follows the data holds no headers.
LEMMA StoredPhase ==
  ASSUME NEW c, NEW b, NEW p, NEW e, NEW k, NEW n, NEW seg,
         Parses(c), DataStored(c, b, p, e, k), Comes(b, p, e, k, n, seg),
         NoBlank(b, p, e),
         NEW x, x = HandleBodyHeaders(More(c, seg))
  PROVE  Parses(x) /\ Exact(x, b, p, e, k + n) /\ ~x.inBody
<1>1. /\ k \in Nat /\ n \in Nat /\ seg \in Seq(Piece) /\ Len(seg) = n
      /\ \A i \in 1..n : seg[i] = b[k + i]
      /\ p \in Nat /\ e \in Nat /\ k + n <= e + 3
  BY DEF Comes, Shape
<1> DEFINE m == More(c, seg)
<1>2. m.body \in Seq(Piece) /\ c.body \in Seq(Piece) /\ Len(m.body) = Len(c.body) + Len(seg)
  <2> HIDE DEF m
  <2>1. m = More(c, seg) /\ seg \in Seq(Piece)
    BY <1>1 DEF m
  <2>2. m.body \in Seq(Piece)
    BY <2>1, MoreOfBody
  <2>3. c.body \in Seq(Piece)
    BY <2>1, MoreOfBody
  <2>4. Len(m.body) = Len(c.body) + Len(seg)
    BY <2>1, MoreOfBody
  <2> QED
    BY <2>2, <2>3, <2>4
<1>13. \A i \in 1..(Len(c.body) + Len(seg)) :
         m.body[i] = IF i <= Len(c.body) THEN c.body[i] ELSE seg[i - Len(c.body)]
  BY SMTT(90), <1>1, MoreOfBody
<1>11. Parses(m) /\ Stored(m) = Stored(c) /\ m.file = c.file /\ m.at = c.at
  BY <1>1, MoreOfBody
<1>3. m.open = c.open /\ m.inBody = c.inBody
  BY <1>1, MoreOfBody
<1>4. /\ c.file # "none" /\ ~c.open /\ ~c.inBody /\ p <= k /\ c.at = e - p
      /\ \A i \in 1..c.at : Stored(c)[i] = b[p + i]
      /\ \A i \in 1..Len(c.body) : c.body[i] # Blank
  BY DEF DataStored
<1> HIDE DEF m
<1>5. Len(c.body) \in Nat
  BY <1>2, LenProperties
<1>6. ASSUME NEW i \in 1..Len(m.body) PROVE m.body[i] # Blank
  <2>1. CASE i <= Len(c.body)
    <3>1. i \in 1..Len(c.body) /\ i \in 1..(Len(c.body) + Len(seg))
      BY <1>1, <1>2, <1>5, <2>1
    <3> QED
      BY <1>4, <1>13, <2>1, <3>1
  <2>2. CASE i > Len(c.body)
    <3> DEFINE j == i - Len(c.body)
    <3>1. i \in 1..(Len(c.body) + n)
      BY <1>1, <1>2
    <3>2. ~(i <= Len(c.body)) /\ j \in 1..n
      BY <1>1, <1>5, <2>2, <3>1
    <3>3. m.body[i] = seg[j]
      BY <1>1, <1>13, <3>1, <3>2
    <3> HIDE DEF j
    <3>4. k + j \in (p + 1)..(e + 3)
      BY <1>1, <1>4, <3>2
    <3> QED
      BY <1>1, <3>2, <3>3, <3>4 DEF NoBlank
  <2> QED
    BY <1>1, <1>2, <1>5, <2>1, <2>2
<1>7. ~Found(<<Blank>>, m.body)
  <2>1. Blank \in Piece
    BY DEF Piece
  <2>2. \A i : i \in Occurrences(<<Blank>>, m.body) <=> i \in 1..Len(m.body) /\ m.body[i] = Blank
    BY <1>2, <2>1, OccursOne
  <2> QED
    BY <1>6, <2>2 DEF Found
<1>8. x = m
  BY <1>7 DEF HandleBodyHeaders, m
<1>9. p <= k + n
  BY <1>1, <1>4
<1>10. DataStored(m, b, p, e, k + n)
  <2>1. ~m.open /\ ~m.inBody
    BY <1>3, <1>4
  <2> QED
    BY <1>4, <1>6, <1>9, <1>11, <2>1 DEF DataStored
<1>12. ~m.inBody
  BY <1>3, <1>4
<1> QED
  BY <1>8, <1>10, <1>11, <1>12 DEF Exact

\* What is written behind the data is more of them.
LEMMA DataGrow ==
  ASSUME NEW c, Fit(c), c.open, NEW b, NEW p \in Nat, NEW s \in Seq(Piece), NEW t,
         t = Stored(c) \o s,
         Copies(Stored(c), c.at, b, p), Copies(s, Len(s), b, p + c.at)
  PROVE  Copies(t, c.at + Len(s), b, p)
<1> DEFINE u == Stored(c)
<1>1. u \in Seq(Piece) /\ Len(u) = c.at /\ c.at \in Nat
  <2>1. c.file \in Names /\ c.disk[c.file] \in Seq(Piece) /\ c.at \in Nat
    BY DEF Fit, ClientState
  <2>2. c.at <= Len(c.disk[c.file]) /\ 1 \in Nat
    BY DEF Fit
  <2> DEFINE w == c.disk[c.file]
  <2>3. w \in Seq(Piece) /\ c.at <= Len(w)
    BY <2>1, <2>2
  <2> HIDE DEF w
  <2>4. SubSeq(w, 1, c.at) \in Seq(Piece)
        /\ Len(SubSeq(w, 1, c.at)) = IF 1 <= c.at THEN c.at - 1 + 1 ELSE 0
    BY <2>1, <2>3, SubSeqFacts
  <2> QED
    BY <2>1, <2>4 DEF w, Stored
<1>2. Copies(u, c.at, b, p)
  OBVIOUS
<1> HIDE DEF u
<1>3. \A i \in 1..(Len(u) + Len(s)) :
        (u \o s)[i] = IF i <= Len(u) THEN u[i] ELSE s[i - Len(u)]
  BY <1>1, ConcatProperties
<1>4. t = u \o s
  BY DEF u
<1>5. Len(s) \in Nat
  BY LenProperties
<1> SUFFICES ASSUME NEW i \in 1..(c.at + Len(s)) PROVE t[i] = b[p + i]
  BY DEF Copies
<1>6. CASE i <= c.at
  <2>1. i \in 1..c.at
    BY <1>1, <1>5, <1>6
  <2>2. t[i] = u[i]
    BY <1>1, <1>3, <1>4, <1>6
  <2> QED
    BY <1>2, <2>1, <2>2 DEF Copies
<1>7. CASE i > c.at
  <2> DEFINE j == i - c.at
  <2>1. ~(i <= c.at) /\ j \in 1..Len(s) /\ (p + c.at) + j = p + i
    BY <1>1, <1>5, <1>7
  <2>2. t[i] = s[j]
    BY <1>1, <1>3, <1>4, <2>1
  <2> HIDE DEF j
  <2>3. s[j] = b[(p + c.at) + j]
    BY <2>1 DEF Copies
  <2> QED
    BY <2>1, <2>2, <2>3
<1>8. i <= c.at \/ i > c.at
  BY <1>1, <1>5
<1> QED
  BY <1>6, <1>7, <1>8

\* Where no boundary is found, what is looked at is stored or kept back.
Moved(m, x) ==
  /\ x.file = m.file /\ x.inBody = m.inBody /\ x.finishBody = m.finishBody /\ x.open = m.open
  /\ x.at + Len(x.body) = m.at + Len(m.body) /\ x.at >= m.at

LEMMA MovesOn ==
  ASSUME NEW m, Parses(m), NEW b, NEW p \in Nat,
         Copies(Stored(m), m.at, b, p), Copies(m.body, Len(m.body), b, p + m.at),
         ~Found(m.boundary, m.body), ~Found(m.endBoundry, m.body),
         NEW x, x = HandleInBody(m), x.up
  PROVE  /\ Parses(x) /\ Moved(m, x)
         /\ Copies(Stored(x), x.at, b, p) /\ Copies(x.body, Len(x.body), b, p + x.at)
<1> DEFINE s == m.body
           y == SafeZone(m)
           u == SubSeq(s, 1, y)
           r == Drop(y, s)
           at == m.at
<1>1. Fit(m) /\ m.boundary = <<Dashes, Mark>> /\ s \in Seq(Piece) /\ at \in Nat
  BY DEF Parses, Fit, ClientState
<1>2. x = Looked(m)
  <2>1. x = Looked(Ended(m))
    BY <1>1, LooksTwice
  <2>2. Ended(m) = m
    BY DEF Ended
  <2> QED
    BY <2>1, <2>2
<1>3. Len(s) \in Nat /\ y \in 0..Len(s)
  <2>1. Len(s) \in Nat
    BY <1>1, LenProperties
  <2>2. Len(m.boundary) = 2
    BY <1>1
  <2>3. y = IF Len(s) >= 2 THEN Len(s) - 2 ELSE Len(s)
    BY <2>2 DEF SafeZone
  <2> HIDE DEF s, y
  <2> QED
    BY <2>1, <2>3
<1>4. x = IF y > 0 THEN Wrote(m, u, r) ELSE m
  BY <1>2 DEF Looked, Wrote, KeptBack
<1>5. Copies(s, Len(s), b, p + at) /\ Copies(Stored(m), at, b, p)
  OBVIOUS
<1>6. u \in Seq(Piece) /\ Len(u) = y /\ \A i \in 1..y : u[i] = s[i]
  <2> HIDE DEF s, y, u
  <2>1. y \in Nat /\ y <= Len(s) /\ 1 \in Nat
    BY <1>3
  <2>2. /\ SubSeq(s, 1, y) \in Seq(Piece)
        /\ Len(SubSeq(s, 1, y)) = IF 1 <= y THEN y - 1 + 1 ELSE 0
        /\ \A i \in 1..(y - 1 + 1) : SubSeq(s, 1, y)[i] = s[1 + i - 1]
    BY <1>1, <1>3, <2>1, SubSeqFacts
  <2>3. u = SubSeq(s, 1, y)
    BY DEF u
  <2> QED
    BY <2>1, <2>2, <2>3
<1>7. r \in Seq(Piece) /\ Len(r) = Len(s) - y /\ \A i \in 1..(Len(s) - y) : r[i] = s[y + i]
  <2> HIDE DEF s, y, r
  <2>1. /\ Drop(y, s) \in Seq(Piece)
        /\ Len(Drop(y, s)) = IF y <= Len(s) THEN Len(s) - y ELSE 0
        /\ \A i \in 1..(Len(s) - y) : Drop(y, s)[i] = s[y + i]
    BY <1>1, <1>3, DropFacts
  <2>2. y <= Len(s) /\ r = Drop(y, s)
    BY <1>3 DEF r
  <2> QED
    BY <2>1, <2>2
<1> HIDE DEF y, u, r
<1>8. CASE y > 0
  <2>1. x = Wrote(m, u, r)
    BY <1>4, <1>8
  <2>2. Fit(x) /\ Steady(m, x) /\ m.open /\ x.open
    BY <1>1, <1>6, <1>7, <2>1, WritesAndKeeps
  <2>3. x.inBody = m.inBody /\ x.finishBody = m.finishBody /\ x.file = m.file
    BY <1>1, <1>6, <1>7, <2>1, WritesAndKeeps
  <2>4. x.at = at + Len(u) /\ x.body = r /\ Stored(x) = Stored(m) \o u
    <3>1. u \in Seq(Piece) /\ r \in Seq(Piece) /\ Fit(m)
      BY <1>1, <1>6, <1>7
    <3> HIDE DEF s
    <3>2. x.at = m.at + Len(u) /\ x.body = r
      BY <2>1, <3>1, WritesAndKeeps
    <3>3. Stored(x) = Stored(m) \o u
      BY <2>1, <3>1, WritesAndKeeps
    <3> QED
      BY <3>2, <3>3
  <2>5. Parses(x)
    BY <2>2 DEF Parses, Steady
  <2>6. Copies(u, Len(u), b, p + at)
    <3> SUFFICES ASSUME NEW i \in 1..y PROVE u[i] = b[(p + at) + i]
      BY <1>6 DEF Copies
    <3>1. i \in 1..Len(s)
      BY <1>3
    <3> QED
      BY <1>5, <1>6, <3>1 DEF Copies
  <2>7. Copies(Stored(x), x.at, b, p)
    <3>1. Copies(Stored(x), m.at + Len(u), b, p)
      BY <1>1, <1>5, <1>6, <2>2, <2>4, <2>6, DataGrow
    <3> QED
      BY <2>4, <3>1
  <2> HIDE DEF s, at
  <2>8. x.at = at + y /\ x.at + Len(x.body) = at + Len(s) /\ x.at >= at
    <3> DEFINE w == Len(s)
    <3>1. w \in Nat /\ y \in 0..w /\ at \in Nat /\ Len(x.body) = w - y /\ x.at = at + y
      BY <1>1, <1>3, <1>6, <1>7, <2>4
    <3> HIDE DEF w
    <3>2. x.at + (w - y) = at + w /\ x.at >= at
      BY <3>1
    <3> QED
      BY <3>1, <3>2 DEF w
  <2>9. Copies(x.body, Len(x.body), b, p + x.at)
    <3> SUFFICES ASSUME NEW i \in 1..(Len(s) - y) PROVE r[i] = b[(p + x.at) + i]
      BY <1>7, <2>4 DEF Copies
    <3>1. y + i \in 1..Len(s) /\ (p + at) + (y + i) = (p + x.at) + i
      <4> DEFINE w == Len(s)
      <4>1. w \in Nat /\ y \in 0..w /\ i \in 1..(w - y) /\ x.at = at + y /\ at \in Nat
        BY <1>1, <1>3, <2>8
      <4> HIDE DEF w
      <4>2. y + i \in 1..w /\ (p + at) + (y + i) = (p + x.at) + i
        BY <4>1
      <4> QED
        BY <4>2 DEF w
    <3>2. r[i] = s[y + i]
      BY <1>7
    <3>3. s[y + i] = b[(p + at) + (y + i)]
      BY <1>5, <3>1 DEF Copies
    <3> QED
      BY <3>1, <3>2, <3>3
  <2> QED
    BY <2>2, <2>3, <2>5, <2>7, <2>8, <2>9 DEF Moved, s, at
<1>9. CASE ~(y > 0)
  <2>1. x = m
    BY <1>4, <1>9
  <2> QED
    BY <1>1, <1>5, <2>1 DEF Moved
<1> QED
  BY <1>8, <1>9

\* What is looked at with the next pieces goes on where what is stored ends.
LEMMA LookedAt ==
  ASSUME NEW c, Parses(c), NEW b, NEW p, NEW e, NEW k, NEW n, NEW seg,
         Comes(b, p, e, k, n, seg), c.at + Len(c.body) = k - p,
         Copies(Stored(c), c.at, b, p), Copies(c.body, Len(c.body), b, p + c.at),
         NEW m, m = More(c, seg)
  PROVE  /\ m.body \in Seq(Piece) /\ Len(m.body) = Len(c.body) + n
         /\ m.at + Len(m.body) = (k + n) - p
         /\ Copies(Stored(m), m.at, b, p) /\ Copies(m.body, Len(m.body), b, p + m.at)
<1> DEFINE t == c.body
           w == Len(c.body)
           s == m.body
           at == c.at
<1>1. /\ p \in Nat /\ k \in Nat /\ n \in Nat /\ seg \in Seq(Piece) /\ Len(seg) = n
      /\ \A i \in 1..n : seg[i] = b[k + i]
  BY DEF Comes, Shape
<1>2. t \in Seq(Piece) /\ at \in Nat /\ at + w = k - p /\ \A i \in 1..w : t[i] = b[(p + at) + i]
  BY DEF Parses, Fit, ClientState, Copies
<1>3. Parses(m) /\ Stored(m) = Stored(c) /\ m.file = c.file /\ m.at = at
  BY <1>1, MoreOfBody
<1>5. s \in Seq(Piece) /\ Len(s) = w + n
  BY <1>1, MoreOfBody
<1>6. \A i \in 1..(w + n) : s[i] = IF i <= w THEN t[i] ELSE seg[i - w]
  <2>1. seg \in Seq(Piece) /\ Len(seg) = n
    BY <1>1
  <2>2. \A i \in 1..(Len(c.body) + Len(seg)) :
          m.body[i] = IF i <= Len(c.body) THEN c.body[i] ELSE seg[i - Len(c.body)]
    BY <2>1, MoreOfBody, Zenon
  <2> QED
    BY <2>1, <2>2, Zenon
<1>7. w \in Nat
  BY <1>2, LenProperties
<1>8. Copies(Stored(c), at, b, p)
  OBVIOUS
<1> HIDE DEF t, w, s, at
<1>9. at + (w + n) = (k + n) - p /\ k = (p + at) + w
  <2>1. /\ p \in Nat /\ k \in Nat /\ n \in Nat /\ at \in Nat /\ w \in Nat
        /\ at + w = k - p
    BY <1>1, <1>2, <1>7
  <2> QED
    BY <2>1
<1>10. ASSUME NEW i \in 1..(w + n) PROVE s[i] = b[(p + at) + i]
  <2>1. CASE i <= w
    <3>1. i \in 1..w
      BY <1>7, <2>1
    <3> QED
      BY <1>2, <1>6, <2>1, <3>1
  <2>2. CASE i > w
    <3>1. ~(i <= w) /\ i - w \in 1..n /\ k + (i - w) = (p + at) + i
      BY <1>1, <1>2, <1>7, <1>9, <2>2
    <3> QED
      BY <1>1, <1>6, <3>1
  <2> QED
    BY <1>1, <1>7, <2>1, <2>2
<1>11. Copies(s, Len(s), b, p + m.at) /\ Copies(Stored(m), m.at, b, p)
  BY <1>3, <1>5, <1>8, <1>10 DEF Copies
<1>12. m.at + Len(s) = (k + n) - p /\ Len(s) = w + n
  BY <1>3, <1>5, <1>9
<1> QED
  BY <1>5, <1>11, <1>12 DEF s, w

\* Where what is looked at is shorter than a boundary, the start of one may be taken for
\* data.
LEMMA ShortPhase ==
  ASSUME NEW c, NEW b, NEW p, NEW e, NEW k, NEW n, NEW seg,
         Parses(c), InData(c, b, p, e, k), Comes(b, p, e, k, n, seg),
         ~(Len(c.body) + n >= 2),
         NEW x, x = HandleInBody(More(c, seg)), x.up
  PROVE  Parses(x) /\ Phase(x, b, p, e, k + n)
<1> DEFINE m == More(c, seg)
           q == <<Dashes, Mark>>
           z == <<Dashes, Mark, Dashes>>
           l == k + n
<1>1. /\ p \in Nat /\ e \in Nat /\ k \in Nat /\ n \in Nat /\ n >= 1 /\ p <= e
  BY DEF Comes, Shape
<1>2. /\ c.file # "none" /\ c.open /\ c.inBody /\ ~c.finishBody /\ c.at <= e - p
      /\ c.at + Len(c.body) = k - p
      /\ Copies(Stored(c), c.at, b, p) /\ Copies(c.body, Len(c.body), b, p + c.at)
  BY DEF InData, Copies
<1>3. Parses(m) /\ m.file = c.file /\ m.at = c.at /\ m.inBody = c.inBody
      /\ m.finishBody = c.finishBody
  <2>1. seg \in Seq(Piece)
    BY DEF Comes
  <2>2. Parses(m) /\ m.file = c.file /\ m.at = c.at
    BY <2>1, MoreOfBody
  <2>3. m.inBody = c.inBody /\ m.finishBody = c.finishBody
    BY <2>1, MoreOfBody
  <2> QED
    BY <2>2, <2>3
<1>4. m.body \in Seq(Piece) /\ Len(m.body) = Len(c.body) + n /\ m.at + Len(m.body) = l - p
  BY <1>2, LookedAt
<1>5. Copies(Stored(m), m.at, b, p) /\ Copies(m.body, Len(m.body), b, p + m.at)
  BY <1>2, LookedAt
<1>6. m.boundary = q /\ m.endBoundry = z
  BY <1>3 DEF Parses
<1>12. c.body \in Seq(Piece) /\ c.at \in Nat
  BY DEF Parses, Fit, ClientState
<1>13. m.open = c.open
  BY MoreOfBody DEF Comes
<1> HIDE DEF m
<1>7. Len(c.body) \in Nat /\ Len(m.body) = 1
  <2> DEFINE w == Len(c.body)
  <2>1. w \in Nat /\ Len(m.body) = w + n /\ ~(w + n >= 2)
    BY <1>4, <1>12, LenProperties
  <2> HIDE DEF w
  <2> QED
    BY <1>1, <2>1 DEF w
<1>8. ~Found(q, m.body) /\ ~Found(z, m.body)
  <2>1. Dashes \in Piece /\ Mark \in Piece
    BY DEF Piece
  <2>2. \A i : i \in Occurrences(q, m.body) <=>
          i \in 1..(Len(m.body) - 1) /\ m.body[i] = Dashes /\ m.body[i + 1] = Mark
    BY <1>4, <2>1, OccursTwo
  <2>3. \A i : i \in Occurrences(z, m.body) <=>
          i \in 1..(Len(m.body) - 2) /\ m.body[i] = Dashes /\ m.body[i + 1] = Mark
            /\ m.body[i + 2] = Dashes
    BY <1>4, <2>1, OccursThree
  <2>4. 1..(Len(m.body) - 1) = {} /\ 1..(Len(m.body) - 2) = {}
    BY <1>7
  <2> HIDE DEF q, z
  <2> QED
    BY <2>2, <2>3, <2>4 DEF Found
<1>9. ~Found(m.boundary, m.body) /\ ~Found(m.endBoundry, m.body) /\ x = HandleInBody(m)
  BY <1>6, <1>8 DEF m
<1>10. /\ Parses(x) /\ Moved(m, x)
       /\ Copies(Stored(x), x.at, b, p) /\ Copies(x.body, Len(x.body), b, p + x.at)
  BY <1>1, <1>3, <1>5, <1>9, MovesOn
<1>11. /\ x.file # "none" /\ x.open /\ x.inBody /\ ~x.finishBody
       /\ x.at + Len(x.body) = l - p
  BY <1>2, <1>3, <1>4, <1>10, <1>13 DEF Moved
<1>14. x.at \in Nat
  BY <1>10 DEF Parses, Fit, ClientState
<1>15. CASE x.at <= e - p
  <2>1. l < e + 3
    <3> DEFINE w == Len(c.body)
    <3>1. w \in Nat /\ c.at \in Nat /\ c.at + w = k - p /\ w + n = 1 /\ c.at <= e - p
      BY <1>2, <1>4, <1>7, <1>12
    <3> HIDE DEF w
    <3> QED
      BY <1>1, <3>1
  <2>2. InData(x, b, p, e, l)
    BY <1>10, <1>11, <1>15, <2>1 DEF InData, Copies
  <2> QED
    BY <1>10, <2>2 DEF Phase, Exact, l
<1>16. CASE x.at > e - p
  <2>1. Spilled(x, b, p, e, l)
    BY <1>10, <1>11, <1>16 DEF Spilled
  <2> QED
    BY <1>10, <2>1 DEF Phase, l
<1>17. x.at <= e - p \/ x.at > e - p
  BY <1>1, <1>14
<1> QED
  BY <1>15, <1>16, <1>17

\* Once something of the closing boundary is taken for data, no boundary is found any more.
LEMMA SpilledPhase ==
  ASSUME NEW c, NEW b, NEW p, NEW e, NEW k, NEW n, NEW seg,
         Parses(c), Spilled(c, b, p, e, k), Comes(b, p, e, k, n, seg),
         NEW x, x = HandleInBody(More(c, seg)), x.up
  PROVE  Parses(x) /\ Spilled(x, b, p, e, k + n)
<1> DEFINE m == More(c, seg)
           s == m.body
           q == <<Dashes, Mark>>
           z == <<Dashes, Mark, Dashes>>
           l == k + n
           o == p + m.at
<1>1. /\ p \in Nat /\ e \in Nat /\ k \in Nat /\ n \in Nat /\ p <= e /\ l <= e + 3 /\ 3 <= p
      /\ \A i \in 2..(e + 2) : i # e + 1 => ~(b[i] = Dashes /\ b[i + 1] = Mark)
  BY DEF Comes, Shape
<1>2. /\ c.file # "none" /\ c.inBody /\ ~c.finishBody /\ c.at > e - p
      /\ c.at + Len(c.body) = k - p
      /\ Copies(Stored(c), c.at, b, p) /\ Copies(c.body, Len(c.body), b, p + c.at)
  BY DEF Spilled
<1>3. Parses(m) /\ m.file = c.file /\ m.at = c.at /\ m.inBody = c.inBody
      /\ m.finishBody = c.finishBody
  <2>1. seg \in Seq(Piece)
    BY DEF Comes
  <2>2. Parses(m) /\ m.file = c.file /\ m.at = c.at
    BY <2>1, MoreOfBody
  <2>3. m.inBody = c.inBody /\ m.finishBody = c.finishBody
    BY <2>1, MoreOfBody
  <2> QED
    BY <2>2, <2>3
<1>4. s \in Seq(Piece) /\ m.at + Len(s) = l - p
  BY <1>2, LookedAt
<1>5. Copies(Stored(m), m.at, b, p) /\ Copies(s, Len(s), b, o)
  BY <1>2, LookedAt
<1>6. m.boundary = q /\ m.endBoundry = z
  BY <1>3 DEF Parses
<1>12. m.at \in Nat
  BY <1>3 DEF Parses, Fit, ClientState
<1> HIDE DEF m, s
<1>7. Len(s) \in Nat /\ o \in Nat /\ o > e /\ o + Len(s) = l
  <2> DEFINE w == Len(s)
             at == m.at
  <2>1. w \in Nat /\ at \in Nat /\ at > e - p /\ at + w = l - p
    BY <1>2, <1>3, <1>4, <1>12, LenProperties
  <2> HIDE DEF w, at
  <2>2. p + at \in Nat /\ p + at > e /\ (p + at) + w = l
    BY <1>1, <2>1
  <2> QED
    BY <2>1, <2>2 DEF w, at
<1> HIDE DEF o, l
<1>8. ASSUME NEW i \in 1..(Len(s) - 1), s[i] = Dashes, s[i + 1] = Mark
      PROVE  FALSE
  <2>1. i \in 1..Len(s) /\ i + 1 \in 1..Len(s)
    BY <1>7
  <2>2. b[o + i] = Dashes /\ b[o + (i + 1)] = Mark
    BY <1>5, <1>8, <2>1 DEF Copies
  <2> DEFINE h == o + i
             w == Len(s)
  <2>3. h \in 2..(e + 2) /\ h # e + 1 /\ o + (i + 1) = h + 1
    <3>1. w \in Nat /\ i \in 1..(w - 1) /\ o + w = l /\ l <= e + 3 /\ o > e /\ l \in Nat
      BY <1>1, <1>7 DEF l
    <3> HIDE DEF w
    <3> QED
      BY <1>1, <1>7, <3>1
  <2> HIDE DEF h
  <2> QED
    BY <1>1, <2>2, <2>3 DEF h
<1>9. ~Found(q, s) /\ ~Found(z, s)
  <2>1. Dashes \in Piece /\ Mark \in Piece
    BY DEF Piece
  <2>2. \A i : i \in Occurrences(q, s) <=>
          i \in 1..(Len(s) - 1) /\ s[i] = Dashes /\ s[i + 1] = Mark
    BY <1>4, <2>1, OccursTwo
  <2>3. \A i : i \in Occurrences(z, s) <=>
          i \in 1..(Len(s) - 2) /\ s[i] = Dashes /\ s[i + 1] = Mark /\ s[i + 2] = Dashes
    BY <1>4, <2>1, OccursThree
  <2>4. 1..(Len(s) - 2) \subseteq 1..(Len(s) - 1)
    BY <1>7
  <2> HIDE DEF q, z
  <2> QED
    BY <1>8, <2>2, <2>3, <2>4 DEF Found
<1>10. ~Found(m.boundary, m.body) /\ ~Found(m.endBoundry, m.body) /\ x = HandleInBody(m)
  BY <1>6, <1>9 DEF m, s
<1>11. /\ Parses(x) /\ Moved(m, x)
       /\ Copies(Stored(x), x.at, b, p) /\ Copies(x.body, Len(x.body), b, p + x.at)
  <2>1. Copies(Stored(m), m.at, b, p) /\ Copies(m.body, Len(m.body), b, p + m.at)
    BY <1>5 DEF s, o
  <2> QED
    BY <1>1, <1>3, <1>10, <2>1, MovesOn
<1>13. /\ x.file # "none" /\ x.inBody /\ ~x.finishBody
       /\ x.at + Len(x.body) = l - p /\ x.at >= m.at
  BY <1>2, <1>3, <1>4, <1>11 DEF Moved, s
<1>14. x.at > e - p
  <2>1. x.at \in Nat
    BY <1>11 DEF Parses, Fit, ClientState
  <2>2. m.at > e - p
    BY <1>2, <1>3
  <2> QED
    BY <1>1, <1>12, <1>13, <2>1, <2>2
<1> QED
  BY <1>11, <1>13, <1>14 DEF Spilled, l

\* Within the data the next bytes are data, or a boundary that ends them.
LEMMA DataPhase ==
  ASSUME NEW c, NEW b, NEW p, NEW e, NEW k, NEW n, NEW seg,
         Parses(c), InData(c, b, p, e, k), Comes(b, p, e, k, n, seg),
         Len(c.body) + n >= 2,
         NoBlank(b, p, e),
         NEW x, x = HandleInBody(More(c, seg)), x.up
  PROVE  Parses(x) /\ Exact(x, b, p, e, k + n) /\ (k + n = e + 3 => ~x.inBody)
<1>1. /\ b[e + 1] = Dashes /\ b[e + 2] = Mark /\ b[e + 3] = Dashes
      /\ \A i \in 2..(e + 2) : i # e + 1 => ~(b[i] = Dashes /\ b[i + 1] = Mark)
  BY DEF Comes, Shape
<1>2. seg \in Seq(Piece) /\ Len(seg) = n /\ \A i \in 1..n : seg[i] = b[k + i]
  BY DEF Comes
<1> DEFINE m == More(c, seg)
           l == k + n
           s == m.body
           at == c.at
           o == p + at
           j == e + 1 - o
<1>3. /\ c.file # "none" /\ c.open /\ c.inBody /\ ~c.finishBody
      /\ Copies(Stored(c), c.at, b, p) /\ Copies(c.body, Len(c.body), b, p + c.at)
  BY DEF InData, Copies
<1>20. /\ p \in Nat /\ e \in Nat /\ k \in Nat /\ n \in Nat /\ at \in Nat
       /\ Len(c.body) \in Nat
  <2>1. c.body \in Seq(Piece) /\ c.at \in Nat
    BY DEF Parses, Fit, ClientState
  <2> QED
    BY <2>1, LenProperties DEF Comes, Shape
<1>21. /\ 3 <= p /\ p <= e /\ n >= 1 /\ k + n <= e + 3
       /\ at <= e - p /\ at + Len(c.body) = k - p
  BY DEF Comes, Shape, InData
<1>4. Parses(m) /\ Stored(m) = Stored(c) /\ m.file = c.file /\ m.at = c.at
  BY <1>2, MoreOfBody
<1>5. m.open /\ m.inBody /\ ~m.finishBody
  <2>1. m.open = c.open /\ m.inBody = c.inBody /\ m.finishBody = c.finishBody
    BY <1>2, MoreOfBody
  <2> QED
    BY <1>3, <2>1
<1>22. s \in Seq(Piece) /\ Len(s) = Len(c.body) + n
  BY <1>2, MoreOfBody
<1>23. \A h \in 1..(Len(c.body) + n) :
         s[h] = IF h <= Len(c.body) THEN c.body[h] ELSE seg[h - Len(c.body)]
  BY SMTT(90), <1>2, MoreOfBody
<1> HIDE DEF m, s
<1>7. Len(s) \in Nat /\ Len(s) >= 2
  BY <1>20, <1>22
<1> HIDE DEF at
<1>9. /\ o \in Nat /\ o >= 3 /\ l \in Nat /\ l <= e + 3 /\ j \in Nat /\ j >= 1
      /\ o + j = e + 1 /\ at + (j - 1) = e - p /\ o + Len(s) = l /\ o = p + at
  <2> DEFINE w == Len(c.body)
  <2>1. p \in Nat /\ e \in Nat /\ k \in Nat /\ n \in Nat /\ at \in Nat /\ w \in Nat
    BY <1>20
  <2>2. 3 <= p /\ p <= e /\ k + n <= e + 3 /\ at <= e - p /\ at + w = k - p
    BY <1>21
  <2>3. Len(s) = w + n
    BY <1>22
  <2> HIDE DEF w
  <2>4. o \in Nat /\ o >= 3 /\ o <= e /\ o = p + at
    BY <2>1, <2>2
  <2>5. l \in Nat /\ l <= e + 3
    BY <2>1, <2>2
  <2>6. o + Len(s) = l
    BY <2>1, <2>2, <2>3
  <2> HIDE DEF o
  <2>7. j \in Nat /\ j >= 1 /\ o + j = e + 1
    BY <2>1, <2>4
  <2>8. at + (j - 1) = e - p
    BY <2>1, <2>4
  <2> QED
    BY <2>4, <2>5, <2>6, <2>7, <2>8
<1>24. k = o + Len(c.body)
  <2> DEFINE w == Len(c.body)
  <2>1. p \in Nat /\ k \in Nat /\ at \in Nat /\ w \in Nat
    BY <1>20
  <2>2. at + w = k - p
    BY <1>21
  <2> HIDE DEF w
  <2>3. k = (p + at) + w
    BY <2>1, <2>2
  <2> QED
    BY <2>3 DEF w
<1> HIDE DEF o, l, j
<1>8. \A i \in 1..Len(s) : s[i] = b[o + i]
  <2> TAKE i \in 1..Len(s)
  <2>1. i \in Nat /\ i >= 1 /\ i <= Len(c.body) + n
    BY <1>7, <1>22
  <2>2. CASE i <= Len(c.body)
    <3>1. i \in 1..Len(c.body) /\ i \in 1..(Len(c.body) + n)
      BY <1>20, <2>1, <2>2
    <3>2. c.body[i] = b[(p + c.at) + i]
      BY <1>3, <3>1 DEF Copies
    <3> QED
      BY <1>23, <2>2, <3>1, <3>2 DEF o, at
  <2>3. CASE i > Len(c.body)
    <3> DEFINE h == i - Len(c.body)
    <3>1. ~(i <= Len(c.body)) /\ h \in 1..n /\ i \in 1..(Len(c.body) + n)
      BY <1>20, <2>1, <2>3
    <3>2. s[i] = seg[h]
      BY <1>23, <3>1
    <3>3. k + h = o + i
      <4> DEFINE w == Len(c.body)
      <4>1. w \in Nat /\ o \in Nat /\ k = o + w
        BY <1>9, <1>20, <1>24
      <4> HIDE DEF w
      <4>2. k + (i - w) = o + i
        BY <2>1, <4>1
      <4> QED
        BY <4>2 DEF w
    <3> HIDE DEF h
    <3> QED
      BY <1>2, <3>1, <3>2, <3>3
  <2> QED
    BY <1>20, <2>1, <2>2, <2>3
<1>10. /\ m.boundary = <<Dashes, Mark>> /\ m.endBoundry = <<Dashes, Mark, Dashes>>
       /\ Fit(m)
  BY <1>4 DEF Parses
<1> DEFINE q == <<Dashes, Mark>>
           z == <<Dashes, Mark, Dashes>>
<1>11. q \in Seq(Piece) /\ Len(q) = 2 /\ z \in Seq(Piece) /\ Len(z) = 3
  BY DEF Piece
<1>12. x = Looked(Ended(m)) /\ Fit(Ended(m))
  BY <1>10, LooksTwice DEF m
\* Where the boundary is.
<1>13. \A i : i \in Occurrences(q, s) <=> i = j /\ j + 1 <= Len(s)
  <2>1. \A i : i \in Occurrences(q, s) <=>
          i \in 1..(Len(s) - 1) /\ s[i] = Dashes /\ s[i + 1] = Mark
    <3>1. Dashes \in Piece /\ Mark \in Piece
      BY DEF Piece
    <3> QED
      BY <1>22, <3>1, OccursTwo
  <2>2. ASSUME NEW i \in Occurrences(q, s) PROVE i = j /\ j + 1 <= Len(s)
    <3>1. i \in 1..(Len(s) - 1) /\ s[i] = Dashes /\ s[i + 1] = Mark
      BY <2>1
    <3>2. i \in 1..Len(s) /\ i + 1 \in 1..Len(s)
      BY <1>7, <3>1
    <3>3. b[o + i] = Dashes /\ b[o + (i + 1)] = Mark
      BY <1>8, <3>1, <3>2
    <3> DEFINE h == o + i
    <3>4. o + (i + 1) = h + 1 /\ h \in 2..(e + 2)
      BY <1>7, <1>9, <1>20, <3>1
    <3>5. b[h] = Dashes /\ b[h + 1] = Mark
      BY <3>3, <3>4
    <3> HIDE DEF h
    <3>6. h = e + 1
      BY <1>1, <3>4, <3>5
    <3> QED
      BY <1>7, <1>9, <1>20, <3>1, <3>6 DEF h
  <2>3. ASSUME j + 1 <= Len(s) PROVE j \in Occurrences(q, s)
    <3>1. j \in 1..(Len(s) - 1) /\ j \in 1..Len(s) /\ j + 1 \in 1..Len(s)
      BY <1>7, <1>9, <2>3
    <3>2. o + (j + 1) = e + 2
      BY <1>9, <1>20
    <3>3. s[j] = b[e + 1] /\ s[j + 1] = b[e + 2]
      BY <1>8, <1>9, <3>1, <3>2
    <3> QED
      BY <1>1, <2>1, <3>1, <3>3
  <2> QED
    BY <2>2, <2>3
<1>14. \A i : i \in Occurrences(z, s) <=> i = j /\ j + 2 <= Len(s)
  <2>1. \A i : i \in Occurrences(z, s) <=>
          i \in 1..(Len(s) - 2) /\ s[i] = Dashes /\ s[i + 1] = Mark /\ s[i + 2] = Dashes
    <3>1. Dashes \in Piece /\ Mark \in Piece
      BY DEF Piece
    <3> QED
      BY <1>22, <3>1, OccursThree
  <2>2. \A i : i \in Occurrences(q, s) <=>
          i \in 1..(Len(s) - 1) /\ s[i] = Dashes /\ s[i + 1] = Mark
    <3>1. Dashes \in Piece /\ Mark \in Piece
      BY DEF Piece
    <3> QED
      BY <1>22, <3>1, OccursTwo
  <2>3. ASSUME NEW i \in Occurrences(z, s) PROVE i = j /\ j + 2 <= Len(s)
    <3>1. i \in 1..(Len(s) - 2) /\ s[i] = Dashes /\ s[i + 1] = Mark
      BY <2>1
    <3>2. i \in 1..(Len(s) - 1) /\ i + 2 <= Len(s)
      BY <1>7, <3>1
    <3>3. i = j
      BY <1>13, <2>2, <3>1, <3>2
    <3> QED
      BY <3>2, <3>3
  <2>4. ASSUME j + 2 <= Len(s) PROVE j \in Occurrences(z, s)
    <3>1. j \in 1..(Len(s) - 2) /\ j + 2 \in 1..Len(s) /\ j + 1 <= Len(s)
      BY <1>7, <1>9, <2>4
    <3>2. s[j] = Dashes /\ s[j + 1] = Mark
      BY <1>13, <2>2, <3>1
    <3>3. o + (j + 2) = e + 3
      BY <1>9, <1>20
    <3>4. s[j + 2] = b[e + 3]
      BY <1>8, <3>1, <3>3
    <3> QED
      BY <1>1, <2>1, <3>1, <3>2, <3>4
  <2> QED
    BY <2>3, <2>4
<1>15. ASSUME NEW i \in 1..Len(s) PROVE s[i] # Blank
  <2>1. o + i \in (p + 1)..(e + 3)
    BY <1>7, <1>9, <1>20
  <2> QED
    BY <1>8, <2>1 DEF NoBlank
<1>16. m.file # "none" /\ m.at = at /\ o = p + m.at /\ Copies(Stored(m), m.at, b, p)
  BY <1>3, <1>4 DEF at, o
\* Neither the end nor a boundary has come.
<1>17. CASE l < e + 2
  <2>1. ~Found(q, s) /\ ~Found(z, s)
    <3>1. ~(j + 1 <= Len(s)) /\ ~(j + 2 <= Len(s))
      BY <1>7, <1>9, <1>17, <1>20
    <3> QED
      BY <1>13, <1>14, <3>1 DEF Found
  <2>2. x = Looked(m)
    BY <1>10, <1>12, <2>1 DEF Ended, s
  <2>3. SafeZone(m) = Len(s) - 2
    BY <1>7, <1>10, <1>11 DEF SafeZone, s
  <2>4. CASE Len(s) = 2
    <3>1. x = m
      BY <1>10, <2>1, <2>2, <2>3, <2>4 DEF Looked, s
    <3>2. m.at + Len(m.body) = l - p /\ m.at <= e - p
      <4>1. at + Len(s) = l - p
        BY <1>7, <1>9, <1>20
      <4> QED
        BY <1>16, <1>21, <4>1 DEF s
    <3>3. Copies(m.body, Len(m.body), b, p + m.at)
      BY <1>8, <1>16 DEF s, Copies
    <3>4. l < e + 3
      BY <1>9, <1>17, <1>20
    <3>5. InData(m, b, p, e, l)
      BY <1>5, <1>16, <3>2, <3>3, <3>4 DEF InData, Copies
    <3>6. l # e + 3
      BY <1>20, <1>9, <3>4
    <3> QED
      BY <1>4, <3>1, <3>5, <3>6 DEF Exact, l
  <2>5. CASE Len(s) > 2
    <3> DEFINE y == Len(s) - 2
               u == SubSeq(s, 1, y)
               r == Drop(y, s)
    <3>1. y \in 0..Len(s) /\ y > 0 /\ y \in Nat
      BY <1>7, <2>5
    <3>2. u \in Seq(Piece) /\ Len(u) = y /\ \A i \in 1..y : u[i] = s[i]
      BY <1>7, <1>22, <3>1, SubSeqFacts
    <3>3. r \in Seq(Piece) /\ Len(r) = 2 /\ \A i \in 1..2 : r[i] = s[y + i]
      <4>1. /\ Drop(y, s) \in Seq(Piece)
            /\ Len(Drop(y, s)) = IF y <= Len(s) THEN Len(s) - y ELSE 0
            /\ \A i \in 1..(Len(s) - y) : Drop(y, s)[i] = s[y + i]
        BY <1>22, <3>1, DropFacts
      <4>2. y <= Len(s) /\ Len(s) - y = 2
        BY <1>7, <2>5
      <4> HIDE DEF y, r
      <4>3. r = Drop(y, s)
        BY DEF r
      <4> QED
        BY <4>1, <4>2, <4>3
    <3>4. x = Wrote(m, u, r)
      BY <1>10, <2>1, <2>2, <2>3, <3>1 DEF Looked, Wrote, KeptBack, s
    <3> HIDE DEF u, r
    <3>5. Fit(x) /\ Steady(m, x) /\ x.open
      BY <1>10, <3>2, <3>3, <3>4, WritesAndKeeps
    <3>6. x.inBody = m.inBody /\ x.finishBody = m.finishBody
      BY <1>10, <3>2, <3>3, <3>4, WritesAndKeeps
    <3>7. x.file = m.file /\ x.at = m.at + Len(u) /\ x.body = r
          /\ Stored(x) = Stored(m) \o u
      BY SMTT(90), <1>10, <3>2, <3>3, <3>4, WritesAndKeeps
    <3>8. Parses(x)
      BY <1>4, <3>5 DEF Parses, Steady
    <3>9. Copies(u, Len(u), b, p + m.at)
      <4>1. ASSUME NEW i \in 1..y PROVE u[i] = b[o + i]
        <5>1. i \in 1..Len(s)
          BY <1>7, <3>1
        <5> QED
          BY <1>8, <3>2, <5>1
      <4> QED
        BY <1>16, <3>2, <4>1 DEF Copies
    <3>10. Copies(Stored(x), x.at, b, p)
      <4>1. Copies(Stored(x), m.at + Len(u), b, p)
        BY <1>5, <1>10, <1>16, <1>20, <3>2, <3>7, <3>9, DataGrow
      <4> QED
        BY <3>7, <4>1
    <3>16. x.at = at + y
      BY <1>16, <3>2, <3>7
    <3>11. at + y + 2 = l - p /\ at + y <= e - p
      BY <1>7, <1>9, <1>17, <1>20
    <3>12. Copies(x.body, Len(x.body), b, p + x.at)
      <4> SUFFICES ASSUME NEW i \in 1..Len(x.body) PROVE x.body[i] = b[(p + x.at) + i]
        BY DEF Copies
      <4>1. i \in 1..2
        BY <3>3, <3>7
      <4>2. y + i \in 1..Len(s) /\ o + (y + i) = (p + (at + y)) + i
        BY <1>7, <1>9, <1>20, <4>1
      <4>3. x.body[i] = s[y + i]
        BY <3>3, <3>7, <4>1
      <4> HIDE DEF y
      <4>4. s[y + i] = b[o + (y + i)]
        BY <1>8, <4>2
      <4> QED
        BY <3>16, <4>2, <4>3, <4>4
    <3>13. l < e + 3 /\ x.at + Len(x.body) = l - p /\ x.at <= e - p
      <4>1. l < e + 3
        BY <1>9, <1>17, <1>20
      <4> HIDE DEF y
      <4> QED
        BY <3>3, <3>7, <3>11, <3>16, <4>1
    <3>14. InData(x, b, p, e, l)
      BY <1>5, <1>16, <3>5, <3>6, <3>7, <3>10, <3>12, <3>13 DEF InData, Copies
    <3>15. l # e + 3
      BY <1>9, <1>17, <1>20
    <3> QED
      BY <3>8, <3>14, <3>15 DEF Exact, l
  <2>6. Len(s) = 2 \/ Len(s) > 2
    <3> DEFINE w == Len(s)
    <3>1. w \in Nat /\ w >= 2
      BY <1>7
    <3> HIDE DEF w
    <3>2. w = 2 \/ w > 2
      BY <3>1
    <3> QED
      BY <3>2 DEF w
  <2> QED
    BY <2>4, <2>5, <2>6
\* A boundary has come, and what follows it in a closing one has not.
<1>18. CASE l = e + 2
  <2>1. j + 1 <= Len(s) /\ ~(j + 2 <= Len(s))
    BY <1>7, <1>9, <1>18, <1>20
  <2>2. ~Found(z, s) /\ j \in Occurrences(q, s) /\ \A i \in Occurrences(q, s) : j <= i
    BY SMTT(90), <1>9, <1>13, <1>14, <2>1 DEF Found
  <2>3. Found(q, s) /\ Find(q, s) = j
    <3> HIDE DEF q
    <3> QED
      BY <1>22, <1>11, <2>2, FoundAt
  <2> DEFINE u == Before(q, s)
  <2>4. u \in Seq(Piece) /\ Len(u) = j - 1 /\ \A i \in 1..(j - 1) : u[i] = s[i]
    <3>1. j - 1 \in Nat /\ j - 1 <= Len(s)
      BY <1>7, <1>9, <2>1
    <3>2. /\ SubSeq(s, 1, j - 1) \in Seq(Piece)
          /\ Len(SubSeq(s, 1, j - 1)) = IF 1 <= j - 1 THEN (j - 1) - 1 + 1 ELSE 0
          /\ \A i \in 1..((j - 1) - 1 + 1) : SubSeq(s, 1, j - 1)[i] = s[1 + i - 1]
      BY <1>7, <1>22, <3>1, SubSeqFacts
    <3>3. u = SubSeq(s, 1, j - 1)
      BY <2>3 DEF Before
    <3> HIDE DEF u
    <3> QED
      BY <3>1, <3>2, <3>3
  <2>5. x = PartEnds(AppendBody(m, u))
    BY <1>10, <1>12, <2>2, <2>3 DEF Ended, Looked, s
  <2> HIDE DEF u
  <2>15. WroteEnd(m, u, x)
    BY <1>10, <2>4, <2>5, WritesAndCloses
  <2>6. Fit(x) /\ Steady(m, x) /\ ~x.open /\ ~x.inBody
    BY <2>15 DEF WroteEnd
  <2>7. x.file = m.file /\ x.at = m.at + Len(u) /\ x.body = m.body
        /\ Stored(x) = Stored(m) \o u
    BY <2>15 DEF WroteEnd
  <2>8. Parses(x)
    BY <1>4, <2>6 DEF Parses, Steady
  <2>9. Copies(u, Len(u), b, p + m.at)
    <3> SUFFICES ASSUME NEW i \in 1..Len(u) PROVE u[i] = b[(p + m.at) + i]
      BY DEF Copies
    <3>1. i \in 1..(j - 1) /\ i \in 1..Len(s)
      BY <1>7, <1>9, <2>1, <2>4
    <3>2. u[i] = b[o + i]
      BY <1>8, <2>4, <3>1
    <3> QED
      BY <1>16, <3>2
  <2>10. Copies(Stored(x), x.at, b, p)
    <3>1. Copies(Stored(x), m.at + Len(u), b, p)
      BY <1>5, <1>10, <1>16, <1>20, <2>4, <2>7, <2>9, DataGrow
    <3> QED
      BY <2>7, <3>1
  <2>11. x.at = e - p
    BY <1>9, <1>16, <2>4, <2>7
  <2>12. \A i \in 1..Len(x.body) : x.body[i] # Blank
    BY <1>15, <2>7 DEF s
  <2>13. p <= l
    BY <1>18, <1>20, <1>21
  <2>14. DataStored(x, b, p, e, l)
    BY <1>16, <2>6, <2>7, <2>10, <2>11, <2>12, <2>13 DEF DataStored, Copies
  <2> QED
    BY <2>6, <2>8, <2>14 DEF Exact, l
\* The closing boundary has come.
<1>19. CASE l = e + 3
  <2>1. j + 1 <= Len(s) /\ j + 2 = Len(s)
    BY <1>7, <1>9, <1>19, <1>20
  <2>2. j \in Occurrences(z, s) /\ \A i \in Occurrences(z, s) : j <= i
    BY SMTT(90), <1>9, <1>14, <2>1
  <2>3. Found(z, s) /\ Find(z, s) = j
    <3> HIDE DEF z
    <3> QED
      BY <1>22, <1>11, <2>2, FoundAt
  <2> DEFINE u == Before(z, s)
             r == From(z, s)
             f == WroteLast(m, u, r)
  <2>4. u \in Seq(Piece) /\ Len(u) = j - 1 /\ \A i \in 1..(j - 1) : u[i] = s[i]
    <3>1. j - 1 \in Nat /\ j - 1 <= Len(s)
      BY <1>7, <1>9, <2>1
    <3>2. /\ SubSeq(s, 1, j - 1) \in Seq(Piece)
          /\ Len(SubSeq(s, 1, j - 1)) = IF 1 <= j - 1 THEN (j - 1) - 1 + 1 ELSE 0
          /\ \A i \in 1..((j - 1) - 1 + 1) : SubSeq(s, 1, j - 1)[i] = s[1 + i - 1]
      BY <1>7, <1>22, <3>1, SubSeqFacts
    <3>3. u = SubSeq(s, 1, j - 1)
      BY <2>3 DEF Before
    <3> HIDE DEF u
    <3> QED
      BY <3>1, <3>2, <3>3
  <2>5. r \in Seq(Piece) /\ Len(r) = 3 /\ \A i \in 1..3 : r[i] = s[j + i - 1]
    <3>1. j \in Nat /\ Len(s) \in Nat /\ j >= 1 /\ Len(s) <= Len(s)
      BY <1>7, <1>9
    <3>2. /\ SubSeq(s, j, Len(s)) \in Seq(Piece)
          /\ Len(SubSeq(s, j, Len(s))) = IF j <= Len(s) THEN Len(s) - j + 1 ELSE 0
          /\ \A i \in 1..(Len(s) - j + 1) : SubSeq(s, j, Len(s))[i] = s[j + i - 1]
      BY <1>7, <1>22, <3>1, SubSeqFacts
    <3>3. r = SubSeq(s, j, Len(s))
      BY <2>3 DEF From
    <3>4. j <= Len(s) /\ Len(s) - j + 1 = 3
      BY <1>9, <2>1
    <3> HIDE DEF r
    <3> QED
      BY <3>2, <3>3, <3>4
  <2>6. Ended(m) = f
    BY <1>10, <2>3 DEF Ended, WroteLast, s
  <2>7. x = Looked(f) /\ Fit(f)
    BY <1>12, <2>6
  <2> HIDE DEF u, r
  <2>8. f.boundary = q /\ f.body = r
    <3> DEFINE a == AppendBody(m, u)
    <3>1. Fit(a)
      BY <1>10, <2>4, AppendBodyFacts
    <3>2. Steady(m, a)
      BY <1>10, <2>4, AppendBodyFacts
    <3>3. f = [a EXCEPT !.body = r, !.finishBody = TRUE]
      BY DEF WroteLast
    <3> HIDE DEF a, f
    <3> QED
      BY <1>10, <3>1, <3>2, <3>3 DEF Fit, ClientState, Steady
  <2>9. Found(q, r) /\ Find(q, r) = 1
    <3>1. \A i : i \in Occurrences(q, r) <=>
            i \in 1..(Len(r) - 1) /\ r[i] = Dashes /\ r[i + 1] = Mark
      <4>1. Dashes \in Piece /\ Mark \in Piece
        BY DEF Piece
      <4> QED
        BY SMTT(90), <2>5, <4>1, OccursTwo DEF q
    <3>2. s[j] = Dashes /\ s[j + 1] = Mark
      <4>1. j \in Occurrences(q, s)
        BY <1>13, <2>1
      <4>2. Dashes \in Piece /\ Mark \in Piece
        BY DEF Piece
      <4> QED
        BY <1>22, <4>1, <4>2, OccursTwo
    <3>3. 1 \in 1..3 /\ 2 \in 1..3 /\ j + 1 - 1 = j /\ j + 2 - 1 = j + 1
      BY <1>9
    <3>4. r[1] = Dashes /\ r[2] = Mark
      BY <2>5, <3>2, <3>3
    <3>5. 1 \in Occurrences(q, r) /\ \A i \in Occurrences(q, r) : 1 <= i
      BY <2>5, <3>1, <3>4
    <3> HIDE DEF q
    <3> QED
      BY <1>11, <2>5, <3>5, FoundAt
  <2> DEFINE w == Before(q, r)
  <2>10. w = <<>>
    <3>1. w = SubSeq(r, 1, 0)
      BY <2>9 DEF Before
    <3> QED
      BY <2>5, <3>1, SubSeqEmpty
  <2>12. w \in Seq(Piece) /\ Len(w) = 0
    BY <2>10
  <2>11. x = PartEnds(AppendBody(f, w))
    <3> HIDE DEF f, w, q
    <3>1. Found(f.boundary, f.body) /\ w = Before(f.boundary, f.body)
      BY <2>8, <2>9 DEF w
    <3> QED
      BY <2>7, <3>1 DEF Looked
  <2> HIDE DEF f, w
  <2>21. OnlyClosed(f, x)
    BY <2>7, <2>11, <2>12, OnlyCloses
  <2>13. Fit(x) /\ Steady(f, x) /\ f.up /\ ~x.open /\ ~x.inBody
    BY <2>21 DEF OnlyClosed
  <2>14. x.file = f.file /\ x.at = f.at /\ x.body = f.body /\ Stored(x) = Stored(f)
    BY <2>21 DEF OnlyClosed
  <2>15. f.file = m.file /\ f.at = m.at + Len(u) /\ Stored(f) = Stored(m) \o u
    BY <1>10, <2>4, <2>5, <2>13, WritesAndEnds DEF f
  <2>16. Steady(m, f)
    BY <1>10, <2>4, <2>5, <2>13, WritesAndEnds DEF f
  <2>17. Parses(x)
    BY <1>4, <2>13, <2>16 DEF Parses, Steady
  <2>18. Copies(u, Len(u), b, p + m.at)
    <3> SUFFICES ASSUME NEW i \in 1..Len(u) PROVE u[i] = b[(p + m.at) + i]
      BY DEF Copies
    <3>1. i \in 1..(j - 1) /\ i \in 1..Len(s)
      BY <1>7, <1>9, <2>1, <2>4
    <3>2. u[i] = b[o + i]
      BY <1>8, <2>4, <3>1
    <3> QED
      BY <1>16, <3>2
  <2>19. f.at = e - p /\ f.at \in Nat /\ x.at = f.at
    <3>1. f.at \in Nat
      BY <2>7 DEF Fit, ClientState
    <3> QED
      BY <1>9, <1>16, <2>4, <2>14, <2>15, <3>1
  <2>20. Copies(Stored(f), f.at, b, p)
    <3>1. Copies(Stored(f), m.at + Len(u), b, p)
      BY <1>5, <1>10, <1>16, <1>20, <2>4, <2>15, <2>18, DataGrow
    <3> QED
      BY <2>15, <3>1
  <2>22. \A i \in 1..Len(x.body) : x.body[i] # Blank
    <3> TAKE i \in 1..Len(x.body)
    <3>1. i \in 1..3 /\ x.body = r
      BY <2>5, <2>8, <2>14
    <3>2. j + i - 1 \in 1..Len(s)
      BY SMTT(60), <1>7, <1>9, <2>1, <3>1
    <3>3. r[i] = s[j + i - 1]
      BY <2>5, <3>1
    <3> QED
      BY <1>15, <3>1, <3>2, <3>3
  <2>23. p <= l
    BY <1>19, <1>20, <1>21
  <2>24. x.file # "none"
    BY <1>16, <2>14, <2>15
  <2>25. DataStored(x, b, p, e, l)
    BY <2>13, <2>14, <2>19, <2>20, <2>22, <2>23, <2>24 DEF DataStored, Copies
  <2> QED
    BY <2>13, <2>17, <2>25 DEF Exact, l
<1> QED
  BY <1>9, <1>17, <1>18, <1>19, <1>20

\* Nothing of a boundary is taken for data on the way from c to x.
Careful(c, x, b, p, e, k, n) ==
  /\ Exact(c, b, p, e, k)
  /\ c.inBody /\ ~c.finishBody => Len(c.body) + n >= 2
  /\ c.file = "none" /\ x.file # "none" => k + n <= e

\* From one phase to the next.
LEMMA PhaseStep ==
  ASSUME NEW c, NEW b, NEW p, NEW e, NEW k, NEW n, NEW seg,
         request.store = "usable", Parses(c), Phase(c, b, p, e, k),
         Comes(b, p, e, k, n, seg), NoBlank(b, p, e),
         NEW x, x = IF c.inBody /\ ~c.finishBody THEN HandleInBody(More(c, seg))
                    ELSE HandleBodyHeaders(More(c, seg)),
         x.up
  PROVE  /\ Parses(x) /\ Phase(x, b, p, e, k + n)
         /\ Careful(c, x, b, p, e, k, n) => Exact(x, b, p, e, k + n)
<1>1. CASE InHeaders(c, b, p, k)
  <2>1. ~c.inBody /\ c.file = "none"
    BY <1>1 DEF InHeaders
  <2>2. x = HandleBodyHeaders(More(c, seg))
    BY <2>1
  <2>3. /\ Parses(x) /\ Phase(x, b, p, e, k + n)
        /\ (x.file # "none" => k + n <= e) => Exact(x, b, p, e, k + n)
    BY <1>1, <2>2, HeadersPhase
  <2> QED
    BY <2>1, <2>3 DEF Careful
<1>2. CASE Unnamed(c, b, e, k)
  <2>1. c.inBody /\ ~c.finishBody
    BY <1>2 DEF Unnamed
  <2>2. x = HandleInBody(More(c, seg))
    BY <2>1
  <2> QED
    BY <1>2, <2>2, UnnamedPhase
<1>3. CASE InData(c, b, p, e, k)
  <2>1. c.inBody /\ ~c.finishBody
    BY <1>3 DEF InData
  <2>2. x = HandleInBody(More(c, seg))
    BY <2>1
  <2>3. CASE Len(c.body) + n >= 2
    <3>1. Parses(x) /\ Exact(x, b, p, e, k + n)
      BY <1>3, <2>2, <2>3, DataPhase
    <3> QED
      BY <3>1 DEF Phase
  <2>4. CASE ~(Len(c.body) + n >= 2)
    <3>1. Parses(x) /\ Phase(x, b, p, e, k + n)
      BY <1>3, <2>2, <2>4, ShortPhase
    <3> QED
      BY <2>1, <2>4, <3>1 DEF Careful
  <2> QED
    BY <2>3, <2>4
<1>4. CASE DataStored(c, b, p, e, k)
  <2>1. ~c.inBody
    BY <1>4 DEF DataStored
  <2>2. x = HandleBodyHeaders(More(c, seg))
    BY <2>1
  <2>3. Parses(x) /\ Exact(x, b, p, e, k + n)
    BY <1>4, <2>2, StoredPhase
  <2> QED
    BY <2>3 DEF Phase
<1>5. CASE Spilled(c, b, p, e, k) /\ ~Exact(c, b, p, e, k)
  <2>1. c.inBody /\ ~c.finishBody
    BY <1>5 DEF Spilled
  <2>2. x = HandleInBody(More(c, seg))
    BY <2>1
  <2>3. Parses(x) /\ Spilled(x, b, p, e, k + n)
    BY <1>5, <2>2, SpilledPhase
  <2> QED
    BY <1>5, <2>3 DEF Phase, Careful
<1> QED
  BY <1>1, <1>2, <1>3, <1>4, <1>5 DEF Phase, Exact

\* The phase is one of these fields.
SameFile(c, d) ==
  /\ d.file = c.file /\ d.at = c.at /\ d.disk = c.disk /\ d.body = c.body
  /\ d.inBody = c.inBody /\ d.finishBody = c.finishBody

LEMMA SamePhase ==
  ASSUME NEW c, NEW d, SameFile(c, d), d.open = c.open,
         NEW b, NEW p, NEW e, NEW k
  PROVE  /\ Exact(c, b, p, e, k) => Exact(d, b, p, e, k)
         /\ Phase(c, b, p, e, k) => Phase(d, b, p, e, k)
<1>1. Stored(d) = Stored(c)
  BY DEF Stored, SameFile
<1>2. InHeaders(c, b, p, k) => InHeaders(d, b, p, k)
  BY DEF InHeaders, SameFile
<1>3. Unnamed(c, b, e, k) => Unnamed(d, b, e, k)
  BY DEF Unnamed, SameFile
<1>4. InData(c, b, p, e, k) => InData(d, b, p, e, k)
  BY <1>1 DEF InData, SameFile
<1>5. DataStored(c, b, p, e, k) => DataStored(d, b, p, e, k)
  BY <1>1 DEF DataStored, SameFile
<1>6. Spilled(c, b, p, e, k) => Spilled(d, b, p, e, k)
  BY <1>1 DEF Spilled, SameFile
<1> QED
  BY <1>2, <1>3, <1>4, <1>5, <1>6 DEF Phase, Exact

\* When the whole body has come, all of the data are stored.
LEMMA LastPhase ==
  ASSUME NEW c, NEW b, NEW p, NEW e, Shape(b, p, e)
  PROVE  Exact(c, b, p, e, e + 3) => DataStored(c, b, p, e, e + 3)
<1>1. p \in Nat /\ e \in Nat /\ p <= e
  BY DEF Shape
<1>2. ~(e + 3 < p) /\ ~(e + 3 < e + 3)
  BY <1>1
<1> QED
  BY <1>2 DEF Exact, InHeaders, Unnamed, InData

\* One recv() of such a body.
LEMMA PostPhase ==
  ASSUME NEW c, Ready(c), NEW b, NEW p, NEW e, NEW k, NEW n, NEW seg,
         request.store = "usable", Parses(c), Phase(c, b, p, e, k),
         Comes(b, p, e, k, n, seg), NoBlank(b, p, e), c.bodySize + k = e + 3,
         NEW d, d = HandlePost(c, seg), d.up
  PROVE  /\ Parses(d) /\ Phase(d, b, p, e, k + n)
         /\ Careful(c, d, b, p, e, k, n) => Exact(d, b, p, e, k + n)
         /\ d.answer = "200" =>
              \/ DataStored(d, b, p, e, k + n)
              \/ Spilled(d, b, p, e, k + n) /\ ~Careful(c, d, b, p, e, k, n)
<1> DEFINE x == IF c.inBody /\ ~c.finishBody THEN HandleInBody(More(c, seg))
                ELSE HandleBodyHeaders(More(c, seg))
           y == [x EXCEPT !.bodySize = @ - n]
<1>1. /\ seg \in Seq(Piece) /\ Len(seg) = n /\ n \in Nat /\ k \in Nat /\ e \in Nat
      /\ k + n <= e + 3 /\ Shape(b, p, e) /\ ~c.oneBody /\ n >= 1
  BY DEF Comes, Shape, Parses
<1>2. c.bodySize \in Nat
  BY DEF Ready, Fit, ClientState
<1>3. Least(Len(seg), c.bodySize) = n /\ n <= c.bodySize
  BY <1>1, <1>2 DEF Least
<1>4. SubSeq(seg, 1, n) = seg
  BY <1>1, SubSeqFull
<1>5. d = IF y.bodySize = 0 THEN UploadDone(y) ELSE y
  BY <1>1, <1>3, <1>4 DEF HandlePost, ToAppend, More
<1>6. Took(c, seg, x)
  <2>1. CASE c.inBody /\ ~c.finishBody
    <3>1. x = HandleInBody(More(c, seg))
      BY <2>1
    <3> HIDE DEF x
    <3> QED
      BY <1>1, <1>3, <2>1, <3>1, TookInBody
  <2>2. CASE ~(c.inBody /\ ~c.finishBody)
    <3>1. x = HandleBodyHeaders(More(c, seg))
      BY <2>2
    <3> HIDE DEF x
    <3> QED
      BY <1>1, <1>3, <2>2, <3>1, TookHeaders
  <2> QED
    BY <2>1, <2>2
<1>7. x = IF c.inBody /\ ~c.finishBody THEN HandleInBody(More(c, seg))
          ELSE HandleBodyHeaders(More(c, seg))
  OBVIOUS
<1> HIDE DEF x
<1>8. /\ Fit(x) /\ x \in ClientState /\ x.bodySize = c.bodySize
      /\ x.answer \in {"none", "500"}
  BY <1>6 DEF Took, Fit
<1>9. /\ y \in ClientState /\ SameFile(x, y) /\ y.open = x.open /\ y.up = x.up
      /\ y.answer = x.answer /\ y.bodySize = c.bodySize - n
  <2>1. c.bodySize - n \in Nat
    BY <1>1, <1>2, <1>3
  <2> QED
    BY <1>8, <2>1 DEF ClientState, SameFile
<1>10. y.oneBody = x.oneBody /\ y.boundary = x.boundary /\ y.endBoundry = x.endBoundry
  BY <1>8 DEF ClientState
<1>11. Fit(y)
  BY <1>8, <1>9 DEF Fit, SameFile
<1> HIDE DEF y
<1>12. SameFile(x, d) /\ d.up = x.up
  <2>1. CASE y.bodySize = 0
    BY ZenonT(90), <1>5, <1>9, <2>1 DEF UploadDone, CloseFileUpload, SameFile, ClientState
  <2>2. CASE y.bodySize # 0
    BY <1>5, <1>9, <2>2
  <2> QED
    BY <2>1, <2>2
<1>13. /\ Parses(x) /\ Phase(x, b, p, e, k + n)
       /\ Careful(c, d, b, p, e, k, n) => Exact(x, b, p, e, k + n)
  <2>1. x.up /\ (Careful(c, d, b, p, e, k, n) => Careful(c, x, b, p, e, k, n))
    BY <1>12 DEF SameFile, Careful
  <2>2. /\ Parses(x) /\ Phase(x, b, p, e, k + n)
        /\ Careful(c, x, b, p, e, k, n) => Exact(x, b, p, e, k + n)
    BY <1>7, <2>1, PhaseStep
  <2> QED
    BY <2>1, <2>2
<1>14. /\ Parses(y) /\ Phase(y, b, p, e, k + n)
       /\ Careful(c, d, b, p, e, k, n) => Exact(y, b, p, e, k + n)
  <2>1. Parses(y)
    BY <1>10, <1>11, <1>13 DEF Parses
  <2>2. /\ Phase(y, b, p, e, k + n)
        /\ Exact(x, b, p, e, k + n) => Exact(y, b, p, e, k + n)
    BY <1>9, <1>13, SamePhase
  <2> QED
    BY <1>13, <2>1, <2>2
<1>15. CASE y.bodySize = 0
  <2>1. d = UploadDone(y)
    BY <1>5, <1>15
  <2>2. /\ d \in ClientState /\ SameFile(y, d) /\ ~d.open /\ d.oneBody = y.oneBody
        /\ d.boundary = y.boundary /\ d.endBoundry = y.endBoundry
    BY ZenonT(90), <1>9, <2>1 DEF UploadDone, CloseFileUpload, SameFile, ClientState
  <2>3. Fit(d)
    BY <1>11, <2>2 DEF Fit, SameFile
  <2>4. Parses(d)
    BY <1>14, <2>2, <2>3 DEF Parses
  <2>5. k + n = e + 3
    BY <1>1, <1>2, <1>9, <1>15
  <2>6. /\ Exact(y, b, p, e, k + n) => DataStored(y, b, p, e, k + n)
    BY <1>1, <2>5, LastPhase
  <2>7. Stored(d) = Stored(y)
    BY <2>2 DEF Stored, SameFile
  <2>8. DataStored(y, b, p, e, k + n) => DataStored(d, b, p, e, k + n)
    BY <2>2, <2>7 DEF DataStored, SameFile
  <2>9. Spilled(y, b, p, e, k + n) => Spilled(d, b, p, e, k + n)
    BY <2>2, <2>7 DEF Spilled, SameFile
  <2>10. CASE Exact(y, b, p, e, k + n)
    BY <2>4, <2>6, <2>8, <2>10 DEF Phase, Exact
  <2>11. CASE ~Exact(y, b, p, e, k + n)
    <3>1. Spilled(d, b, p, e, k + n) /\ ~Careful(c, d, b, p, e, k, n)
      BY <1>14, <2>9, <2>11 DEF Phase
    <3> QED
      BY <2>4, <3>1 DEF Phase
  <2> QED
    BY <2>10, <2>11
<1>16. CASE y.bodySize # 0
  <2>1. d = y /\ d.answer # "200"
    BY <1>5, <1>8, <1>9, <1>16
  <2> QED
    BY <1>14, <2>1
<1> QED
  BY <1>15, <1>16

\* The boundary is found when a body begins, and not looked for again.
LEMMA PostKeepsBoundary ==
  ASSUME NEW c, Ready(c), NEW seg \in Seq(Piece), NEW d, d = HandlePost(c, seg)
  PROVE  d.boundary = c.boundary
<1> DEFINE n == Least(Len(seg), c.bodySize)
           buf == SubSeq(seg, 1, n)
           x == IF c.oneBody THEN AppendBody(c, buf)
                ELSE IF c.inBody /\ ~c.finishBody THEN HandleInBody(More(c, buf))
                ELSE HandleBodyHeaders(More(c, buf))
           y == [x EXCEPT !.bodySize = @ - n]
<1>1. n \in Nat /\ n <= Len(seg) /\ n <= c.bodySize /\ c.bodySize \in Nat
  <2>1. c.bodySize \in Nat
    BY DEF Ready, Fit, ClientState
  <2>2. Len(seg) \in Nat
    BY LenProperties
  <2> QED
    BY <2>1, <2>2 DEF Least
<1>2. d = IF y.bodySize = 0 THEN UploadDone(y) ELSE y
  BY DEF HandlePost, ToAppend, More
<1> HIDE DEF n
<1>3. buf \in Seq(Piece) /\ Fit(c)
  BY <1>1, SubSeqFacts DEF Ready
<1> HIDE DEF buf
<1>4. /\ Fit(More(c, buf)) /\ More(c, buf).boundary = c.boundary
  <2> DEFINE m == More(c, buf)
  <2>1. m = More(c, buf)
    OBVIOUS
  <2> HIDE DEF m
  <2>2. Fit(m) /\ Steady(c, m)
    BY <1>3, <2>1, MoreFacts
  <2> QED
    BY <2>1, <2>2 DEF Steady
<1>5. Fit(x) /\ x.boundary = c.boundary
  <2>1. CASE c.oneBody
    <3>1. x = AppendBody(c, buf)
      BY <2>1
    <3> HIDE DEF x
    <3>2. Fit(x) /\ Steady(c, x)
      BY <1>3, <3>1, AppendBodyFacts
    <3> QED
      BY <3>2 DEF Steady
  <2>2. CASE ~c.oneBody /\ c.inBody /\ ~c.finishBody
    <3>1. x = HandleInBody(More(c, buf))
      BY <2>2
    <3> HIDE DEF x
    <3>2. Within(More(c, buf), x)
      BY <1>4, <3>1, HandleInBodyFacts
    <3> QED
      BY <1>4, <3>2 DEF Within, Steady
  <2>3. CASE ~c.oneBody /\ ~(c.inBody /\ ~c.finishBody)
    <3> DEFINE m == More(c, buf)
               inside == [m EXCEPT !.inBody = TRUE]
               start == Drop(Find(<<Blank>>, m.body), m.body)
    <3>1. x = HandleBodyHeaders(m)
      BY <2>3
    <3> HIDE DEF x, m
    <3>2. Fit(m) /\ m.boundary = c.boundary
      BY <1>4 DEF m
    <3>3. Fit(x)
      BY <3>1, <3>2, HandleBodyHeadersFacts DEF Begins
    <3>4. /\ inside \in ClientState /\ inside.boundary = m.boundary /\ Fit(inside)
      BY <3>2 DEF Fit, ClientState
    <3>5. CASE ~Found(<<Blank>>, m.body)
      BY <3>1, <3>2, <3>3, <3>5 DEF HandleBodyHeaders
    <3>6. CASE Found(<<Blank>>, m.body) /\ NameUnended(m.body)
      <4>1. x = inside
        BY <3>1, <3>6 DEF HandleBodyHeaders
      <4> QED
        BY <3>2, <3>4, <4>1
    <3>7. CASE /\ Found(<<Blank>>, m.body) /\ ~NameUnended(m.body)
               /\ request.store = "unset"
      <4>1. x = Refuse(inside, "500")
        BY <3>1, <3>7 DEF HandleBodyHeaders
      <4> HIDE DEF inside
      <4>2. x.boundary = inside.boundary
        BY <3>4, <4>1 DEF Refuse, ClientState
      <4> QED
        BY <3>2, <3>3, <3>4, <4>2
    <3>8. CASE /\ Found(<<Blank>>, m.body) /\ ~NameUnended(m.body)
               /\ request.store # "unset"
      <4> DEFINE name == PartName(m.body)
      <4>1. x = StartsWith(inside, name, start)
        BY <3>1, <3>8 DEF HandleBodyHeaders, StartsWith
      <4>2. name \in Names
        BY DEF PartName, Names
      <4>3. start \in Seq(Piece)
        <5>1. m.body \in Seq(Piece)
          BY <3>2 DEF Fit, ClientState
        <5> DEFINE q == <<Blank>>
                   s == m.body
        <5>2. q \in Seq(Piece) /\ s \in Seq(Piece) /\ Found(q, s)
          BY <3>8, <5>1 DEF Piece
        <5> HIDE DEF q, s
        <5>3. Find(q, s) \in Nat
          BY <5>2, FindFacts
        <5>4. Drop(Find(q, s), s) \in Seq(Piece)
          BY <5>2, <5>3, DropFacts
        <5> QED
          BY <5>4 DEF q, s
      <4> HIDE DEF inside, start, name
      <4>4. Steady(inside, x)
        BY <3>4, <4>1, <4>2, <4>3, StartsFile
      <4> QED
        BY <3>2, <3>3, <3>4, <4>4 DEF Steady
    <3> QED
      BY <3>5, <3>6, <3>7, <3>8
  <2> QED
    BY <2>1, <2>2, <2>3
<1> HIDE DEF x
<1>6. /\ x \in ClientState /\ y.boundary = x.boundary
      /\ UploadDone(y).boundary = y.boundary
  BY <1>5 DEF Fit, ClientState, UploadDone, CloseFileUpload
<1> HIDE DEF y
<1> QED
  BY <1>2, <1>5, <1>6

\* Where the data of the request being made are.
At(p, e) == Shape(request.body, p, e) /\ NoBlank(request.body, p, e) /\ DataEnd = e

\* The body of one part that is being received is in one of the phases, an exact one if
\* no boundary was taken for data, and in the last one when it is answered.
PhaseOf(p, e) ==
  /\ Parses(client) /\ Phase(client, request.body, p, e, Len(Received))
  /\ ~misread => Exact(client, request.body, p, e, Len(Received))
  /\ client.answer = "200" =>
       \/ DataStored(client, request.body, p, e, Len(Received))
       \/ (misread /\ Spilled(client, request.body, p, e, Len(Received)))
PhaseInv ==
  /\ ~client.endHeaders => client.boundary = <<>> /\ client.file = "none"
  /\ OnePart /\ client.up /\ client.boundary # <<>> => \A p, e : At(p, e) => PhaseOf(p, e)

LEMMA PhaseInit == Init => PhaseInv
<1> SUFFICES ASSUME Init PROVE PhaseInv
  OBVIOUS
<1>1. PICK files \in OldFiles : client = NewClient(files)
  BY DEF Init
<1>2. client.boundary = <<>> /\ client.file = "none"
  BY <1>1 DEF NewClient
<1> QED
  BY <1>2 DEF PhaseInv

\* What a recv() adds to such a body.
LEMMA NextPieces ==
  ASSUME UploadInv, NEW n \in 0..MaxSegment, Receive(n), n >= 1, NEW p, NEW e, At(p, e)
  PROVE  /\ Comes(request.body, p, e, Len(Received), n, SubSeq(rest, 1, n))
         /\ Len(Received') = Len(Received) + n /\ Len(rest) - Len(rest') = n
         /\ Len(request.body) = e + 3
<1> DEFINE b == request.body
           k == Len(Received)
           seg == SubSeq(rest, 1, n)
<1>1. n \in Nat
  BY SegmentAssumption
<1>2. Shape(b, p, e) /\ p \in Nat /\ e \in Nat /\ Len(b) = e + 3
  BY DEF At, Shape
<1>3. /\ b \in Seq(Piece) /\ Len(rest) \in 0..Len(b) /\ k = Len(b) - Len(rest)
      /\ Len(b) \in Nat
  BY CountedFacts
<1>4. /\ rest \in Seq(Piece) /\ rest = Drop(Len(b) - Len(rest), b) /\ n <= Len(rest)
      /\ rest' = Drop(n, rest) /\ request' = request
  BY DEF UploadInv, Receive
<1>5. seg \in Seq(Piece) /\ Len(seg) = n /\ \A i \in 1..n : seg[i] = rest[i]
  BY <1>1, <1>4, SubSeqFacts
<1>6. k \in Nat /\ k + n <= e + 3 /\ rest = Drop(k, b) /\ Len(rest) = Len(b) - k
  BY <1>1, <1>2, <1>3, <1>4
<1>7. Received' = SubSeq(b, 1, Len(b) - Len(rest'))
  BY <1>4 DEF Received
<1> HIDE DEF k, seg
<1>8. \A i \in 1..(Len(b) - k) : rest[i] = b[k + i]
  <2> HIDE DEF b
  <2>1. \A i \in 1..(Len(b) - k) : Drop(k, b)[i] = b[k + i]
    BY <1>3, <1>6, DropFacts
  <2> QED
    BY <1>6, <2>1
<1>9. \A i \in 1..n : seg[i] = b[k + i]
  <2> TAKE i \in 1..n
  <2>1. i \in 1..(Len(b) - k)
    BY <1>1, <1>2, <1>6
  <2> QED
    BY <1>5, <1>8, <2>1
<1>10. Len(rest') = Len(rest) - n
  BY <1>1, <1>4, DropFacts
<1>11. Len(b) - Len(rest') = k + n /\ Len(rest) - Len(rest') = n
  BY <1>1, <1>2, <1>6, <1>10
<1>12. Len(Received') = k + n
  <2> DEFINE m == k + n
  <2>1. m \in 0..Len(b) /\ Received' = SubSeq(b, 1, m)
    BY <1>1, <1>2, <1>6, <1>7, <1>11
  <2> HIDE DEF m
  <2>2. 0 \in Nat /\ m \in Nat
    BY <1>3, <2>1
  <2>3. Len(SubSeq(b, 1, m)) = m
    BY <1>3, <2>1, <2>2, CountFacts
  <2> QED
    BY <2>1, <2>3 DEF m
<1>13. Comes(b, p, e, k, n, seg)
  BY <1>1, <1>2, <1>5, <1>6, <1>9 DEF Comes
<1> QED
  BY <1>2, <1>11, <1>12, <1>13 DEF k, seg

\* What is known of the segment ends when nothing was misread.
LEMMA NotMisread ==
  ASSUME NEW n, Receive(n), OnePart, ~misread', NEW k, Len(Received') = k,
         Len(rest) - Len(rest') = n
  PROVE  /\ ~misread
         /\ client.file = "none" /\ client'.file # "none" => ~(k > DataEnd)
         /\ client.inBody /\ ~client.finishBody =>
              ~(Len(client.body) + Len(rest) - Len(rest') < Len(client.boundary))
<1>1. ~misread /\ ~(request.kind = "multipart" /\ Misreads)
  BY DEF Receive
<1>2. ~Misreads
  BY <1>1 DEF OnePart
<1> QED
  BY <1>1, <1>2 DEF Misreads

LEMMA PhaseReceive ==
  ASSUME UploadInv, PhaseInv, UploadInv', NEW n \in 0..MaxSegment, Receive(n)
  PROVE  PhaseInv'
<1> DEFINE seg == SubSeq(rest, 1, n)
           b == request.body
           k == Len(Received)
<1>1. /\ request' = request /\ client' = AppendData(seg) /\ client.up /\ ~client.complete
      /\ n <= Len(rest) /\ (n = 0 => ~client.endHeaders)
  BY DEF Receive
<1>2. n \in Nat /\ rest \in Seq(Piece) /\ request \in Request /\ Fit(client)
  BY RequestAssumption, SegmentAssumption DEF UploadInv
<1>3. seg \in Seq(Piece) /\ Len(seg) = n
  BY <1>1, <1>2, SubSeqFacts
<1>4. CASE client.endHeaders
  <2>1. client' = HandlePost(client, seg)
    BY <1>1, <1>4 DEF AppendData
  <2>2. Sound(client, Counted)
    BY <1>1, <1>4 DEF UploadInv
  <2>3. /\ client.answer = "none" /\ client.bodySize > 0
        /\ client.bodySize + Len(Counted) = request.length
    BY <1>1, <2>2 DEF Sound
  <2>4. Ready(client)
    BY <1>1, <1>2, <2>2, <2>3 DEF Ready, Sound
  <2>5. client'.boundary = client.boundary
    BY <1>3, <2>1, <2>4, PostKeepsBoundary
  <2>6. client'.endHeaders
    <3>1. Posted(client, SubSeq(seg, 1, Least(Len(seg), client.bodySize)), client')
      BY <1>3, <2>1, <2>4, HandlePostFacts
    <3> QED
      BY <1>4, <3>1 DEF Posted
  <2>7. ASSUME OnePart', client'.up, client'.boundary # <<>>, NEW p, NEW e, At(p, e)'
        PROVE  PhaseOf(p, e)'
    <3>1. OnePart /\ At(p, e)
      BY <1>1, <2>7 DEF OnePart, At, DataEnd
    <3>2. n >= 1
      BY <1>1, <1>2, <1>4
    <3>3. /\ Comes(b, p, e, k, n, seg) /\ Len(Received') = k + n
          /\ Len(rest) - Len(rest') = n /\ Len(b) = e + 3
      BY <3>1, <3>2, NextPieces
    <3>4. ~misread' =>
            /\ ~misread
            /\ client.file = "none" /\ client'.file # "none" => ~(k + n > DataEnd)
            /\ client.inBody /\ ~client.finishBody =>
                 ~(Len(client.body) + Len(rest) - Len(rest') < Len(client.boundary))
      BY <3>1, <3>3, NotMisread
    <3>5. PhaseOf(p, e) /\ Parses(client) /\ Phase(client, b, p, e, k)
      BY <1>1, <2>5, <2>7, <3>1 DEF PhaseInv, PhaseOf
    <3>6. DataEnd = e /\ request.store = "usable" /\ NoBlank(b, p, e)
          /\ request.length = Len(b)
      BY <3>1 DEF At, OnePart
    <3>7. k \in Nat /\ e \in Nat
      BY <3>3 DEF Comes, Shape
    <3>8. client.bodySize + k = e + 3
      <4>1. Len(Counted) = Least(k, request.length) /\ client.bodySize \in Nat
        BY <1>2, CountedFacts DEF Fit, ClientState
      <4>2. k <= e + 3
        BY <1>2, <3>3, <3>7 DEF Comes
      <4>3. Least(k, request.length) = k
        BY <3>3, <3>6, <3>7, <4>2 DEF Least
      <4> QED
        BY <2>3, <3>3, <3>6, <4>1, <4>3
    <3>9. ASSUME ~misread'
          PROVE  Careful(client, client', b, p, e, k, n)
      <4>1. Exact(client, b, p, e, k)
        BY <3>4, <3>5, <3>9 DEF PhaseOf
      <4>2. client.file = "none" /\ client'.file # "none" => k + n <= e
        BY <1>2, <3>4, <3>6, <3>7, <3>9
      <4>3. ASSUME client.inBody, ~client.finishBody PROVE Len(client.body) + n >= 2
        <5>1. ~(Len(client.body) + Len(rest) - Len(rest') < Len(client.boundary))
          BY <3>4, <3>9, <4>3
        <5>2. Len(client.boundary) = 2
          BY <3>5 DEF Parses
        <5>3. client.body \in Seq(Piece) /\ rest' \in Seq(Piece)
          BY <1>2 DEF Fit, ClientState, UploadInv
        <5>4. Len(client.body) \in Nat /\ Len(rest) \in Nat /\ Len(rest') \in Nat
          BY <1>2, <5>3, LenProperties
        <5>5. Len(client.body) + Len(rest) - Len(rest') = Len(client.body) + n
          BY <1>2, <3>3, <5>4
        <5> QED
          BY <1>2, <5>1, <5>2, <5>4, <5>5
      <4> QED
        BY <4>1, <4>2, <4>3 DEF Careful
    <3> HIDE DEF b, k, seg
    <3>10. /\ Parses(client') /\ Phase(client', b, p, e, k + n)
           /\ Careful(client, client', b, p, e, k, n) => Exact(client', b, p, e, k + n)
           /\ client'.answer = "200" =>
                \/ DataStored(client', b, p, e, k + n)
                \/ Spilled(client', b, p, e, k + n) /\ ~Careful(client, client', b, p, e, k, n)
      BY <2>1, <2>4, <2>7, <3>3, <3>5, <3>6, <3>8, PostPhase
    <3>11. request'.body = b /\ Len(Received') = k + n
      BY <1>1, <3>3 DEF b
    <3>12. /\ Parses(client') /\ Phase(client', b, p, e, k + n)
           /\ ~misread' => Exact(client', b, p, e, k + n)
      BY <3>9, <3>10
    <3>13. client'.answer = "200" =>
             \/ DataStored(client', b, p, e, k + n)
             \/ (misread' /\ Spilled(client', b, p, e, k + n))
      BY <3>9, <3>10
    <3>14. /\ Parses(client') /\ Phase(client', request'.body, p, e, Len(Received'))
           /\ ~misread' => Exact(client', request'.body, p, e, Len(Received'))
      BY <3>11, <3>12
    <3>15. client'.answer = "200" =>
             \/ DataStored(client', request'.body, p, e, Len(Received'))
             \/ (misread' /\ Spilled(client', request'.body, p, e, Len(Received')))
      BY <3>11, <3>13
    <3>16. (Parses(client))'
      BY <1>1, <3>14 DEF Parses, Fit
    <3> QED
      BY <3>14, <3>15, <3>16 DEF PhaseOf
  <2> QED
    BY <1>1, <2>6, <2>7 DEF PhaseInv
<1>5. CASE ~client.endHeaders
  <2>1. client' = HeadersEnd(seg)
    BY <1>1, <1>5 DEF AppendData
  <2>2. Fresh(client) /\ rest = b /\ client.boundary = <<>> /\ client.file = "none"
    BY <1>5 DEF UploadInv, PhaseInv
  <2>3. client'.endHeaders
    BY <1>2, <1>3, <2>1, <2>2, HeadersEndFacts
  <2>4. ASSUME OnePart', client'.up, client'.boundary # <<>>, NEW p, NEW e, At(p, e)'
        PROVE  PhaseOf(p, e)'
    <3> DEFINE c == [client EXCEPT !.endHeaders = TRUE, !.bodySize = request.length]
               f == [c EXCEPT !.boundary = <<Dashes, Given>>,
                              !.endBoundry = <<Dashes, Given, Dashes>>]
    <3>1. OnePart /\ At(p, e)
      BY <1>1, <2>4 DEF OnePart, At, DataEnd
    <3>2. DataEnd = e /\ request.store = "usable" /\ NoBlank(b, p, e)
          /\ request.length = Len(b) /\ request.kind = "multipart"
      BY <3>1 DEF At, OnePart
    <3>3. /\ p \in Nat /\ e \in Nat /\ Len(b) = e + 3 /\ b \in Seq(Piece) /\ 3 <= p /\ p <= e
      BY <3>1 DEF At, Shape
    <3>25. request.length \in Nat /\ request.length = e + 3 /\ client \in ClientState
      BY <1>2, <3>2, <3>3 DEF Fit
    <3>4. /\ c \in ClientState /\ c.file = client.file /\ c.at = client.at
          /\ c.disk = client.disk /\ c.body = client.body /\ c.answer = client.answer
          /\ c.bodySize = e + 3
      BY <3>25 DEF ClientState
    <3>5. /\ c.open = client.open /\ c.inBody = client.inBody /\ c.complete = client.complete
          /\ c.finishBody = client.finishBody /\ c.oneBody = client.oneBody
      BY <3>25 DEF ClientState
    <3>6. c.boundary = <<>>
      BY <2>2, <3>25 DEF ClientState
    <3>7. request.length # 0
      BY <3>2, <3>3
    <3>8. seg # <<>>
      <4> SUFFICES ASSUME seg = <<>> PROVE FALSE
        OBVIOUS
      <4>1. client' = c
        BY <2>1, <3>7 DEF HeadersEnd
      <4> QED
        BY <2>4, <3>6, <4>1
    <3>9. client' = HandlePost(f, seg)
      BY <2>1, <3>2, <3>7, <3>8 DEF HeadersEnd, BodyBegins
    <3>10. n >= 1
      BY <1>2, <1>3, <3>8, EmptySeq
    <3> HIDE DEF c
    <3>11. Given = Mark /\ <<Dashes, Mark>> \in Seq(Piece \cup {SmallMark})
           /\ <<Dashes, Mark, Dashes>> \in Seq(Piece \cup {SmallMark})
      BY <3>2 DEF Given, Piece
    <3>12. /\ f \in ClientState /\ SameFile(c, f) /\ f.bodySize = c.bodySize
           /\ f.boundary = <<Dashes, Mark>> /\ f.endBoundry = <<Dashes, Mark, Dashes>>
           /\ f.answer = c.answer
      BY <3>4, <3>11 DEF ClientState, SameFile
    <3>13. f.open = c.open /\ f.oneBody = c.oneBody /\ f.complete = c.complete
      BY <3>4, <3>11 DEF ClientState
    <3> HIDE DEF f
    <3>14. /\ ~f.open /\ ~f.oneBody /\ ~f.complete /\ ~f.inBody /\ ~f.finishBody
           /\ f.body = <<>> /\ f.answer = "none" /\ f.file = "none" /\ f.bodySize = e + 3
      BY <2>2, <3>4, <3>5, <3>12, <3>13 DEF Fresh, SameFile
    <3>15. Fit(f) /\ Ready(f)
      <4>1. Fit(f)
        BY <3>12, <3>14 DEF Fit
      <4>2. f.bodySize > 0
        BY <3>3, <3>14
      <4> QED
        BY <3>14, <4>1, <4>2 DEF Ready
    <3>16. Parses(f)
      BY <3>12, <3>14, <3>15 DEF Parses
    <3>17. k = 0
      <4>1. k = Len(b) - Len(rest) /\ Len(b) \in Nat
        BY CountedFacts
      <4> QED
        BY <2>2, <4>1
    <3>18. Phase(f, b, p, e, k) /\ Exact(f, b, p, e, k)
      <4>1. Len(f.body) = 0 /\ k < p
        BY <3>3, <3>14, <3>17, EmptySeq
      <4>2. \A i \in 1..k : f.body[i] = b[i]
        BY <3>17
      <4>3. InHeaders(f, b, p, k)
        BY <3>14, <3>17, <4>1, <4>2 DEF InHeaders
      <4> QED
        BY <4>3 DEF Phase, Exact
    <3>19. /\ Comes(b, p, e, k, n, seg) /\ Len(Received') = k + n
           /\ Len(rest) - Len(rest') = n /\ Len(b) = e + 3
      BY <3>1, <3>10, NextPieces
    <3>20. ~misread' => (client.file = "none" /\ client'.file # "none" => ~(k + n > DataEnd))
      BY <3>1, <3>19, NotMisread
    <3>21. ASSUME ~misread'
           PROVE  Careful(f, client', b, p, e, k, n)
      <4>1. f.file = "none" /\ client'.file # "none" => k + n <= e
        BY <1>2, <2>2, <3>2, <3>3, <3>17, <3>20, <3>21
      <4> QED
        BY <3>14, <3>18, <4>1 DEF Careful
    <3>22. f.bodySize + k = e + 3
      BY <3>3, <3>14, <3>17
    <3> HIDE DEF b, k, seg
    <3>23. /\ Parses(client') /\ Phase(client', b, p, e, k + n)
           /\ Careful(f, client', b, p, e, k, n) => Exact(client', b, p, e, k + n)
           /\ client'.answer = "200" =>
                \/ DataStored(client', b, p, e, k + n)
                \/ Spilled(client', b, p, e, k + n) /\ ~Careful(f, client', b, p, e, k, n)
      BY <2>4, <3>2, <3>9, <3>15, <3>16, <3>18, <3>19, <3>22, PostPhase
    <3>24. request'.body = b /\ Len(Received') = k + n
      BY <1>1, <3>19 DEF b
    <3>26. /\ Parses(client') /\ Phase(client', b, p, e, k + n)
           /\ ~misread' => Exact(client', b, p, e, k + n)
      BY <3>21, <3>23
    <3>27. client'.answer = "200" =>
             \/ DataStored(client', b, p, e, k + n)
             \/ (misread' /\ Spilled(client', b, p, e, k + n))
      BY <3>21, <3>23
    <3>28. /\ Parses(client') /\ Phase(client', request'.body, p, e, Len(Received'))
           /\ ~misread' => Exact(client', request'.body, p, e, Len(Received'))
      BY <3>24, <3>26
    <3>29. client'.answer = "200" =>
             \/ DataStored(client', request'.body, p, e, Len(Received'))
             \/ (misread' /\ Spilled(client', request'.body, p, e, Len(Received')))
      BY <3>24, <3>27
    <3>30. (Parses(client))'
      BY <1>1, <3>28 DEF Parses, Fit
    <3> QED
      BY <3>28, <3>29, <3>30 DEF PhaseOf
  <2> QED
    BY <1>1, <2>3, <2>4 DEF PhaseInv
<1> QED
  BY <1>4, <1>5

LEMMA PhaseNext == UploadInv /\ UploadInv' /\ PhaseInv /\ [Next]_vars => PhaseInv'
<1> SUFFICES ASSUME UploadInv, UploadInv', PhaseInv, [Next]_vars PROVE PhaseInv'
  OBVIOUS
<1>1. CASE Next
  BY <1>1, PhaseReceive DEF Next
<1>2. CASE UNCHANGED vars
  BY <1>2 DEF vars, PhaseInv, PhaseOf, At, OnePart, DataEnd, Received, Parses, Fit
<1> QED
  BY <1>1, <1>2

LEMMA PhaseAlways == Spec => []PhaseInv
<1>1. Init => UploadInv
  BY UploadInit
<1> QED
  BY <1>1, PhaseInit, PhaseNext, UploadNext, PTL DEF Spec

\* An answered body that is no multipart is in its file.
LEMMA PlainStored ==
  ASSUME UploadInv, client.up, client.answer = "200", client.oneBody
  PROVE  IsPrefix(SubSeq(request.body, 1, request.length), client.disk[client.file])
<1>1. client.endHeaders
  BY DEF UploadInv, Fresh
<1>2. Sound(client, Counted) /\ Fit(client)
  BY <1>1 DEF UploadInv
<1>3. client.file # "none" /\ Stored(client) = Counted /\ Len(Counted) = request.length
  BY <1>2 DEF Sound
<1>4. /\ client.file \in Names /\ client.disk[client.file] \in Seq(Piece)
      /\ client.at \in Nat /\ client.at <= Len(client.disk[client.file])
  BY <1>2, <1>3 DEF Fit, ClientState
<1>5. /\ request.body \in Seq(Piece) /\ request.length \in Nat /\ Len(Received) \in Nat
      /\ Counted = SubSeq(request.body, 1, Least(Len(Received), request.length))
      /\ Len(Counted) = Least(Len(Received), request.length)
  BY CountedFacts, LenProperties
<1>6. Counted = SubSeq(request.body, 1, request.length)
  BY <1>3, <1>5
<1> DEFINE t == client.disk[client.file]
           at == client.at
<1>7. t \in Seq(Piece) /\ at \in 0..Len(t) /\ Stored(client) = SubSeq(t, 1, at)
  <2>1. Len(t) \in Nat
    BY <1>4, LenProperties
  <2> QED
    BY <1>4, <2>1 DEF Stored
<1> HIDE DEF t, at
<1>8. IsPrefix(SubSeq(t, 1, at), t)
  BY <1>7, FrontIsPrefix
<1> QED
  BY <1>3, <1>6, <1>7, <1>8 DEF t

\* An answered part is in its file.
LEMMA PartStored ==
  ASSUME WellMade, UploadInv, PhaseInv, client.up, client.answer = "200",
         OnePart, ~Found(<<Blank>>, Data), client.boundary # <<>>
  PROVE  IsPrefix(Data, Stored(client)) /\ (~misread => Stored(client) = Data)
<1> DEFINE b == request.body
<1>1. PICK h \in Seq(Piece), d \in Seq(Piece) : MadeOf(b, h, d)
  BY DEF WellMade, UploadInv, OnePart, HasOnePart
<1>2. HasOnePart(b)
  BY DEF OnePart, HasOnePart
<1>3. PICK p, e : Shape(b, p, e) /\ Max(Occurrences(Delimiter, b)) - 1 = e
  BY <1>1, <1>2, ShapeFacts
<1>4. DataEnd = e /\ Data = Behind(<<Blank>>, SubSeq(b, 1, e))
  BY <1>3 DEF DataEnd, Data
<1>5. /\ Data \in Seq(Piece) /\ Len(Data) = e - p
      /\ \A i \in 1..(e - p) : Data[i] = b[p + i]
  BY SMTT(90), <1>3, <1>4, DataFacts
<1>6. \A i \in (p + 1)..(e + 3) : b[i] # Blank
  BY <1>3, <1>4, DataFacts
<1>7. At(p, e)
  BY <1>3, <1>4, <1>6 DEF At, NoBlank
<1> DEFINE data == Data
           at == client.at
           u == Stored(client)
<1>8. PhaseOf(p, e)
  BY <1>7 DEF PhaseInv
<1>9. /\ client.file # "none" /\ Copies(u, at, b, p)
      /\ at = e - p \/ (misread /\ at > e - p)
  BY <1>8 DEF PhaseOf, DataStored, Spilled, Copies
<1>10. /\ client.file \in Names /\ client.disk[client.file] \in Seq(Piece)
       /\ at \in Nat /\ at <= Len(client.disk[client.file])
  BY <1>9 DEF UploadInv, Fit, ClientState
<1>11. u \in Seq(Piece) /\ Len(u) = at
  <2> DEFINE w == client.disk[client.file]
  <2>1. w \in Seq(Piece) /\ at \in Nat /\ at <= Len(w) /\ u = SubSeq(w, 1, at)
    BY <1>10 DEF Stored
  <2> HIDE DEF w, at, u
  <2>2. /\ SubSeq(w, 1, at) \in Seq(Piece)
        /\ Len(SubSeq(w, 1, at)) = IF 1 <= at THEN at - 1 + 1 ELSE 0
    BY <2>1, SubSeqFacts
  <2> QED
    BY <2>1, <2>2
<1>12. p \in Nat /\ e \in Nat /\ p <= e
  BY <1>3 DEF Shape
<1>13. data \in Seq(Piece) /\ Len(data) = e - p /\ \A i \in 1..(e - p) : data[i] = b[p + i]
  BY <1>5
<1>14. Len(data) <= at
  BY <1>9, <1>10, <1>12, <1>13
<1> HIDE DEF data, at, u, b
<1>15. \A i \in 1..Len(data) : data[i] = u[i]
  <2> TAKE i \in 1..Len(data)
  <2>1. i \in 1..(e - p) /\ i \in 1..at
    BY <1>10, <1>12, <1>13, <1>14 DEF at
  <2> QED
    BY <1>9, <1>13, <2>1 DEF Copies
<1>16. IsPrefix(data, u)
  BY <1>11, <1>13, <1>14, <1>15, PrefixFacts
<1>17. ASSUME ~misread PROVE u = data
  <2>1. Len(u) = Len(data)
    BY <1>9, <1>11, <1>13, <1>17
  <2>2. \A i \in 1..Len(u) : u[i] = data[i]
    BY <1>15, <2>1
  <2> QED
    BY <1>11, <1>13, <2>1, <2>2, SeqEqual
<1> QED
  BY <1>16, <1>17 DEF data, u

\* What is answered "Upload done." is in its file as it was sent, if the multipart
\* bodies of one part have the form clients give them: however TCP cuts the body,
\* whatever the file held before, not a byte of the data is lost, repeated or put
\* elsewhere; and nothing is written behind them, except where the closing boundary, or
\* the start of it, is taken for data (handlePost, handleInBody, srcs/POST.cpp).
THEOREM UploadStores ==
  ASSUME WellMade
  PROVE  Spec => []StoredAsSent
<1>1. UploadInv /\ PhaseInv => StoredAsSent
  BY PlainStored, PartStored DEF StoredAsSent, Stored
<1> QED
  BY <1>1, UploadAlways, PhaseAlways, PTL
=============================================================================
