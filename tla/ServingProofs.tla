---------------------------- MODULE ServingProofs ----------------------------
(***************************************************************************)
(* Proofs about Serving: what requests do to the disk, for every disk,     *)
(* every list of locations and every set of requests.                      *)
(*                                                                         *)
(* A path is text, and it is followed as a fold of its segments, so the    *)
(* proofs begin with where segments lead, with what normalising a path     *)
(* makes of it, and with the locations a path selects.  The handlers are   *)
(* then shown to keep the types, and last come the invariants.             *)
(***************************************************************************)
EXTENDS Serving, TextProofs

----------------------------------------------------------------------------
(* Where segments lead.                                                   *)

\* Where segs lead from base.
Walked(base, segs) == FoldLeft(Walk, base, segs)

\* Segments of E lead from places of K to places of K.
WalksIn(K, E) == \A kept \in K, x \in E : Walk(kept, x) \in K

\* What folding with Walk makes of t is in K, and is made segment by segment.
WalkedLike(K, E, base, t) ==
  /\ FoldLeft(Walk, base, <<>>) = base
  /\ FoldLeft(Walk, base, t) \in K
  /\ \A x \in E : FoldLeft(Walk, base, Append(t, x)) = Walk(FoldLeft(Walk, base, t), x)

\* The fold of Walk, when it stays in K.
LEMMA WalkFolds ==
  ASSUME NEW K, NEW E, NEW base \in K, \A kept \in K, x \in E : Walk(kept, x) \in K,
         NEW t \in Seq(E)
  PROVE  WalkedLike(K, E, base, t)
<1> DEFINE F == [p \in K \X E |-> Walk(p[1], p[2])]
           Over(f, u) == f = [s \in SUBSET (DOMAIN u) |->
                                IF s = {} THEN base ELSE Walk(f[s \ {Max(s)}], u[Max(s)])]
<1>1. ASSUME NEW u
      PROVE  FoldLeft(Walk, base, u) = (CHOOSE f : Over(f, u))[DOMAIN u]
  BY DEF FoldLeft, MapThenFoldSet
<1>2. FoldsInto(F, K, E) /\ \A k \in K, x \in E : F[<<k, x>>] = Walk(k, x)
  BY DEF FoldsInto
<1> HIDE DEF F
<1>3. ASSUME NEW u \in Seq(E)
      PROVE  \E f : FoldsOver(f, F, base, u, DOMAIN u) /\ f[DOMAIN u] = FoldLeft(Walk, base, u)
  <2>1. Len(u) \in Nat /\ DOMAIN u = 1..Len(u) /\ \A i \in 1..Len(u) : u[i] \in E
    BY LenProperties, ElementOfSeq
  <2>2. PICK h \in [SUBSET (DOMAIN u) -> K] : FoldsOver(h, F, base, u, DOMAIN u)
    BY <1>2, FoldExists
  <2>3. \A s \in SUBSET (DOMAIN u) : s # {} =>
          Max(s) \in DOMAIN u /\ s \ {Max(s)} \in SUBSET (DOMAIN u) /\ u[Max(s)] \in E
    BY <2>1, MaxOfPlaces
  <2>4. ASSUME NEW s \in SUBSET (DOMAIN u)
        PROVE  h[s] = IF s = {} THEN base ELSE Walk(h[s \ {Max(s)}], u[Max(s)])
    <3>1. h[s] = IF s = {} THEN base ELSE F[<<h[s \ {Max(s)}], u[Max(s)]>>]
      BY <2>2 DEF FoldsOver
    <3> QED
      BY <1>2, <2>2, <2>3, <3>1
  <2>5. Over(h, u)
    <3>1. h = [s \in SUBSET (DOMAIN u) |-> h[s]]
      BY <2>2
    <3> QED
      BY <2>4, <3>1
  <2> DEFINE f == CHOOSE g : Over(g, u)
  <2>6. Over(f, u)
    BY <2>5
  <2>7. f[DOMAIN u] = FoldLeft(Walk, base, u)
    BY <1>1
  <2> HIDE DEF f
  <2>8. \A s \in SUBSET (DOMAIN u) :
          f[s] = IF s = {} THEN base ELSE Walk(f[s \ {Max(s)}], u[Max(s)])
    BY <2>6
  <2>9. FoldsOver(f, F, base, u, DOMAIN u)
    <3>1. \A s \in SUBSET (DOMAIN u) : f[s] \in K
      <4>1. f[{}] = base
        BY <2>8
      <4>2. ASSUME NEW s \in SUBSET (1..Len(u)), s # {}, f[s \ {Max(s)}] \in K
            PROVE  f[s] \in K
        <5>1. s \in SUBSET (DOMAIN u)
          BY <2>1
        <5>2. f[s] = Walk(f[s \ {Max(s)}], u[Max(s)]) /\ u[Max(s)] \in E
          BY <2>3, <2>8, <4>2, <5>1
        <5> QED
          BY <4>2, <5>2
      <4> QED
        BY <2>1, <4>1, <4>2, FoldStays
    <3>2. \A s \in SUBSET (DOMAIN u) :
            f[s] = IF s = {} THEN base ELSE F[<<f[s \ {Max(s)}], u[Max(s)]>>]
      BY <1>2, <2>3, <2>8, <3>1
    <3>3. f = [s \in SUBSET (DOMAIN u) |-> f[s]]
      BY <2>6
    <3> QED
      BY <3>2, <3>3 DEF FoldsOver
  <2> QED
    BY <2>7, <2>9
<1>4. FoldLeft(Walk, base, <<>>) = base
  <2>1. DOMAIN <<>> = {} /\ <<>> \in Seq(E)
    BY EmptySeq, LenProperties
  <2>2. PICK f : FoldsOver(f, F, base, <<>>, DOMAIN <<>>)
                 /\ f[DOMAIN <<>>] = FoldLeft(Walk, base, <<>>)
    BY <1>3, <2>1
  <2>3. f[{}] = base
    BY <2>1, <2>2 DEF FoldsOver
  <2> QED
    BY <2>1, <2>2, <2>3
<1>5. PICK f : FoldsOver(f, F, base, t, DOMAIN t)
               /\ f[DOMAIN t] = FoldLeft(Walk, base, t)
  BY <1>3
<1>6. ASSUME NEW x \in E
      PROVE  /\ FoldLeft(Walk, base, t) \in K
             /\ FoldLeft(Walk, base, Append(t, x)) = F[<<FoldLeft(Walk, base, t), x>>]
  <2>1. Append(t, x) \in Seq(E)
    BY AppendProperties
  <2>2. PICK h : FoldsOver(h, F, base, Append(t, x), DOMAIN Append(t, x))
                 /\ h[DOMAIN Append(t, x)] = FoldLeft(Walk, base, Append(t, x))
    BY <1>3, <2>1
  <2>3. /\ f[DOMAIN t] \in K
        /\ h[DOMAIN Append(t, x)] = F[<<f[DOMAIN t], x>>]
    BY <1>2, <1>5, <2>2, FoldMore
  <2> QED
    BY <1>5, <2>2, <2>3
<1>7. FoldLeft(Walk, base, t) \in K
  <2>1. CASE E = {}
    <3>1. t = <<>>
      BY <2>1, ElementOfSeq, LenProperties, EmptySeq
    <3> QED
      BY <1>4, <3>1
  <2> QED
    BY <1>6, <2>1
<1> QED
  BY <1>2, <1>4, <1>6, <1>7 DEF WalkedLike

\* A walk stays in K, and one segment more is one step more.
LEMMA WalkFold ==
  ASSUME NEW K, NEW E, NEW base \in K, WalksIn(K, E), NEW t \in Seq(E)
  PROVE  Walked(base, t) \in K
<1>1. \A kept \in K, x \in E : Walk(kept, x) \in K
  BY DEF WalksIn
<1>2. WalkedLike(K, E, base, t)
  BY <1>1, WalkFolds
<1> QED
  BY <1>2 DEF WalkedLike, Walked

\* The same, one segment at a time.
LEMMA WalkMore ==
  ASSUME NEW K, NEW E, NEW base \in K, WalksIn(K, E), NEW t \in Seq(E), NEW x \in E
  PROVE  Walked(base, Append(t, x)) = Walk(Walked(base, t), x)
<1>1. \A kept \in K, y \in E : Walk(kept, y) \in K
  BY DEF WalksIn
<1>2. WalkedLike(K, E, base, t)
  BY <1>1, WalkFolds
<1> QED
  BY <1>2 DEF WalkedLike, Walked

\* Without segments a walk stays where it is.
LEMMA WalkNone ==
  ASSUME NEW base
  PROVE  Walked(base, <<>>) = base
<1> DEFINE K == {base}
           E == {}
<1>1. base \in K /\ (\A kept \in K, x \in E : Walk(kept, x) \in K) /\ <<>> \in Seq(E)
  BY EmptySeq
<1> HIDE DEF K, E
<1>2. WalkedLike(K, E, base, <<>>)
  BY <1>1, WalkFolds
<1> QED
  BY <1>2 DEF WalkedLike, Walked

\* What a character makes of the segments before it.
Step(segs, c) ==
  IF c = "/" THEN Append(segs, <<>>) ELSE [segs EXCEPT ![Len(segs)] = Append(@, c)]

\* Segments of characters of C, without the slashes between them.
Slashless(C) == Seq(C \ {"/"})

\* A slash begins a segment; another character goes to the end of the last one.
LEMMA StepFacts ==
  ASSUME NEW S, NEW segs \in Seq(Seq(S)), NEW x \in Seq(S), NEW c \in S
  PROVE  /\ Step(Append(segs, x), "/") = Append(Append(segs, x), <<>>)
         /\ c # "/" => Step(Append(segs, x), c) = Append(segs, Append(x, c))
<1>0. Append(x, c) \in Seq(S)
  BY AppendProperties
<1> DEFINE T == Seq(S)
           y == Append(x, c)
<1>4. segs \in Seq(T) /\ x \in T /\ y \in T
  BY <1>0
<1> HIDE DEF T, y
<1>1. Last(Append(segs, x)) = x
  BY <1>4, FrontLast
<1>2. Append(segs, x)[Len(Append(segs, x))] = x
  BY <1>1 DEF Last
<1>3. [Append(segs, x) EXCEPT ![Len(Append(segs, x))] = Append(x, c)]
        = Append(segs, Append(x, c))
  <2>1. [Append(segs, x) EXCEPT ![Len(Append(segs, x))] = y] = Append(segs, y)
    BY <1>4, ReplaceLast
  <2> QED
    BY <2>1 DEF y
<1> QED
  BY <1>2, <1>3 DEF Step

\* Split, one character more at a time.
LEMMA SplitFold ==
  ASSUME NEW C
  PROVE  /\ Split(<<>>) = <<<<>>>>
         /\ \A s \in Seq(C) :
              /\ Split(s) \in Seq(Slashless(C)) \ {<<>>}
              /\ \A c \in C : Split(Append(s, c)) = Step(Split(s), c)
<1> DEFINE K == Seq(Slashless(C)) \ {<<>>}
           base == <<<<>>>>
           F == [p \in K \X C |-> Step(p[1], p[2])]
           Over(f, u) == f = [s \in SUBSET (DOMAIN u) |->
                                IF s = {} THEN base ELSE Step(f[s \ {Max(s)}], u[Max(s)])]
<1>1. ASSUME NEW u
      PROVE  Split(u) = (CHOOSE f : Over(f, u))[DOMAIN u]
  BY DEF Split, FoldLeft, MapThenFoldSet, Step
<1>2. \A k \in K, c \in C : Step(k, c) \in K
  <2> SUFFICES ASSUME NEW k \in K, NEW c \in C PROVE Step(k, c) \in K
    OBVIOUS
  <2>1. PICK segs \in Seq(Slashless(C)), x \in Slashless(C) : k = Append(segs, x)
    BY SequenceEmptyOrAppend
  <2>2. CASE c = "/"
    <3>1. <<>> \in Slashless(C)
      BY EmptySeq DEF Slashless
    <3> QED
      BY <2>2, <3>1, AppendProperties DEF Step
  <2>3. CASE c # "/"
    <3>1. c \in C \ {"/"} /\ x \in Seq(C \ {"/"}) /\ segs \in Seq(Seq(C \ {"/"}))
      BY <2>3 DEF Slashless
    <3>2. Step(k, c) = Append(segs, Append(x, c))
      BY SMTT(90), <2>1, <2>3, <3>1, StepFacts
    <3>3. Append(x, c) \in Slashless(C)
      BY <3>1, AppendProperties DEF Slashless
    <3> QED
      BY <3>2, <3>3, AppendProperties
  <2> QED
    BY <2>2, <2>3
<1>3. base \in K
  <2>1. <<>> \in Slashless(C) /\ <<>> \in Seq(Slashless(C)) /\ base = Append(<<>>, <<>>)
    BY EmptySeq DEF Slashless
  <2> QED
    BY <2>1, AppendProperties
<1> HIDE DEF K, base
<1>4. FoldsInto(F, K, C) /\ \A k \in K, x \in C : F[<<k, x>>] = Step(k, x)
  BY <1>2 DEF FoldsInto
<1> HIDE DEF F
<1>5. ASSUME NEW u \in Seq(C)
      PROVE  \E f : FoldsOver(f, F, base, u, DOMAIN u) /\ f[DOMAIN u] = Split(u)
  <2>1. Len(u) \in Nat /\ DOMAIN u = 1..Len(u) /\ \A i \in 1..Len(u) : u[i] \in C
    BY LenProperties, ElementOfSeq
  <2>2. PICK h \in [SUBSET (DOMAIN u) -> K] : FoldsOver(h, F, base, u, DOMAIN u)
    BY <1>3, <1>4, FoldExists
  <2>3. \A s \in SUBSET (DOMAIN u) : s # {} =>
          Max(s) \in DOMAIN u /\ s \ {Max(s)} \in SUBSET (DOMAIN u) /\ u[Max(s)] \in C
    BY <2>1, MaxOfPlaces
  <2>4. ASSUME NEW s \in SUBSET (DOMAIN u)
        PROVE  h[s] = IF s = {} THEN base ELSE Step(h[s \ {Max(s)}], u[Max(s)])
    <3>1. h[s] = IF s = {} THEN base ELSE F[<<h[s \ {Max(s)}], u[Max(s)]>>]
      BY <2>2 DEF FoldsOver
    <3> QED
      BY <1>4, <2>2, <2>3, <3>1
  <2>5. Over(h, u)
    <3>1. h = [s \in SUBSET (DOMAIN u) |-> h[s]]
      BY <2>2
    <3> QED
      BY <2>4, <3>1
  <2> DEFINE f == CHOOSE g : Over(g, u)
  <2>6. Over(f, u)
    BY <2>5
  <2>7. f[DOMAIN u] = Split(u)
    BY <1>1
  <2> HIDE DEF f
  <2>8. \A s \in SUBSET (DOMAIN u) :
          f[s] = IF s = {} THEN base ELSE Step(f[s \ {Max(s)}], u[Max(s)])
    BY <2>6
  <2>9. FoldsOver(f, F, base, u, DOMAIN u)
    <3>1. \A s \in SUBSET (DOMAIN u) : f[s] \in K
      <4>1. f[{}] = base
        BY <2>8
      <4>2. ASSUME NEW s \in SUBSET (1..Len(u)), s # {}, f[s \ {Max(s)}] \in K
            PROVE  f[s] \in K
        <5>1. s \in SUBSET (DOMAIN u)
          BY <2>1
        <5>2. f[s] = Step(f[s \ {Max(s)}], u[Max(s)]) /\ u[Max(s)] \in C
          BY <2>3, <2>8, <4>2, <5>1
        <5> QED
          BY <1>2, <4>2, <5>2
      <4> QED
        BY <1>3, <2>1, <4>1, <4>2, FoldStays
    <3>2. \A s \in SUBSET (DOMAIN u) :
            f[s] = IF s = {} THEN base ELSE F[<<f[s \ {Max(s)}], u[Max(s)]>>]
      BY <1>4, <2>3, <2>8, <3>1
    <3>3. f = [s \in SUBSET (DOMAIN u) |-> f[s]]
      BY <2>6
    <3> QED
      BY <3>2, <3>3 DEF FoldsOver
  <2> QED
    BY <2>7, <2>9
<1>6. Split(<<>>) = base
  <2>1. DOMAIN <<>> = {} /\ <<>> \in Seq(C)
    BY EmptySeq, LenProperties
  <2>2. PICK f : FoldsOver(f, F, base, <<>>, DOMAIN <<>>) /\ f[DOMAIN <<>>] = Split(<<>>)
    BY <1>5, <2>1
  <2>3. f[{}] = base
    BY <2>1, <2>2 DEF FoldsOver
  <2> QED
    BY <2>1, <2>2, <2>3
<1>7. ASSUME NEW s \in Seq(C), NEW c \in C
      PROVE  Split(s) \in K /\ Split(Append(s, c)) = Step(Split(s), c)
  <2>1. Append(s, c) \in Seq(C)
    BY AppendProperties
  <2>2. PICK f : FoldsOver(f, F, base, s, DOMAIN s) /\ f[DOMAIN s] = Split(s)
    BY <1>5
  <2>3. PICK h : FoldsOver(h, F, base, Append(s, c), DOMAIN Append(s, c))
                 /\ h[DOMAIN Append(s, c)] = Split(Append(s, c))
    BY <1>5, <2>1
  <2>4. /\ f[DOMAIN s] \in K
        /\ h[DOMAIN Append(s, c)] = F[<<f[DOMAIN s], c>>]
    BY <1>3, <1>4, <2>2, <2>3, FoldMore
  <2> QED
    BY <1>4, <2>2, <2>3, <2>4
<1>8. ASSUME NEW s \in Seq(C)
      PROVE  Split(s) \in K
  <2>1. CASE C = {}
    <3>1. s = <<>>
      BY <2>1, ElementOfSeq, LenProperties, EmptySeq
    <3> QED
      BY <1>3, <1>6, <3>1
  <2> QED
    BY <1>7, <2>1
<1> QED
  BY <1>6, <1>7, <1>8 DEF K, base

\* The segments that do not stay in a path.
Dots == {<<>>, <<".">>, <<".", ".">>}

\* Walk keeps no empty segment and no dots.
LEMMA WalksOn ==
  ASSUME NEW S
  PROVE  WalksIn(Seq(S \ Dots), S)
<1> DEFINE K == Seq(S \ Dots)
<1>1. ASSUME NEW kept \in K, NEW x \in S
      PROVE  Walk(kept, x) \in K
  <2>1. CASE x \in {<<>>, <<".">>}
    BY <2>1 DEF Walk
  <2>2. CASE x \notin {<<>>, <<".">>} /\ x = <<".", ".">>
    <3>1. CASE kept = <<>>
      BY <2>2, <3>1 DEF Walk
    <3>2. CASE kept # <<>>
      <4>1. kept[1] \in S \ Dots
        BY <3>2, EmptySeq, ElementOfSeq
      <4>2. Front(kept) \in K
        BY <4>1, FrontLast
      <4>3. Walk(kept, x) = Front(kept)
        BY <2>2, <3>2 DEF Walk
      <4> QED
        BY <4>2, <4>3
    <3> QED
      BY <3>1, <3>2
  <2>3. CASE x \notin Dots
    <3>1. x \in S \ Dots
      BY <2>3
    <3>2. Append(kept, x) \in K
      BY <3>1, AppendProperties
    <3>3. Walk(kept, x) = Append(kept, x)
      BY <2>3 DEF Walk, Dots
    <3> QED
      BY <3>2, <3>3
  <2>4. x \in {<<>>, <<".">>} \/ (x \notin {<<>>, <<".">>} /\ x = <<".", ".">>) \/ x \notin Dots
    BY DEF Dots
  <2> QED
    BY <2>1, <2>2, <2>3, <2>4
<1> QED
  BY <1>1 DEF WalksIn

\* What is walked is of that kind, and is what it is one by one.
LEMMA Walking ==
  ASSUME NEW S, NEW base \in Seq(S \ Dots), NEW t \in Seq(S)
  PROVE  Walked(base, t) \in Seq(S \ Dots)
BY WalksOn, WalkFold

\* One segment further.
LEMMA WalkingOn ==
  ASSUME NEW S, NEW base \in Seq(S \ Dots), NEW t \in Seq(S), NEW x \in S
  PROVE  Walked(base, Append(t, x)) = Walk(Walked(base, t), x)
<1> DEFINE K == Seq(S \ Dots)
<1>1. base \in K /\ WalksIn(K, S)
  BY WalksOn
<1> HIDE DEF K
<1> QED
  BY <1>1, WalkMore

\* An empty segment leads nowhere.
LEMMA WalkBlank ==
  ASSUME NEW S, NEW base \in Seq(S \ Dots), NEW t \in Seq(S), <<>> \in S
  PROVE  Walked(base, Append(t, <<>>)) = Walked(base, t)
<1>1. Walked(base, Append(t, <<>>)) = Walk(Walked(base, t), <<>>)
  BY WalkingOn
<1> QED
  BY <1>1 DEF Walk

\* One walk after the other.
LEMMA WalkOn ==
  ASSUME NEW S, NEW base \in Seq(S \ Dots), NEW t \in Seq(S), NEW u \in Seq(S)
  PROVE  Walked(base, t \o u) = Walked(Walked(base, t), u)
<1> DEFINE mid == Walked(base, t)
           P == {v \in Seq(S) : Walked(base, t \o v) = Walked(mid, v)}
<1>1. mid \in Seq(S \ Dots)
  BY Walking
<1> HIDE DEF mid
<1>2. <<>> \in P
  <2>1. t \o <<>> = t /\ <<>> \in Seq(S)
    BY ConcatEmptySeq, EmptySeq
  <2>2. Walked(mid, <<>>) = mid
    BY WalkNone
  <2> QED
    BY <2>1, <2>2 DEF mid
<1>3. ASSUME NEW v \in Seq(S), NEW x \in S, v \in P
      PROVE  Append(v, x) \in P
  <2>1. Append(v, x) \in Seq(S) /\ t \o v \in Seq(S)
    BY AppendProperties, ConcatProperties
  <2>2. t \o Append(v, x) = Append(t \o v, x)
    BY ConcatAppend
  <2>3. Walked(base, Append(t \o v, x)) = Walk(Walked(base, t \o v), x)
    BY <2>1, WalkingOn
  <2>4. Walked(mid, Append(v, x)) = Walk(Walked(mid, v), x)
    BY <1>1, WalkingOn
  <2> QED
    BY <1>3, <2>1, <2>2, <2>3, <2>4
<1> HIDE DEF P
<1>4. u \in P
  BY <1>2, <1>3, Growing
<1> QED
  BY <1>4 DEF P, mid

\* Segments that stay are all added.
LEMMA WalkPlain ==
  ASSUME NEW S, NEW base \in Seq(S \ Dots), NEW segs \in Seq(S \ Dots)
  PROVE  Walked(base, segs) = base \o segs
<1> DEFINE T == S \ Dots
           P == {v \in Seq(T) : Walked(base, v) = base \o v}
<1>1. \A v \in Seq(T) : v \in Seq(S)
  BY SeqMonotonic
<1>2. <<>> \in P
  BY WalkNone, EmptySeq, ConcatEmptySeq
<1>3. ASSUME NEW v \in Seq(T), NEW x \in T, v \in P
      PROVE  Append(v, x) \in P
  <2>1. Append(v, x) \in Seq(T) /\ base \o v \in Seq(T)
    BY AppendProperties, ConcatProperties
  <2>2. base \o Append(v, x) = Append(base \o v, x)
    BY ConcatAppend
  <2>3. Walked(base, Append(v, x)) = Walk(Walked(base, v), x)
    BY <1>1, WalkingOn
  <2>4. Walk(base \o v, x) = Append(base \o v, x)
    BY DEF Walk, Dots
  <2> QED
    BY <1>3, <2>1, <2>2, <2>3, <2>4
<1> HIDE DEF P
<1>4. segs \in P
  <2> HIDE DEF T
  <2>1. segs \in Seq(T)
    BY DEF T
  <2> QED
    BY <1>2, <1>3, <2>1, Growing
<1> QED
  BY <1>4 DEF P

\* Segments without .. lead down only.
LEMMA WalkDown ==
  ASSUME NEW S, NEW base \in Seq(S \ Dots), NEW segs \in Seq(S \ {<<".", ".">>})
  PROVE  IsPrefix(base, Walked(base, segs))
<1> DEFINE T == S \ Dots
           K == {k \in Seq(T) : IsPrefix(base, k)}
           E == S \ {<<".", ".">>}
<1>1. ASSUME NEW kept \in K, NEW x \in E
      PROVE  Walk(kept, x) \in K
  <2>1. CASE x \in {<<>>, <<".">>}
    BY <2>1 DEF Walk
  <2>2. CASE x \notin {<<>>, <<".">>}
    <3>1. x \in T /\ Walk(kept, x) = Append(kept, x)
      BY <2>2 DEF Walk, Dots
    <3>2. /\ Append(kept, x) \in Seq(T) /\ Len(Append(kept, x)) = Len(kept) + 1
          /\ \A i \in 1..Len(kept) : Append(kept, x)[i] = kept[i]
      BY <3>1, AppendProperties
    <3>3. Len(base) <= Len(kept) /\ \A i \in 1..Len(base) : base[i] = kept[i]
      BY PrefixFacts
    <3>4. Len(base) \in Nat /\ Len(kept) \in Nat
      BY LenProperties
    <3> DEFINE u == Append(kept, x)
    <3> HIDE DEF u
    <3>5. Len(base) <= Len(u) /\ (\A i \in 1..Len(base) : base[i] = u[i]) /\ u \in Seq(T)
      BY <3>2, <3>3, <3>4 DEF u
    <3>6. IsPrefix(base, u)
      BY <3>5, PrefixFacts
    <3> QED
      BY <3>1, <3>5, <3>6 DEF u
  <2> QED
    BY <2>1, <2>2
<1>2. base \in K
  <2>1. base \in Seq(T) /\ Len(base) \in Nat
    BY LenProperties
  <2> QED
    BY <2>1, PrefixFacts
<1> HIDE DEF K, E
<1>3. segs \in Seq(E)
  BY DEF E
<1>4. Walked(base, segs) \in K
  <2>1. WalksIn(K, E)
    BY <1>1 DEF WalksIn
  <2> QED
    BY <1>2, <1>3, <2>1, WalkFold
<1> QED
  BY <1>4 DEF K

\* What Split makes of a text of C: at least one segment, none with a slash.
LEMMA SplitTyped ==
  ASSUME NEW C, NEW s \in Seq(C)
  PROVE  /\ Split(s) \in Seq(Slashless(C)) /\ Split(s) # <<>>
         /\ Split(s) \in Seq(Seq(C))
<1>1. Split(s) \in Seq(Slashless(C)) \ {<<>>}
  BY SplitFold
<1>2. Slashless(C) \subseteq Seq(C)
  BY SeqMonotonic DEF Slashless
<1>3. Split(s) \in Seq(Seq(C))
  BY <1>1, <1>2, SeqMonotonic
<1> QED
  BY <1>1, <1>3

\* One character further.
LEMMA SplitMore ==
  ASSUME NEW C, NEW s \in Seq(C), NEW c \in C
  PROVE  Split(Append(s, c)) = Step(Split(s), c)
BY SplitFold

\* A text without characters is one segment without characters.
LEMMA SplitNone == Split(<<>>) = <<<<>>>>
BY SplitFold

\* A character does not reach past the last segment.
LEMMA StepBehind ==
  ASSUME NEW C, NEW a \in Seq(Seq(C)), NEW b \in Seq(Seq(C)), b # <<>>, NEW c \in C
  PROVE  Step(a \o b, c) = a \o Step(b, c)
<1> DEFINE T == Seq(C)
<1>1. PICK front \in Seq(T), x \in T : b = Append(front, x)
  BY SequenceEmptyOrAppend
<1>2. a \o Append(front, x) = Append(a \o front, x) /\ a \o front \in Seq(T)
  BY SMTT(90), ConcatAppend, ConcatProperties
<1>3. CASE c = "/"
  <2>1. Step(a \o b, c) = Append(a \o b, <<>>) /\ Step(b, c) = Append(b, <<>>)
    BY <1>3 DEF Step
  <2>2. <<>> \in T
    BY EmptySeq
  <2> HIDE DEF T
  <2>3. a \o Append(b, <<>>) = Append(a \o b, <<>>)
    <3>1. a \in Seq(T) /\ b \in Seq(T)
      BY DEF T
    <3> QED
      BY <2>2, <3>1, ConcatAppend
  <2> QED
    BY <2>1, <2>3
<1>4. CASE c # "/"
  <2>1. Append(x, c) \in T
    BY AppendProperties
  <2>2. Step(Append(front, x), c) = Append(front, Append(x, c))
    BY <1>4, StepFacts
  <2> DEFINE more == a \o front
  <2>5. more \in Seq(Seq(C)) /\ x \in Seq(C)
    BY <1>2
  <2> HIDE DEF more
  <2>3. Step(Append(more, x), c) = Append(more, Append(x, c))
    BY <1>4, <2>5, StepFacts
  <2> DEFINE y == Append(x, c)
  <2>4. a \o Append(front, y) = Append(a \o front, y)
    <3>1. a \in Seq(T) /\ y \in T
      BY <2>1
    <3> HIDE DEF T, y
    <3> QED
      BY <3>1, ConcatAppend
  <2> QED
    BY <1>1, <1>2, <2>2, <2>3, <2>4 DEF more
<1> QED
  BY <1>3, <1>4

\* A slash between two texts separates their segments.
LEMMA SplitBoth ==
  ASSUME NEW C, NEW s \in Seq(C), NEW t \in Seq(C), "/" \in C
  PROVE  /\ Split(Append(s, "/") \o t) = Split(s) \o Split(t)
         /\ Split(Append(s, "/")) = Append(Split(s), <<>>)
<1> DEFINE a == Append(s, "/")
           P == {v \in Seq(C) : Split(a \o v) = Split(s) \o Split(v)}
<1>1. a \in Seq(C)
  BY AppendProperties
<1>2. Split(s) \in Seq(Seq(C)) /\ Split(s) # <<>>
  BY SplitTyped
<1>3. Split(a) = Append(Split(s), <<>>)
  <2>1. Split(a) = Step(Split(s), "/")
    BY SplitMore
  <2> QED
    BY <2>1 DEF Step
<1> HIDE DEF a
<1>4. <<>> \in P
  <2>1. a \o <<>> = a /\ <<>> \in Seq(C)
    BY <1>1, ConcatEmptySeq, EmptySeq
  <2> DEFINE T == Seq(C)
             e == <<>>
  <2>2. Append(Split(s), e) = Split(s) \o <<e>>
    <3>1. Split(s) \in Seq(T) /\ e \in T
      BY <1>2, <2>1
    <3> HIDE DEF T, e
    <3> QED
      BY <3>1, AppendIsConcat
  <2> QED
    BY <1>3, <2>1, <2>2, SplitNone
<1>5. ASSUME NEW v \in Seq(C), NEW c \in C, v \in P
      PROVE  Append(v, c) \in P
  <2>1. Append(v, c) \in Seq(C) /\ a \o v \in Seq(C)
    BY <1>1, AppendProperties, ConcatProperties
  <2>2. a \o Append(v, c) = Append(a \o v, c)
    BY <1>1, ConcatAppend
  <2>3. Split(Append(a \o v, c)) = Step(Split(a \o v), c)
    BY <2>1, SplitMore
  <2>4. Split(Append(v, c)) = Step(Split(v), c)
    BY SplitMore
  <2>5. Step(Split(s) \o Split(v), c) = Split(s) \o Step(Split(v), c)
    <3>1. Split(v) \in Seq(Seq(C)) /\ Split(v) # <<>>
      BY SplitTyped
    <3> QED
      BY SMTT(90), <1>2, <3>1, StepBehind
  <2> QED
    BY <1>5, <2>1, <2>2, <2>3, <2>4, <2>5
<1> HIDE DEF P
<1>6. t \in P
  BY <1>4, <1>5, Growing
<1> QED
  BY <1>3, <1>6 DEF P, a

\* A text without a slash is one segment.
LEMMA SplitPlain ==
  ASSUME NEW C, NEW x \in Slashless(C)
  PROVE  Split(x) = <<x>>
<1> DEFINE D == C \ {"/"}
           P == {v \in Seq(D) : Split(v) = <<v>>}
<1>1. <<>> \in P
  BY SplitNone, EmptySeq
<1>2. ASSUME NEW v \in Seq(D), NEW c \in D, v \in P
      PROVE  Append(v, c) \in P
  <2>1. v \in Seq(C) /\ c \in C /\ c # "/" /\ Append(v, c) \in Seq(D)
    BY SeqMonotonic, AppendProperties
  <2>2. Split(Append(v, c)) = Step(<<v>>, c)
    BY <1>2, <2>1, SplitMore
  <2>3. <<v>> = Append(<<>>, v) /\ <<>> \in Seq(Seq(C))
    BY EmptySeq
  <2> DEFINE e == <<>>
  <2>6. e \in Seq(Seq(C)) /\ v \in Seq(C) /\ c \in C /\ c # "/"
    BY <2>1, <2>3
  <2>4. Step(Append(e, v), c) = Append(e, Append(v, c))
    <3> HIDE DEF e
    <3> QED
      BY <2>6, StepFacts
  <2>5. Append(<<>>, Append(v, c)) = <<Append(v, c)>>
    OBVIOUS
  <2> QED
    BY <2>1, <2>2, <2>3, <2>4, <2>5
<1> HIDE DEF P
<1>3. x \in P
  <2>1. x \in Seq(D)
    BY DEF Slashless
  <2> QED
    BY <1>1, <1>2, <2>1, Growing
<1> QED
  BY <1>3 DEF P

----------------------------------------------------------------------------
(* Segments put together again.                                            *)

\* Joined is typed, and one segment more is one slash and that segment more.
LEMMA JoinedFacts ==
  ASSUME NEW C, "/" \in C, NEW segs \in Seq(Seq(C))
  PROVE  /\ Joined(segs) \in Seq(C)
         /\ Joined(<<>>) = <<>>
         /\ \A x \in Seq(C) : Joined(Append(segs, x)) = Append(Joined(segs), "/") \o x
<1> DEFINE T == Seq(C)
           Slashed(ss) == [i \in DOMAIN ss |-> <<"/">> \o ss[i]]
<1>0. <<"/">> \in T /\ \A x \in T : <<"/">> \o x \in T
  <2>1. <<"/">> = Append(<<>>, "/") /\ <<>> \in T
    BY EmptySeq
  <2> QED
    BY <2>1, AppendProperties, ConcatProperties
<1>1. ASSUME NEW ss \in Seq(T)
      PROVE  /\ Slashed(ss) \in Seq(T) /\ Len(Slashed(ss)) = Len(ss)
             /\ \A i \in 1..Len(ss) : Slashed(ss)[i] = <<"/">> \o ss[i]
  <2>1. Len(ss) \in Nat /\ DOMAIN ss = 1..Len(ss) /\ \A i \in 1..Len(ss) : ss[i] \in T
    BY LenProperties, ElementOfSeq
  <2>2. Slashed(ss) \in [1..Len(ss) -> T]
    BY <1>0, <2>1
  <2>3. Slashed(ss) \in Seq(T)
    <3> HIDE DEF T, Slashed
    <3> QED
      BY <2>1, <2>2, SeqDef
  <2> QED
    BY <2>1, <2>2, <2>3, LenProperties
<1>2. Joined(<<>>) = <<>>
  <2>1. <<>> \in Seq(T)
    BY EmptySeq
  <2>2. Slashed(<<>>) \in Seq(T) /\ Len(Slashed(<<>>)) = 0
    BY <1>1, <2>1, EmptySeq
  <2>3. Slashed(<<>>) = <<>>
    <3> HIDE DEF Slashed
    <3> QED
      BY <2>2, EmptySeq
  <2>4. <<>> \in Seq(Seq(C))
    BY EmptySeq
  <2>5. FlattenSeq(<<>>) = <<>>
    BY <2>4, FlattenFacts
  <2> QED
    BY <2>3, <2>5 DEF Joined
<1>3. Joined(segs) = FlattenSeq(Slashed(segs)) /\ Slashed(segs) \in Seq(T)
  BY <1>1 DEF Joined
<1>4. Joined(segs) \in Seq(C)
  <2> HIDE DEF Slashed
  <2> QED
    BY <1>3, FlattenFacts
<1>5. ASSUME NEW x \in T
      PROVE  Joined(Append(segs, x)) = Append(Joined(segs), "/") \o x
  <2> DEFINE u == Append(segs, x)
             y == <<"/">> \o x
  <2>1. /\ u \in Seq(T) /\ Len(u) = Len(segs) + 1 /\ u[Len(segs) + 1] = x
        /\ \A i \in 1..Len(segs) : u[i] = segs[i]
    BY AppendProperties
  <2>2. Joined(u) = FlattenSeq(Slashed(u))
    BY DEF Joined
  <2>3. y \in T
    BY <1>0
  <2>4. /\ Slashed(segs) \in Seq(T) /\ Len(Slashed(segs)) = Len(segs)
        /\ \A i \in 1..Len(segs) : Slashed(segs)[i] = <<"/">> \o segs[i]
    BY <1>1
  <2> HIDE DEF u
  <2>5. /\ Slashed(u) \in Seq(T) /\ Len(Slashed(u)) = Len(u)
        /\ \A i \in 1..Len(u) : Slashed(u)[i] = <<"/">> \o u[i]
    BY <1>1, <2>1
  <2> HIDE DEF Slashed
  <2>6. Slashed(u) = Append(Slashed(segs), y)
    <3> DEFINE a == Slashed(segs)
               b == Slashed(u)
               n == Len(segs)
    <3>1. n \in Nat
      BY LenProperties
    <3>6. a \in Seq(T) /\ Len(a) = n /\ b \in Seq(T) /\ Len(b) = n + 1
      BY <2>1, <2>4, <2>5
    <3>7. \A i \in 1..n : a[i] = b[i]
      <4>1. \A i \in 1..n : i \in 1..Len(u) /\ i \in 1..Len(segs) /\ u[i] = segs[i]
        BY <2>1, <3>1
      <4> QED
        BY <2>4, <2>5, <4>1
    <3>8. b[n + 1] = y
      <4>1. n + 1 \in 1..Len(u)
        BY <2>1, <3>1
      <4> QED
        BY <2>1, <2>5, <4>1
    <3>2. /\ a \in Seq(T) /\ Len(a) = n /\ b \in Seq(T) /\ Len(b) = n + 1 /\ b[n + 1] = y
          /\ \A i \in 1..n : a[i] = b[i]
      BY <3>6, <3>7, <3>8
    <3> HIDE DEF a, b, n, y
    <3>3. /\ Append(a, y) \in Seq(T) /\ Len(Append(a, y)) = n + 1
          /\ Append(a, y)[n + 1] = y /\ \A i \in 1..n : Append(a, y)[i] = a[i]
      BY <2>3, <3>2, AppendProperties
    <3>4. \A i \in 1..(n + 1) : b[i] = Append(a, y)[i]
      BY <3>1, <3>2, <3>3
    <3>5. b = Append(a, y)
      BY <3>2, <3>3, <3>4, SeqEqual
    <3> QED
      BY <3>5 DEF a, b
  <2>7. FlattenSeq(Append(Slashed(segs), y)) = FlattenSeq(Slashed(segs)) \o y
    <3> HIDE DEF y
    <3> QED
      BY <2>3, <2>4, FlattenFacts
  <2>8. Joined(segs) \o (<<"/">> \o x) = (Joined(segs) \o <<"/">>) \o x
    BY <1>0, <1>4, ConcatAssociative
  <2>9. Joined(segs) \o <<"/">> = Append(Joined(segs), "/")
    BY <1>4, AppendIsConcat
  <2> QED
    BY <1>3, <2>2, <2>6, <2>7, <2>8, <2>9 DEF u
<1> QED
  BY <1>2, <1>4, <1>5

\* Splitting what was joined gives the segments back, behind an empty one.
LEMMA SplitJoined ==
  ASSUME NEW C, "/" \in C, NEW segs \in Seq(Slashless(C))
  PROVE  Split(Joined(segs)) = <<<<>>>> \o segs /\ Joined(segs) \in Seq(C)
<1> DEFINE D == Slashless(C)
           P == {v \in Seq(D) : Split(Joined(v)) = <<<<>>>> \o v}
<1>0. D \subseteq Seq(C) /\ <<>> \in D
  BY SeqMonotonic, EmptySeq DEF Slashless
<1>1. \A v \in Seq(D) : v \in Seq(Seq(C))
  <2> HIDE DEF D
  <2> QED
    BY <1>0, SeqMonotonic
<1>2. <<<<>>>> \in Seq(D) /\ <<>> \in Seq(D)
  <2>1. <<<<>>>> = Append(<<>>, <<>>) /\ <<>> \in Seq(D)
    BY EmptySeq
  <2> HIDE DEF D
  <2> QED
    BY <1>0, <2>1, AppendProperties
<1>3. <<>> \in P
  <2>1. Joined(<<>>) = <<>>
    BY <1>1, <1>2, JoinedFacts
  <2>2. <<<<>>>> \o <<>> = <<<<>>>>
    <3> HIDE DEF D
    <3> QED
      BY <1>2, ConcatEmptySeq
  <2> QED
    BY <1>2, <2>1, <2>2, SplitNone
<1>4. ASSUME NEW v \in Seq(D), NEW x \in D, v \in P
      PROVE  Append(v, x) \in P
  <2>1. v \in Seq(Seq(C)) /\ x \in Seq(C)
    BY <1>0, <1>1
  <2>2. Joined(Append(v, x)) = Append(Joined(v), "/") \o x /\ Joined(v) \in Seq(C)
    BY <2>1, JoinedFacts
  <2>3. Split(Append(Joined(v), "/") \o x) = Split(Joined(v)) \o Split(x)
    BY <2>1, <2>2, SplitBoth
  <2>4. Split(x) = <<x>>
    BY SplitPlain
  <2> DEFINE e == <<<<>>>>
  <2>5. e \in Seq(D)
    BY <1>2
  <2> HIDE DEF D, e
  <2>6. (e \o v) \o <<x>> = e \o Append(v, x) /\ Append(v, x) \in Seq(D)
    <3>1. e \o v \in Seq(D)
      BY <2>5, ConcatProperties
    <3>2. (e \o v) \o <<x>> = Append(e \o v, x)
      BY <3>1, AppendIsConcat
    <3>3. e \o Append(v, x) = Append(e \o v, x)
      BY <2>5, ConcatAppend
    <3> QED
      BY <3>2, <3>3, AppendProperties
  <2> QED
    BY <1>4, <2>2, <2>3, <2>4, <2>6 DEF e
<1> HIDE DEF P
<1>5. segs \in P
  <2> HIDE DEF D
  <2>1. segs \in Seq(D)
    BY DEF D
  <2> QED
    BY <1>3, <1>4, <2>1, Growing
<1>6. segs \in Seq(Seq(C))
  BY <1>1
<1> QED
  BY <1>5, <1>6, JoinedFacts DEF P

----------------------------------------------------------------------------
(* Normalised paths.                                                       *)

\* The segments a normalised path may have.
Kept(C) == Slashless(C) \ Dots

\* A text that begins with a slash.
Rooted(s) == s # <<>> /\ s[1] = "/"

\* q is the normalised path of the segments segs.
NormalFor(q, segs) ==
  \/ segs = <<>> /\ q = <<"/">>
  \/ segs # <<>> /\ (q = Joined(segs) \/ q = Append(Joined(segs), "/"))

\* What the segments of a text are.
LEMMA SegmentsTyped ==
  ASSUME NEW C, NEW s \in Seq(C)
  PROVE  Segments(s) \in Seq(Kept(C)) /\ Segments(s) = Walked(<<>>, Split(s))
<1> DEFINE S == Slashless(C)
<1>1. Split(s) \in Seq(S)
  BY SplitTyped
<1>2. <<>> \in Seq(S \ Dots)
  BY EmptySeq
<1>3. Walked(<<>>, Split(s)) \in Seq(S \ Dots)
  <2> HIDE DEF S
  <2> QED
    BY <1>1, <1>2, Walking
<1> QED
  BY <1>3 DEF Segments, Walked, Kept

\* Behind a slash the walk goes on where the text before it leads.
LEMMA SegmentsOn ==
  ASSUME NEW C, "/" \in C, NEW s \in Seq(C), NEW t \in Seq(C)
  PROVE  /\ Segments(Append(s, "/") \o t) = Walked(Segments(s), Split(t))
         /\ Segments(Append(s, "/")) = Segments(s)
<1> DEFINE S == Slashless(C)
           a == Split(s)
           b == Split(t)
           e == <<>>
<1>1. a \in Seq(S) /\ b \in Seq(S)
  BY SplitTyped
<1>2. e \in Seq(S \ Dots) /\ e \in S
  BY EmptySeq DEF Slashless
<1>3. /\ Append(s, "/") \in Seq(C) /\ Append(s, "/") \o t \in Seq(C)
  BY AppendProperties, ConcatProperties
<1>4. /\ Segments(Append(s, "/") \o t) = Walked(e, Split(Append(s, "/") \o t))
      /\ Segments(Append(s, "/")) = Walked(e, Split(Append(s, "/")))
      /\ Segments(s) = Walked(e, a)
  BY <1>3, SegmentsTyped
<1>5. Split(Append(s, "/") \o t) = a \o b /\ Split(Append(s, "/")) = Append(a, e)
  BY SplitBoth
<1> HIDE DEF S, a, b, e
<1>6. Walked(e, a \o b) = Walked(Walked(e, a), b)
  <2>1. a \in Seq(S)
    BY <1>1
  <2>2. b \in Seq(S)
    BY <1>1
  <2>3. e \in Seq(S \ Dots)
    BY <1>2
  <2> QED
    BY SMTT(90), <2>1, <2>2, <2>3, WalkOn
<1>7. Walked(e, Append(a, <<>>)) = Walked(e, a)
  BY <1>1, <1>2, WalkBlank DEF e
<1> QED
  BY <1>4, <1>5, <1>6, <1>7 DEF b, e

\* Segments joined begin with a slash, and do not end with one.
LEMMA JoinedRooted ==
  ASSUME NEW C, "/" \in C, NEW segs \in Seq(Kept(C)), segs # <<>>
  PROVE  /\ Joined(segs) \in Seq(C) /\ Rooted(Joined(segs)) /\ Last(Joined(segs)) # "/"
<1> DEFINE D == Kept(C)
           P == {v \in Seq(D) : v = <<>> \/ Rooted(Joined(v))}
<1>1. D \subseteq Seq(C) /\ \A v \in Seq(D) : v \in Seq(Seq(C))
  <2>1. D \subseteq Seq(C)
    BY SeqMonotonic DEF Slashless, Kept
  <2> HIDE DEF D
  <2> QED
    BY <2>1, SeqMonotonic
<1>2. ASSUME NEW v \in Seq(D), NEW x \in D
      PROVE  /\ Joined(v) \in Seq(C) /\ x \in Seq(C)
             /\ Joined(Append(v, x)) = Append(Joined(v), "/") \o x
             /\ v = <<>> => Joined(v) = <<>>
  BY <1>1, JoinedFacts
<1>3. <<>> \in P
  BY EmptySeq
<1>4. ASSUME NEW v \in Seq(D), NEW x \in D, v \in P
      PROVE  Append(v, x) \in P
  <2> DEFINE j == Joined(v)
             h == Append(j, "/")
  <2>1. /\ j \in Seq(C) /\ x \in Seq(C) /\ Joined(Append(v, x)) = h \o x
        /\ (v = <<>> => j = <<>>) /\ (v # <<>> => Rooted(j))
    BY <1>2, <1>4
  <2> HIDE DEF j
  <2>2. /\ h \in Seq(C) /\ Len(h) = Len(j) + 1 /\ h[Len(j) + 1] = "/"
        /\ (\A i \in 1..Len(j) : h[i] = j[i]) /\ Len(j) \in Nat
        /\ (j # <<>> => Len(j) # 0) /\ (j = <<>> => Len(j) = 0)
    BY <2>1, AppendProperties, LenProperties, EmptySeq
  <2> HIDE DEF h
  <2>3. h[1] = "/"
    <3>1. CASE v = <<>>
      BY <2>1, <2>2, <3>1
    <3>2. CASE v # <<>>
      <4>1. 1 \in 1..Len(j) /\ j[1] = "/"
        BY <2>1, <2>2, <3>2 DEF Rooted
      <4> QED
        BY <2>2, <4>1
    <3> QED
      BY <3>1, <3>2
  <2>4. /\ h \o x \in Seq(C) /\ Len(h \o x) = Len(h) + Len(x)
        /\ \A i \in 1..(Len(h) + Len(x)) : (h \o x)[i] = IF i <= Len(h) THEN h[i] ELSE x[i - Len(h)]
    BY <2>1, <2>2, ConcatProperties
  <2>5. Len(x) \in Nat
    BY <2>1, LenProperties
  <2>6. 1 \in 1..(Len(h) + Len(x)) /\ 1 <= Len(h) /\ Len(h \o x) # 0
    BY <2>2, <2>4, <2>5
  <2>7. Rooted(h \o x)
    BY <2>3, <2>4, <2>6, EmptySeq DEF Rooted
  <2> QED
    BY <2>1, <2>7, AppendProperties
<1> HIDE DEF P
<1>5. segs \in P
  <2> HIDE DEF D
  <2>1. segs \in Seq(D)
    BY DEF D
  <2> QED
    BY <1>3, <1>4, <2>1, Growing
<1>6. Joined(segs) \in Seq(C) /\ Last(Joined(segs)) # "/"
  <2>1. PICK v \in Seq(D), x \in D : segs = Append(v, x)
    BY SequenceEmptyOrAppend
  <2> DEFINE h == Append(Joined(v), "/")
  <2>2. Joined(v) \in Seq(C) /\ x \in Seq(C) /\ Joined(segs) = h \o x
    BY <1>2, <2>1
  <2>3. h \in Seq(C)
    BY <2>2, AppendProperties
  <2>4. x \in Seq(C \ {"/"}) /\ x # <<>>
    BY DEF Kept, Slashless, Dots
  <2>5. Len(x) \in Nat /\ Len(x) # 0
    BY <2>4, EmptySeq
  <2>6. x[Len(x)] \in C \ {"/"}
    <3>1. Len(x) \in 1..Len(x)
      BY <2>5
    <3> QED
      BY <2>4, <3>1, ElementOfSeq
  <2> HIDE DEF h
  <2>7. /\ h \o x \in Seq(C) /\ Len(h \o x) = Len(h) + Len(x) /\ Len(h) \in Nat
        /\ \A i \in 1..(Len(h) + Len(x)) : (h \o x)[i] = IF i <= Len(h) THEN h[i] ELSE x[i - Len(h)]
    BY <2>2, <2>3, ConcatProperties, LenProperties
  <2>8. (h \o x)[Len(h) + Len(x)] = x[Len(x)]
    <3>1. /\ Len(h) + Len(x) \in 1..(Len(h) + Len(x)) /\ ~(Len(h) + Len(x) <= Len(h))
          /\ (Len(h) + Len(x)) - Len(h) = Len(x)
      BY <2>5, <2>7
    <3> QED
      BY <2>7, <3>1
  <2> QED
    BY <2>2, <2>6, <2>7, <2>8 DEF Last
<1> QED
  BY <1>5, <1>6 DEF P

\* Of the path normalised for segments: its characters, its slash in front, its
\* segments, and that it is normal.
LEMMA NormalFacts ==
  ASSUME NEW C, "/" \in C, NEW segs \in Seq(Kept(C)), NEW q, NormalFor(q, segs)
  PROVE  /\ q \in Seq(C) /\ Rooted(q) /\ Segments(q) = segs
         /\ Split(q) \in Seq(Slashless(C) \ {<<".", ".">>})
         /\ NormalizePath(q) = q
<1> DEFINE S == Slashless(C)
           j == Joined(segs)
           e == <<>>
           D == S \ {<<".", ".">>}
<1>1. S \ Dots \subseteq D /\ S \ Dots \subseteq S /\ e \in D /\ e \in S
  BY EmptySeq DEF Slashless, Dots
<1>2. segs \in Seq(D) /\ segs \in Seq(S) /\ segs \in Seq(S \ Dots)
  <2>1. segs \in Seq(S \ Dots)
    BY DEF Kept
  <2> HIDE DEF D, S
  <2> QED
    BY <1>1, <2>1, SeqMonotonic
<1>3. Split(j) = <<e>> \o segs /\ j \in Seq(C)
  BY <1>2, SplitJoined
<1>4. <<e>> = Append(<<>>, e) /\ <<e>> \in Seq(D) /\ <<e>> \in Seq(S)
  <2>1. <<e>> = Append(<<>>, e) /\ <<>> \in Seq(D) /\ <<>> \in Seq(S)
    BY EmptySeq
  <2> HIDE DEF D, S, e
  <2> QED
    BY <1>1, <2>1, AppendProperties
<1>5. Split(j) \in Seq(D)
  <2> HIDE DEF D, S, e, j
  <2> QED
    BY <1>2, <1>3, <1>4, ConcatProperties
<1>6. Segments(j) = segs
  <2>1. Segments(j) = Walked(<<>>, Split(j))
    BY <1>3, SegmentsTyped
  <2> DEFINE base == <<>>
  <2>2. base \in Seq(S \ Dots) /\ <<>> \in Seq(S)
    BY EmptySeq
  <2> HIDE DEF S, base
  <2>3. Walked(base, <<e>>) = base
    <3>1. Walked(base, Append(<<>>, <<>>)) = Walked(base, <<>>)
      BY <1>1, <2>2, WalkBlank
    <3> QED
      BY <1>4, <3>1, WalkNone
  <2> HIDE DEF e
  <2>4. Walked(base, <<e>> \o segs) = Walked(Walked(base, <<e>>), segs)
    <3> DEFINE one == <<e>>
    <3>1. one \in Seq(S)
      BY <1>4
    <3>2. segs \in Seq(S)
      BY <1>2
    <3>3. base \in Seq(S \ Dots)
      BY <2>2
    <3> HIDE DEF one
    <3>4. Walked(base, one \o segs) = Walked(Walked(base, one), segs)
      BY <3>1, <3>2, <3>3, WalkOn
    <3> QED
      BY <3>4 DEF one
  <2>5. Walked(base, segs) = base \o segs
    BY <1>2, <2>2, WalkPlain
  <2>6. base \o segs = segs
    BY <1>2, ConcatEmptySeq DEF base
  <2> QED
    BY <1>3, <2>1, <2>3, <2>4, <2>5, <2>6 DEF base
<1>7. /\ Append(j, "/") \in Seq(C) /\ Rooted(Append(j, "/")) /\ Last(Append(j, "/")) = "/"
      /\ Segments(Append(j, "/")) = segs /\ Split(Append(j, "/")) \in Seq(D)
  <2>1. Append(j, "/") \in Seq(C)
    BY <1>3, AppendProperties
  <2>2. Last(Append(j, "/")) = "/"
    <3>1. j \in Seq(C)
      BY <1>3
    <3> HIDE DEF j
    <3> QED
      BY ZenonT(90), <3>1, FrontLast
  <2>3. Segments(Append(j, "/")) = segs
    BY <1>3, <1>6, SegmentsOn
  <2>4. Split(Append(j, "/")) \in Seq(D)
    <3>1. Split(Append(j, "/")) = Append(Split(j), e)
      BY <1>3, SplitBoth
    <3> HIDE DEF D, S, e, j
    <3> QED
      BY <1>1, <1>5, <3>1, AppendProperties
  <2>5. Rooted(Append(j, "/"))
    <3>1. CASE segs = <<>>
      <4>1. j = <<>>
        BY <3>1, JoinedFacts, EmptySeq
      <4> QED
        BY <4>1 DEF Rooted
    <3>2. CASE segs # <<>>
      <4>1. j # <<>> /\ j[1] = "/"
        BY <3>2, JoinedRooted DEF Rooted
      <4> HIDE DEF j
      <4>2. 1 \in 1..Len(j)
        BY <1>3, <4>1, EmptySeq
      <4>3. Append(j, "/") # <<>> /\ Append(j, "/")[1] = j[1]
        BY <1>3, <4>2, AppendProperties
      <4> QED
        BY <4>1, <4>3 DEF Rooted
    <3> QED
      BY <3>1, <3>2
  <2> QED
    BY <2>1, <2>2, <2>3, <2>4, <2>5
<1>8. CASE segs = <<>>
  <2>1. q = <<"/">>
    BY <1>8 DEF NormalFor
  <2>2. j = <<>> /\ Append(j, "/") = <<"/">>
    <3>1. Joined(<<>>) = <<>>
      <4>1. <<>> \in Seq(Seq(C))
        BY EmptySeq
      <4> QED
        BY <4>1, JoinedFacts
    <3>2. j = <<>>
      BY <1>8, <3>1
    <3>3. Append(<<>>, "/") = <<"/">>
      OBVIOUS
    <3> QED
      BY <3>2, <3>3
  <2>3. /\ q \in Seq(C) /\ Rooted(q) /\ Segments(q) = segs /\ Split(q) \in Seq(D)
    BY <1>7, <2>1, <2>2
  <2>4. NormalizePath(q) = q
    BY <1>8, <2>1, <2>3 DEF NormalizePath
  <2> QED
    BY <2>3, <2>4
<1>9. CASE segs # <<>> /\ q = j
  <2>1. q \in Seq(C) /\ Rooted(q) /\ Last(q) # "/"
    BY <1>9, JoinedRooted
  <2>2. q \o <<>> = q
    BY <2>1, ConcatEmptySeq
  <2>3. Segments(q) = segs
    BY <1>6, <1>9
  <2>4. NormalizePath(q) = q
    BY <1>9, <2>1, <2>2, <2>3 DEF NormalizePath
  <2> QED
    BY <1>5, <1>9, <2>1, <2>3, <2>4
<1>10. CASE segs # <<>> /\ q = Append(j, "/")
  <2>1. j \o <<"/">> = Append(j, "/")
    BY <1>3, AppendIsConcat
  <2>2. NormalizePath(q) = q
    BY <1>7, <1>10, <2>1 DEF NormalizePath
  <2> QED
    BY <1>7, <1>10, <2>2
<1> QED
  BY <1>8, <1>9, <1>10 DEF NormalFor

\* normalizePath makes a normal path of the segments of what it is given.
LEMMA Normalized ==
  ASSUME NEW C, "/" \in C, NEW p \in Seq(C)
  PROVE  Segments(p) \in Seq(Kept(C)) /\ NormalFor(NormalizePath(p), Segments(p))
<1>1. Segments(p) \in Seq(Kept(C))
  BY SegmentsTyped
<1>2. CASE Segments(p) = <<>>
  BY <1>1, <1>2 DEF NormalizePath, NormalFor
<1>3. CASE Segments(p) # <<>>
  <2> DEFINE j == Joined(Segments(p))
  <2>1. j \in Seq(C)
    BY <1>1, <1>3, JoinedRooted
  <2> HIDE DEF j
  <2>2. j \o <<>> = j /\ j \o <<"/">> = Append(j, "/")
    BY <2>1, ConcatEmptySeq, AppendIsConcat
  <2>3. NormalizePath(p) = j \o IF Last(p) = "/" THEN <<"/">> ELSE <<>>
    BY <1>3 DEF NormalizePath, j
  <2>4. NormalizePath(p) = j \/ NormalizePath(p) = Append(j, "/")
    BY <2>2, <2>3
  <2> QED
    BY <1>1, <1>3, <2>4 DEF NormalFor, j
<1> QED
  BY <1>2, <1>3

\* A segment adds to the path at most itself and its slash.
LEMMA WalkLength ==
  ASSUME NEW C, "/" \in C, NEW w \in Seq(Kept(C)), NEW x \in Slashless(C)
  PROVE  /\ Walk(w, x) \in Seq(Kept(C))
         /\ Len(Joined(w)) \in Nat /\ Len(Joined(Walk(w, x))) \in Nat /\ Len(x) \in Nat
         /\ Len(Joined(Walk(w, x))) <= Len(Joined(w)) + (IF x = <<>> THEN 0 ELSE 1 + Len(x))
<1> DEFINE D == Kept(C)
<1>1. D \subseteq Seq(C) /\ \A v \in Seq(D) : v \in Seq(Seq(C))
  <2>1. D \subseteq Seq(C)
    BY SeqMonotonic DEF Slashless, Kept
  <2> HIDE DEF D
  <2> QED
    BY <2>1, SeqMonotonic
<1>2. x \in Seq(C)
  BY SeqMonotonic DEF Slashless
<1>3. Len(x) \in Nat
  BY <1>2, LenProperties
<1>4. ASSUME NEW v \in Seq(D)
      PROVE  Len(Joined(v)) \in Nat
  BY <1>1, JoinedFacts, LenProperties
<1>5. ASSUME NEW v \in Seq(D), NEW y \in Seq(C)
      PROVE  Len(Joined(Append(v, y))) = Len(Joined(v)) + 1 + Len(y)
  <2> DEFINE j == Joined(v)
             h == Append(j, "/")
  <2>1. j \in Seq(C) /\ Joined(Append(v, y)) = h \o y
    BY <1>1, JoinedFacts
  <2> HIDE DEF j
  <2>2. h \in Seq(C) /\ Len(h) = Len(j) + 1
    BY <2>1, AppendProperties
  <2> HIDE DEF h
  <2>3. Len(h \o y) = Len(h) + Len(y)
    BY <2>2, ConcatProperties
  <2> QED
    BY <2>1, <2>2, <2>3 DEF j
<1>6. Len(Joined(w)) \in Nat
  BY <1>4
<1>7. CASE x \in {<<>>, <<".">>}
  <2>1. Walk(w, x) = w
    BY <1>7 DEF Walk
  <2> QED
    BY <1>3, <1>6, <2>1
<1>8. CASE x \notin {<<>>, <<".">>} /\ x = <<".", ".">>
  <2>1. CASE w = <<>>
    <3>1. Walk(w, x) = w
      BY <1>8, <2>1 DEF Walk
    <3> QED
      BY <1>3, <1>6, <3>1
  <2>2. CASE w # <<>>
    <3>1. PICK v \in Seq(D), y \in D : w = Append(v, y)
      BY <2>2, SequenceEmptyOrAppend
    <3>2. Front(w) = v
      <4> HIDE DEF D
      <4> QED
        BY <3>1, FrontLast
    <3>3. Walk(w, x) = v
      BY <1>8, <2>2, <3>2 DEF Walk
    <3>4. y \in Seq(C)
      BY <1>1, <3>1
    <3>5. Len(y) \in Nat /\ Len(Joined(v)) \in Nat
      BY <1>4, <3>4, LenProperties
    <3>6. Len(Joined(w)) = Len(Joined(v)) + 1 + Len(y)
      BY <1>5, <3>1, <3>4
    <3> DEFINE a == Len(Joined(v))
               b == Len(Joined(w))
               d == Len(x)
               m == Len(y)
    <3>7. a \in Nat /\ b \in Nat /\ d \in Nat /\ m \in Nat /\ b = a + 1 + m
      BY <1>3, <1>6, <3>5, <3>6
    <3> HIDE DEF a, b, d, m
    <3>8. a <= b + (IF x = <<>> THEN 0 ELSE 1 + d)
      BY <3>7
    <3> QED
      BY <1>3, <1>6, <3>3, <3>5, <3>8 DEF a, b, d
  <2> QED
    BY <2>1, <2>2
<1>9. CASE x \notin Dots
  <2>1. x \in D /\ x # <<>>
    BY <1>9 DEF Kept, Dots
  <2>2. Walk(w, x) = Append(w, x)
    BY <1>9 DEF Walk, Dots
  <2>3. Append(w, x) \in Seq(D)
    <3>1. w \in Seq(D)
      OBVIOUS
    <3> HIDE DEF D
    <3> QED
      BY <2>1, <3>1, AppendProperties
  <2>4. Len(Joined(Append(w, x))) = Len(Joined(w)) + 1 + Len(x)
    BY <1>2, <1>5
  <2>5. Len(Joined(Append(w, x))) \in Nat
    BY <1>4, <2>3
  <2> DEFINE a == Len(Joined(Append(w, x)))
             b == Len(Joined(w))
             d == Len(x)
  <2>6. a \in Nat /\ b \in Nat /\ d \in Nat /\ a = b + 1 + d
    BY <1>3, <1>6, <2>4, <2>5
  <2> HIDE DEF a, b, d
  <2>7. a <= b + (IF x = <<>> THEN 0 ELSE 1 + d)
    BY <2>1, <2>6
  <2> QED
    BY <1>3, <1>6, <2>2, <2>3, <2>5, <2>7 DEF a, b, d
<1>10. x \in {<<>>, <<".">>} \/ (x \notin {<<>>, <<".">>} /\ x = <<".", ".">>) \/ x \notin Dots
  BY DEF Dots
<1> QED
  BY <1>7, <1>8, <1>9, <1>10

\* The segments of p before its last one, joined, and the last one fit into p.
Fits(C, p) ==
  \E front \in Seq(Slashless(C)), x \in Slashless(C) :
    /\ Split(p) = Append(front, x)
    /\ Len(Joined(Walked(<<>>, front))) + 1 + Len(x) <= Len(p)
    /\ (Last(p) = "/" => x = <<>>)

\* They do for every text that begins with a slash.
LEMMA AllFit ==
  ASSUME NEW C, "/" \in C, NEW t \in Seq(C)
  PROVE  Fits(C, <<"/">> \o t)
<1> DEFINE S == Slashless(C)
           top == <<"/">>
           P == {v \in Seq(C) : Fits(C, top \o v)}
           e == <<>>
<1>0. top \in Seq(C) /\ top = Append(<<>>, "/") /\ Len(top) = 1 /\ <<>> \in Seq(C)
  <2>1. <<>> \in Seq(C) /\ top = Append(<<>>, "/") /\ Len(<<>>) = 0
    BY EmptySeq
  <2>2. Append(<<>>, "/") \in Seq(C) /\ Len(Append(<<>>, "/")) = 0 + 1
    <3>1. e \in Seq(C) /\ Len(e) = 0
      BY <2>1
    <3> HIDE DEF e
    <3>2. Append(e, "/") \in Seq(C) /\ Len(Append(e, "/")) = 0 + 1
      BY <3>1, AppendProperties
    <3> QED
      BY <3>2 DEF e
  <2> QED
    BY <2>1, <2>2
<1>1. e \in S /\ e \in Seq(S \ Dots) /\ e \in Seq(S) /\ Len(e) = 0
  BY EmptySeq DEF Slashless
<1>2. e \in P
  <2>1. Split(top) = Append(<<e>>, e)
    <3>1. Split(Append(<<>>, "/")) = Append(Split(<<>>), <<>>)
      BY <1>0, SplitBoth
    <3> QED
      BY <1>0, <3>1, SplitNone
  <2>2. <<e>> \in Seq(S)
    <3>1. <<e>> = Append(e, e)
      OBVIOUS
    <3>2. Append(e, e) \in Seq(S)
      <4> HIDE DEF e, S
      <4> QED
        BY <1>1, AppendProperties
    <3> QED
      BY <3>1, <3>2
  <2>3. Walked(<<>>, <<e>>) = <<>>
    <3>1. Walked(e, Append(e, <<>>)) = Walked(e, e)
      <4>1. <<>> \in S
        BY <1>1
      <4> HIDE DEF e, S
      <4> QED
        BY <1>1, <4>1, WalkBlank
    <3>2. Walked(e, e) = e /\ Append(e, <<>>) = <<e>>
      BY WalkNone
    <3> QED
      BY <3>1, <3>2
  <2>4. Joined(<<>>) = <<>>
    <3>1. <<>> \in Seq(Seq(C))
      BY EmptySeq
    <3> QED
      BY <3>1, JoinedFacts
  <2>5. top \o <<>> = top
    <3> HIDE DEF top
    <3> QED
      BY <1>0, ConcatEmptySeq
  <2>6. Len(Joined(Walked(<<>>, <<e>>))) + 1 + Len(e) <= Len(top)
    <3>1. Len(Joined(Walked(<<>>, <<e>>))) = 0
      BY <1>1, <2>3, <2>4
    <3> QED
      BY <1>0, <1>1, <3>1
  <2>7. Fits(C, top)
    BY <1>1, <2>1, <2>2, <2>6 DEF Fits
  <2> QED
    BY <1>0, <2>5, <2>7
<1>3. ASSUME NEW v \in Seq(C), NEW c \in C, Fits(C, top \o v)
      PROVE  Fits(C, top \o Append(v, c))
  <2> DEFINE p == top \o v
  <2>1. p \in Seq(C) /\ Fits(C, p)
    BY <1>0, <1>3, ConcatProperties
  <2>2. top \o Append(v, c) = Append(p, c)
    <3> HIDE DEF top
    <3> QED
      BY <1>0, ConcatAppend
  <2> HIDE DEF p
  <2>3. /\ Append(p, c) \in Seq(C) /\ Len(Append(p, c)) = Len(p) + 1 /\ Last(Append(p, c)) = c
        /\ Len(p) \in Nat
    <3>1. p \in Seq(C)
      BY <2>1
    <3>2. Append(p, c) \in Seq(C) /\ Len(Append(p, c)) = Len(p) + 1
      BY <3>1, AppendProperties
    <3>3. Last(Append(p, c)) = c
      BY ZenonT(90), <3>1, FrontLast
    <3>4. Len(p) \in Nat
      BY <3>1, LenProperties
    <3> QED
      BY <3>2, <3>3, <3>4
  <2>4. PICK front \in Seq(S), x \in S :
          /\ Split(p) = Append(front, x)
          /\ Len(Joined(Walked(<<>>, front))) + 1 + Len(x) <= Len(p)
    BY <2>1 DEF Fits
  <2>5. Split(Append(p, c)) = Step(Append(front, x), c)
    BY <2>1, <2>4, SplitMore
  <2> DEFINE w == Walked(<<>>, front)
  <2>6. w \in Seq(Kept(C))
    <3>1. Walked(e, front) \in Seq(S \ Dots)
      <4> HIDE DEF e, S
      <4> QED
        BY <1>1, Walking
    <3> QED
      BY <3>1 DEF Kept
  <2>7. /\ Walk(w, x) \in Seq(Kept(C))
        /\ Len(Joined(w)) \in Nat /\ Len(Joined(Walk(w, x))) \in Nat /\ Len(x) \in Nat
        /\ Len(Joined(Walk(w, x))) <= Len(Joined(w)) + (IF x = <<>> THEN 0 ELSE 1 + Len(x))
    <3> HIDE DEF w
    <3> QED
      BY <2>6, WalkLength
  <2>8. CASE c = "/"
    <3> DEFINE more == Append(front, x)
    <3>1. Split(Append(p, c)) = Append(more, <<>>) /\ more \in Seq(S)
      BY <2>5, <2>8, AppendProperties DEF Step
    <3>2. Walked(<<>>, more) = Walk(w, x)
      <4>1. Walked(e, Append(front, x)) = Walk(Walked(e, front), x)
        <5> HIDE DEF e, S
        <5> QED
          BY <1>1, WalkingOn
      <4> QED
        BY <4>1
    <3>3. Len(Joined(Walked(<<>>, more))) + 1 + Len(<<>>) <= Len(Append(p, c))
      <4> DEFINE a == Len(Joined(Walk(w, x)))
                 b == Len(Joined(w))
                 d == Len(x)
                 k == Len(p)
                 l == Len(<<>>)
                 m == Len(Append(p, c))
      <4>1. /\ a \in Nat /\ b \in Nat /\ d \in Nat /\ k \in Nat /\ b + 1 + d <= k
            /\ a <= b + (IF x = <<>> THEN 0 ELSE 1 + d) /\ l = 0 /\ m = k + 1
        BY <2>3, <2>4, <2>7, <1>1
      <4> HIDE DEF a, b, d, k, l, m
      <4>2. a + 1 + l <= m
        BY <4>1
      <4> HIDE DEF w
      <4> QED
        BY <3>2, <4>2 DEF a, l, m
    <3>4. <<>> \in S
      BY <1>1
    <3> HIDE DEF more
    <3>5. Fits(C, Append(p, c))
      BY <3>1, <3>3, <3>4 DEF Fits
    <3> QED
      BY <2>2, <3>5
  <2>9. CASE c # "/"
    <3> DEFINE y == Append(x, c)
    <3>1. front \in Seq(Seq(C)) /\ x \in Seq(C)
      <4>1. S \subseteq Seq(C)
        BY SeqMonotonic DEF Slashless
      <4> HIDE DEF S
      <4> QED
        BY <4>1, SeqMonotonic
    <3>2. Split(Append(p, c)) = Append(front, y)
      BY SMTT(90), <2>5, <2>9, <3>1, StepFacts
    <3>3. y \in S /\ Len(y) = Len(x) + 1
      BY <2>9, AppendProperties DEF Slashless
    <3>4. Len(Joined(w)) + 1 + Len(y) <= Len(Append(p, c))
      <4> DEFINE b == Len(Joined(w))
                 d == Len(x)
                 k == Len(p)
                 l == Len(y)
                 m == Len(Append(p, c))
      <4>1. b \in Nat /\ d \in Nat /\ k \in Nat /\ b + 1 + d <= k /\ l = d + 1 /\ m = k + 1
        BY <2>3, <2>4, <2>7, <3>3
      <4> HIDE DEF b, d, k, l, m
      <4>2. b + 1 + l <= m
        BY <4>1
      <4> QED
        BY <4>2 DEF b, l, m
    <3> HIDE DEF y
    <3>5. Fits(C, Append(p, c))
      BY <2>3, <2>9, <3>2, <3>3, <3>4 DEF Fits
    <3> QED
      BY <2>2, <3>5
  <2> QED
    BY <2>8, <2>9
<1>4. ASSUME NEW v \in Seq(C), NEW c \in C, v \in P
      PROVE  Append(v, c) \in P
  <2>1. Append(v, c) \in Seq(C)
    BY AppendProperties
  <2> HIDE DEF top
  <2> QED
    BY <1>3, <1>4, <2>1
<1> HIDE DEF P
<1>5. t \in P
  BY <1>2, <1>4, Growing
<1> QED
  BY <1>5 DEF P

\* A normalised path is no longer than the path it is made from.
LEMMA NoLonger ==
  ASSUME NEW C, "/" \in C, NEW p \in Seq(C), Rooted(p)
  PROVE  Len(NormalizePath(p)) <= Len(p)
<1> DEFINE S == Slashless(C)
           e == <<>>
<1>1. Fits(C, p)
  <2>1. p = <<"/">> \o Tail(p) /\ Tail(p) \in Seq(C)
    <3>1. Head(p) = p[1] /\ p = <<Head(p)>> \o Tail(p) /\ Tail(p) \in Seq(C)
      BY HeadTailProperties DEF Rooted
    <3> QED
      BY <3>1 DEF Rooted
  <2>2. Fits(C, <<"/">> \o Tail(p))
    BY <2>1, AllFit
  <2> QED
    BY <2>1, <2>2
<1>2. PICK front \in Seq(S), x \in S :
        /\ Split(p) = Append(front, x)
        /\ Len(Joined(Walked(<<>>, front))) + 1 + Len(x) <= Len(p)
        /\ (Last(p) = "/" => x = <<>>)
  BY <1>1 DEF Fits
<1> DEFINE w == Walked(<<>>, front)
           segs == Segments(p)
<1>3. e \in Seq(S \ Dots)
  BY EmptySeq
<1>4. w \in Seq(Kept(C)) /\ segs = Walk(w, x)
  <2>1. Walked(e, front) \in Seq(S \ Dots) /\ Walked(e, Append(front, x)) = Walk(Walked(e, front), x)
    <3> HIDE DEF e, S
    <3> QED
      BY <1>3, Walking, WalkingOn
  <2>2. segs = Walked(<<>>, Split(p))
    BY SegmentsTyped
  <2> QED
    BY <1>2, <2>1, <2>2 DEF Kept
<1>5. /\ Walk(w, x) \in Seq(Kept(C))
      /\ Len(Joined(w)) \in Nat /\ Len(Joined(Walk(w, x))) \in Nat /\ Len(x) \in Nat
      /\ Len(Joined(Walk(w, x))) <= Len(Joined(w)) + (IF x = <<>> THEN 0 ELSE 1 + Len(x))
  <2> HIDE DEF w
  <2> QED
    BY <1>4, WalkLength
<1> HIDE DEF w
<1>6. Len(p) \in Nat
  BY LenProperties
<1> DEFINE a == Len(Joined(segs))
           b == Len(Joined(w))
           d == Len(x)
           k == Len(p)
<1>7. /\ a \in Nat /\ b \in Nat /\ d \in Nat /\ k \in Nat /\ b + 1 + d <= k
      /\ a <= b + (IF x = <<>> THEN 0 ELSE 1 + d)
  <2>1. segs = Walk(w, x)
    BY <1>4
  <2>2. b + 1 + d <= k
    BY <1>2 DEF w
  <2> HIDE DEF segs
  <2> QED
    BY <1>5, <1>6, <2>1, <2>2
<1>8. NormalFor(NormalizePath(p), segs) /\ segs \in Seq(Kept(C))
  BY Normalized
<1> HIDE DEF a, b, d, k
<1>9. CASE segs = <<>>
  <2>1. NormalizePath(p) = <<"/">> /\ Len(<<"/">>) = 1
    BY <1>8, <1>9 DEF NormalFor
  <2>2. 1 <= k
    BY <1>7
  <2> QED
    BY <2>1, <2>2 DEF k
<1>10. CASE segs # <<>> /\ Last(p) = "/"
  <2>1. x = <<>>
    BY <1>2, <1>10
  <2>2. a + 1 <= k
    BY <1>7, <2>1
  <2>3. Joined(segs) \in Seq(C)
    BY <1>8, <1>10, JoinedRooted
  <2>4. NormalizePath(p) = Joined(segs) \o <<"/">>
    BY <1>10 DEF NormalizePath
  <2>5. Joined(segs) \o <<"/">> = Append(Joined(segs), "/")
    BY <2>3, AppendIsConcat
  <2>6. Len(Append(Joined(segs), "/")) = a + 1
    BY <2>3, AppendProperties DEF a
  <2> QED
    BY <2>2, <2>4, <2>5, <2>6 DEF k
<1>11. CASE segs # <<>> /\ Last(p) # "/"
  <2>1. a <= k
    <3>1. x = <<>> \/ x # <<>>
      OBVIOUS
    <3> QED
      BY <1>7, <3>1
  <2>2. Joined(segs) \in Seq(C)
    BY <1>8, <1>11, JoinedRooted
  <2>3. NormalizePath(p) = Joined(segs) \o <<>>
    BY <1>11 DEF NormalizePath
  <2>4. Joined(segs) \o <<>> = Joined(segs)
    BY <2>2, ConcatEmptySeq
  <2> QED
    BY <2>1, <2>3, <2>4 DEF a, k
<1> QED
  BY <1>9, <1>10, <1>11

----------------------------------------------------------------------------
(* The path of a request.                                                  *)

\* What is left in front of the first c.
LEMMA UpToFacts ==
  ASSUME NEW C, NEW s \in Seq(C), NEW c
  PROVE  /\ UpTo(c, s) \in Seq(C \ {c})
         /\ Len(UpTo(c, s)) \in Nat /\ Len(UpTo(c, s)) <= Len(s)
         /\ Rooted(s) /\ c # "/" => Rooted(UpTo(c, s))
         /\ c \notin C => UpTo(c, s) = s
<1> DEFINE At(i) == s[i] = c
           I == {i \in 1..Len(s) : s[i] = c}
           n == FirstAt(c, s)
           u == UpTo(c, s)
<1>1. Len(s) \in Nat /\ \A i \in 1..Len(s) : s[i] \in C
  BY LenProperties, ElementOfSeq
<1>2. FirstAt(c, s) = IF I # {} THEN Min(I) ELSE 0
  BY DEF FirstAt, SelectInSeq
<1>3. I \in SUBSET Nat /\ I \subseteq 1..Len(s)
  BY <1>1
<1>4. CASE I = {}
  <2>1. u = s
    BY <1>2, <1>4 DEF UpTo
  <2>2. \A i \in 1..Len(s) : s[i] \in C \ {c}
    BY <1>1, <1>4
  <2>3. s \in Seq(C \ {c})
    <3>1. s \in [1..Len(s) -> C]
      BY LenProperties
    <3>2. s \in [1..Len(s) -> C \ {c}]
      BY <2>2, <3>1
    <3> QED
      BY <1>1, <3>2, SeqDef
  <2> HIDE DEF u
  <2> QED
    BY <1>1, <2>1, <2>3 DEF u
<1>5. CASE I # {}
  <2>1. n \in I /\ \A i \in I : n <= i
    <3> HIDE DEF I
    <3> QED
      BY <1>2, <1>3, <1>5, MinFacts
  <2>2. n \in 1..Len(s) /\ s[n] = c /\ \A i \in 1..Len(s) : s[i] = c => n <= i
    BY <2>1
  <2> DEFINE k == n - 1
  <2>3. k \in Nat /\ k <= Len(s) /\ k < n /\ n = k + 1
    BY <1>1, <2>2
  <2>4. u = SubSeq(s, 1, k)
    BY <2>2 DEF UpTo
  <2> HIDE DEF k, n
  <2>5. /\ SubSeq(s, 1, k) \in Seq(C) /\ Len(SubSeq(s, 1, k)) = k
        /\ \A i \in 1..k : SubSeq(s, 1, k)[i] = s[i]
    BY <1>1, <2>3, SubSeqFacts
  <2> DEFINE v == SubSeq(s, 1, k)
  <2> HIDE DEF v
  <2>6. v \in Seq(C) /\ Len(v) = k /\ \A i \in 1..k : v[i] = s[i]
    BY <2>5 DEF v
  <2>7. \A i \in 1..k : v[i] \in C \ {c}
    <3> SUFFICES ASSUME NEW i \in 1..k PROVE v[i] \in C \ {c}
      OBVIOUS
    <3>1. i \in 1..Len(s) /\ ~(n <= i)
      BY <1>1, <2>3
    <3> QED
      BY <1>1, <2>2, <2>6, <3>1
  <2>8. v \in Seq(C \ {c})
    <3>1. v \in [1..k -> C]
      BY <2>6, LenProperties
    <3>2. v \in [1..k -> C \ {c}]
      BY <2>7, <3>1
    <3> QED
      BY <2>3, <3>2, SeqDef
  <2>9. ASSUME Rooted(s), c # "/"
        PROVE  Rooted(v)
    <3>1. s[1] = "/" /\ 1 # n
      BY <2>2, <2>9 DEF Rooted
    <3>2. 1 \in 1..k
      BY <2>2, <2>3, <3>1
    <3>3. v[1] = "/"
      BY <2>6, <3>1, <3>2
    <3>4. Len(v) # 0
      BY <2>6, <3>2
    <3> QED
      BY <3>3, <3>4, EmptySeq DEF Rooted
  <2>10. c \in C
    BY <1>1, <2>2
  <2>11. u = v
    BY <2>4 DEF v
  <2> HIDE DEF u
  <2>12. u \in Seq(C \ {c}) /\ Len(u) \in Nat /\ Len(u) <= Len(s)
    BY <2>3, <2>6, <2>8, <2>11
  <2> QED
    BY <2>9, <2>10, <2>11, <2>12 DEF u
<1> QED
  BY <1>4, <1>5

\* The characters a path may have: no others come through splitUri and decodeUri.
Clean == Chars \ {"?", "#", "%2e", "%2f"}

\* What decodeUri makes of a text.
LEMMA DecodeFacts ==
  ASSUME NEW s \in Seq(Chars \ {"?", "#"})
  PROVE  /\ DecodeUri(s) \in Seq(Clean) /\ Len(DecodeUri(s)) = Len(s)
         /\ Rooted(s) => Rooted(DecodeUri(s))
         /\ s \in Seq(Clean) => DecodeUri(s) = s
<1> DEFINE D == Chars \ {"?", "#"}
           u == DecodeUri(s)
<1>1. Len(s) \in Nat /\ DOMAIN s = 1..Len(s) /\ \A i \in 1..Len(s) : s[i] \in D
  BY LenProperties, ElementOfSeq
<1>2. \A c \in D : Decoded(c) \in Clean /\ (c \in Clean => Decoded(c) = c)
  BY DEF Decoded, Clean, Chars
<1>3. u = [i \in 1..Len(s) |-> Decoded(s[i])]
  BY <1>1 DEF DecodeUri
<1>4. u \in [1..Len(s) -> Clean]
  BY <1>1, <1>2, <1>3
<1>5. u \in Seq(Clean)
  BY <1>1, <1>4, SeqDef
<1>6. Len(u) = Len(s)
  <2>1. DOMAIN u = 1..Len(u) /\ Len(u) \in Nat
    BY <1>5, LenProperties
  <2>2. 1..Len(u) = 1..Len(s)
    BY <1>3, <2>1
  <2> HIDE DEF u
  <2> DEFINE a == Len(u)
             b == Len(s)
  <2>3. a \in Nat /\ b \in Nat /\ 1..a = 1..b
    BY <1>1, <2>1, <2>2
  <2> HIDE DEF a, b
  <2>4. a = b
    <3>1. \A i \in Nat : i >= 1 => (i <= a <=> i <= b)
      BY <2>3
    <3>2. (a >= 1 => a <= b) /\ (b >= 1 => b <= a)
      BY <2>3, <3>1
    <3> QED
      BY <2>3, <3>2
  <2> QED
    BY <2>4 DEF a, b
<1>7. ASSUME Rooted(s)
      PROVE  Rooted(u)
  <2>1. s # <<>> /\ s[1] = "/" /\ 1 \in 1..Len(s)
    BY <1>1, <1>7, EmptySeq DEF Rooted
  <2>2. Decoded("/") = "/"
    BY DEF Decoded
  <2>3. u[1] = "/"
    BY <1>3, <2>1, <2>2
  <2>4. Len(u) # 0
    BY <1>1, <1>6, <2>1
  <2> HIDE DEF u
  <2> QED
    BY <2>3, <2>4, EmptySeq DEF Rooted
<1>8. ASSUME s \in Seq(Clean)
      PROVE  u = s
  <2>1. \A i \in 1..Len(s) : s[i] \in Clean
    BY <1>8, ElementOfSeq
  <2>2. \A i \in 1..Len(s) : u[i] = s[i]
    BY <1>1, <1>2, <1>3, <2>1
  <2> HIDE DEF u
  <2> QED
    BY <1>5, <1>6, <1>8, <2>2, SeqEqual
<1> QED
  BY <1>5, <1>6, <1>7, <1>8

\* A text that is normalised already and not too long is its own path.
LEMMA PathAgain ==
  ASSUME NEW segs \in Seq(Kept(Clean)), NEW q, NormalFor(q, segs),
         Len(q) <= MaxUrlLength
  PROVE  Path([NoRequest EXCEPT !.method = "GET", !.uri = q]) = q
<1> DEFINE r == [NoRequest EXCEPT !.method = "GET", !.uri = q]
<1>1. "/" \in Clean /\ "?" \notin Clean /\ "#" \notin Clean
  BY DEF Clean, Chars
<1>2. q \in Seq(Clean) /\ Rooted(q) /\ NormalizePath(q) = q
  BY <1>1, NormalFacts
<1>3. UpTo("#", q) = q /\ UpTo("?", q) = q
  BY <1>1, <1>2, UpToFacts
<1>4. DecodeUri(q) = q
  <2>1. Clean \subseteq Chars \ {"?", "#"}
    BY DEF Clean
  <2>2. q \in Seq(Chars \ {"?", "#"})
    BY <1>2, <2>1, SeqMonotonic
  <2> QED
    BY <1>2, <2>2, DecodeFacts
<1>5. r.method = "GET" /\ r.uri = q
  BY DEF NoRequest
<1> HIDE DEF r
<1>6. Head(q) = "/" /\ q # <<>>
  BY <1>2, HeadTailProperties DEF Rooted
<1>7. Len(q) \in Nat /\ ~(Len(q) > MaxUrlLength)
  BY <1>2, LenProperties, LengthAssumption
<1>8. Parsed(r)
  BY <1>5, <1>6, <1>7 DEF Parsed, BadUri, TooLong
<1> QED
  BY <1>2, <1>3, <1>4, <1>5, <1>8 DEF Path, RawPath, r

\* The path of a request: none, or that of segments, no longer than the target.
LEMMA PathFacts ==
  ASSUME NEW r \in Request
  PROVE  /\ ~Parsed(r) => Path(r) = <<>>
         /\ Parsed(r) => /\ Rooted(r.uri) /\ Len(r.uri) \in Nat
                         /\ Len(r.uri) <= MaxUrlLength
                         /\ Len(Path(r)) \in Nat /\ Len(Path(r)) <= Len(r.uri)
                         /\ \E segs \in Seq(Kept(Clean)) : NormalFor(Path(r), segs)
<1> SUFFICES ASSUME Parsed(r)
             PROVE  /\ Rooted(r.uri) /\ Len(r.uri) \in Nat
                    /\ Len(r.uri) <= MaxUrlLength
                    /\ Len(Path(r)) \in Nat /\ Len(Path(r)) <= Len(r.uri)
                    /\ \E segs \in Seq(Kept(Clean)) : NormalFor(Path(r), segs)
  BY DEF Path
<1> DEFINE uri == r.uri
           a == UpTo("#", uri)
           b == UpTo("?", a)
           d == DecodeUri(b)
           p == NormalizePath(d)
<1>1. uri \in Seq(Chars)
  BY DEF Request, Strings
<1>2. Rooted(uri) /\ Len(uri) \in Nat /\ Len(uri) <= MaxUrlLength
  <2>1. uri # <<>> /\ Head(uri) = "/" /\ ~(Len(uri) > MaxUrlLength)
    BY DEF Parsed, BadUri, TooLong
  <2>2. Head(uri) = uri[1]
    BY <1>1, <2>1, HeadTailProperties
  <2>3. Len(uri) \in Nat
    BY <1>1, LenProperties
  <2> QED
    BY <2>1, <2>2, <2>3, LengthAssumption DEF Rooted
<1>3. Path(r) = p
  BY DEF Path, RawPath
<1> HIDE DEF uri
<1>4. a \in Seq(Chars \ {"#"}) /\ Len(a) \in Nat /\ Len(a) <= Len(uri) /\ Rooted(a)
  BY <1>1, <1>2, UpToFacts
<1> HIDE DEF a
<1>5. b \in Seq((Chars \ {"#"}) \ {"?"}) /\ Len(b) \in Nat /\ Len(b) <= Len(a) /\ Rooted(b)
  BY <1>4, UpToFacts
<1> HIDE DEF b
<1>6. d \in Seq(Clean) /\ Len(d) = Len(b) /\ Rooted(d)
  <2>1. (Chars \ {"#"}) \ {"?"} = Chars \ {"?", "#"}
    OBVIOUS
  <2>2. b \in Seq(Chars \ {"?", "#"})
    BY <1>5, <2>1
  <2> QED
    BY <1>5, <2>2, DecodeFacts
<1> HIDE DEF d
<1>7. "/" \in Clean
  BY DEF Clean, Chars
<1>8. Len(p) <= Len(d) /\ Segments(d) \in Seq(Kept(Clean)) /\ NormalFor(p, Segments(d))
  BY <1>6, <1>7, NoLonger, Normalized
<1> HIDE DEF p
<1>9. p \in Seq(Clean)
  BY <1>7, <1>8, NormalFacts
<1>10. Len(p) \in Nat
  BY <1>9, LenProperties
<1>11. Len(p) <= Len(uri)
  BY <1>2, <1>4, <1>5, <1>6, <1>8, <1>10
<1> QED
  BY <1>2, <1>3, <1>8, <1>10, <1>11 DEF uri

----------------------------------------------------------------------------
(* Locations.                                                              *)

\* i is the first of the locations of S with the longest path.
Best(i, S) ==
  /\ i \in S
  /\ \A j \in S : \/ Len(server[j].path) < Len(server[i].path)
                  \/ Len(server[j].path) = Len(server[i].path) /\ i <= j

\* There is one, and there is only one: Longest.
LEMMA LongestFacts ==
  ASSUME server \in Seq(Location), NEW S \in SUBSET (DOMAIN server)
  PROVE  /\ S = {} => Longest(S) = None
         /\ S # {} => Best(Longest(S), S) /\ Longest(S) \in S /\ Longest(S) # None
         /\ \A i : Best(i, S) => Longest(S) = i
<1>1. Len(server) \in Nat /\ DOMAIN server = 1..Len(server)
  BY LenProperties
<1>2. \A i \in 1..Len(server) : Len(server[i].path) \in Nat
  <2> SUFFICES ASSUME NEW i \in 1..Len(server) PROVE Len(server[i].path) \in Nat
    OBVIOUS
  <2>1. server[i] \in Location
    BY ElementOfSeq
  <2>2. server[i].path \in Seq(Chars)
    BY <2>1 DEF Location, Strings
  <2> QED
    BY <2>2, LenProperties
<1> DEFINE L(i) == Len(server[i].path)
           Has(n) == S \cap 1..n # {} => \E i : Best(i, S \cap 1..n)
           Good == {n \in Nat : n <= Len(server) => Has(n)}
<1> HIDE DEF L
<1>3. 0 \in Good
  OBVIOUS
<1>4. ASSUME NEW n \in Nat, n <= Len(server) => Has(n), n + 1 <= Len(server)
      PROVE  Has(n + 1)
  <2> DEFINE T == S \cap 1..n
             U == S \cap 1..(n + 1)
  <2>1. /\ T # {} => \E i : Best(i, T)
        /\ \A i \in U : i \in T \/ i = n + 1
        /\ T \subseteq U
    <3>1. n <= Len(server)
      BY <1>1, <1>4
    <3>2. T # {} => \E i : Best(i, T)
      BY <1>4, <3>1
    <3>3. (\A i \in U : i \in T \/ i = n + 1) /\ T \subseteq U
      OBVIOUS
    <3> QED
      BY <3>2, <3>3
  <2>2. CASE n + 1 \notin S
    <3>1. U = T
      BY <2>1, <2>2
    <3> HIDE DEF T, U
    <3>2. U # {} => \E i : Best(i, U)
      BY <2>1, <3>1
    <3> QED
      BY <3>2 DEF U
  <2>3. CASE n + 1 \in S /\ T = {}
    <3>1. U = {n + 1}
      BY <2>1, <2>3
    <3>2. Best(n + 1, U)
      <4>1. n + 1 <= n + 1
        OBVIOUS
      <4> HIDE DEF U, T
      <4> QED
        BY <3>1, <4>1 DEF Best
    <3> QED
      BY <3>2
  <2>4. CASE n + 1 \in S /\ T # {}
    <3>1. PICK i : Best(i, T)
      BY <2>1, <2>4
    <3>2. /\ i \in T /\ i \in U /\ i \in 1..Len(server) /\ i <= n
          /\ \A j \in T : j \in 1..Len(server) /\ j <= n
          /\ n + 1 \in U /\ n + 1 \in 1..Len(server)
      BY <1>1, <1>4, <2>4, <3>1 DEF Best
    <3>3. /\ L(i) \in Nat /\ L(n + 1) \in Nat /\ \A j \in T : L(j) \in Nat
          /\ \A j \in T : L(j) < L(i) \/ (L(j) = L(i) /\ i <= j)
      BY <1>2, <3>1, <3>2 DEF Best, L
    <3> HIDE DEF T, U
    <3>4. CASE L(n + 1) > L(i)
      <4>1. \A j \in U : L(j) < L(n + 1) \/ (L(j) = L(n + 1) /\ n + 1 <= j)
        BY <2>1, <3>3, <3>4
      <4>2. Best(n + 1, U)
        BY <3>2, <4>1 DEF Best, L
      <4> QED
        BY <4>2 DEF U
    <3>5. CASE ~(L(n + 1) > L(i))
      <4>1. \A j \in U : L(j) < L(i) \/ (L(j) = L(i) /\ i <= j)
        BY <2>1, <3>2, <3>3, <3>5
      <4>2. Best(i, U)
        BY <3>2, <4>1 DEF Best, L
      <4> QED
        BY <4>2 DEF U
    <3> QED
      BY <3>4, <3>5
  <2> QED
    BY <2>2, <2>3, <2>4
<1> HIDE DEF Has
<1>5. \A n \in Nat : n \in Good => n + 1 \in Good
  BY <1>1, <1>4
<1> HIDE DEF Good
<1>6. \A n \in Nat : n \in Good
  BY <1>3, <1>5, Induction
<1>7. Has(Len(server))
  BY <1>1, <1>6 DEF Good
<1>8. S # {} => \E i : Best(i, S)
  <2>1. S \cap 1..Len(server) = S
    BY <1>1
  <2> QED
    BY <1>7, <2>1 DEF Has
<1>9. S # {} => Best(Longest(S), S)
  BY <1>8 DEF Longest, Best
<1>10. ASSUME NEW i, Best(i, S)
       PROVE  Longest(S) = i
  <2> DEFINE k == Longest(S)
  <2>1. Best(k, S) /\ i \in S /\ k \in S
    BY <1>9, <1>10 DEF Best
  <2> HIDE DEF k
  <2>2. i \in Nat /\ k \in Nat /\ L(i) \in Nat /\ L(k) \in Nat
    BY <1>1, <1>2, <2>1 DEF L
  <2>3. /\ L(i) < L(k) \/ (L(i) = L(k) /\ k <= i)
        /\ L(k) < L(i) \/ (L(k) = L(i) /\ i <= k)
    BY <1>10, <2>1 DEF Best, L
  <2>4. i = k
    BY <2>2, <2>3
  <2> QED
    BY <2>4 DEF k
<1>11. S = {} => Longest(S) = None
  BY DEF Longest
<1>12. S # {} => Longest(S) \in S /\ Longest(S) # None
  BY <1>1, <1>9 DEF Best, None
<1> QED
  BY <1>9, <1>10, <1>11, <1>12

\* What is searched for: a path without its slash is given one.
Asked(url) == IF url # <<>> /\ Head(url) = "/" THEN url ELSE <<"/">> \o url

\* The location of a path, when there is one, has a path of its own that is a prefix
\* of what is searched for, and is the best of those.
LEMMA LocationFacts ==
  ASSUME server \in Seq(Location), NEW url \in Strings
  PROVE  /\ Matches(Asked(url)) \in SUBSET (DOMAIN server)
         /\ FindMathLocation(url) = Longest(Matches(Asked(url)))
         /\ FindMathLocation(url) # None =>
              /\ server[FindMathLocation(url)] \in Location
              /\ FindMathLocation(url) \in Matches(Asked(url))
              /\ Best(FindMathLocation(url), Matches(Asked(url)))
<1>1. Matches(Asked(url)) \in SUBSET (DOMAIN server)
  BY DEF Matches
<1>2. FindMathLocation(url) = Longest(Matches(Asked(url)))
  BY DEF FindMathLocation, Asked
<1>3. DOMAIN server = 1..Len(server) /\ \A i \in 1..Len(server) : server[i] \in Location
  BY LenProperties, ElementOfSeq
<1> DEFINE M == Matches(Asked(url))
<1>4. M \in SUBSET (DOMAIN server)
  BY <1>1
<1> HIDE DEF M
<1>5. Longest(M) # None => Longest(M) \in M /\ Best(Longest(M), M)
  BY <1>4, LongestFacts
<1> QED
  BY <1>1, <1>2, <1>3, <1>5 DEF M

\* A location / is found for every path that is empty or begins with a slash.
LEMMA RootFound ==
  ASSUME server \in Seq(Location), NEW url \in Strings, url = <<>> \/ Rooted(url),
         NEW i \in DOMAIN server, server[i].path = <<"/">>
  PROVE  FindMathLocation(url) # None
<1>1. Asked(url) \in Strings /\ Rooted(Asked(url))
  <2>1. CASE url = <<>>
    <3>1. <<"/">> = Append(<<>>, "/") /\ <<>> \in Strings /\ "/" \in Chars
      BY EmptySeq DEF Strings, Chars
    <3>2. <<"/">> \in Strings
      BY <3>1, AppendProperties DEF Strings
    <3>3. Asked(url) = <<"/">> \o <<>>
      BY <2>1 DEF Asked
    <3>4. <<"/">> \o <<>> = <<"/">>
      BY <3>2, ConcatEmptySeq DEF Strings
    <3> QED
      BY <3>2, <3>3, <3>4 DEF Rooted
  <2>2. CASE Rooted(url)
    <3>1. url # <<>> /\ Head(url) = "/"
      BY <2>2, HeadTailProperties DEF Rooted, Strings
    <3> QED
      BY <2>2, <3>1 DEF Asked
  <2> QED
    BY <2>1, <2>2
<1> DEFINE u == Asked(url)
<1>2. u \in Seq(Chars) /\ u # <<>> /\ u[1] = "/"
  BY <1>1 DEF Rooted, Strings
<1>3. i \in Matches(u)
  <2> DEFINE top == <<"/">>
  <2>1. top \in Seq(Chars) /\ Len(top) = 1 /\ top[1] = "/" /\ top # <<>>
    <3>1. top = Append(<<>>, "/") /\ <<>> \in Seq(Chars) /\ "/" \in Chars
      BY EmptySeq DEF Chars
    <3>2. top \in Seq(Chars)
      BY <3>1, AppendProperties
    <3> QED
      BY <3>2
  <2> HIDE DEF u, top
  <2>2. Len(u) \in Nat /\ Len(u) # 0
    BY <1>2, EmptySeq
  <2>3. IsPrefix(top, u)
    <3>1. Len(top) <= Len(u) /\ \A k \in 1..Len(top) : top[k] = u[k]
      BY <1>2, <2>1, <2>2
    <3> QED
      BY <1>2, <2>1, <3>1, PrefixFacts
  <2> QED
    BY <2>1, <2>3 DEF Matches, top
<1> HIDE DEF u
<1>4. Longest(Matches(u)) # None
  <2>1. Matches(u) \in SUBSET (DOMAIN server)
    BY DEF Matches
  <2> QED
    BY <1>3, <2>1, LongestFacts
<1> QED
  BY <1>4, LocationFacts DEF u

\* Where a path goes on behind its location with a new segment, the search of the
\* uploads finds that location too.
LEMMA SameLocation ==
  ASSUME server \in Seq(Location), NEW path \in Strings, path = <<>> \/ Rooted(path),
         WholeSegments(path)
  PROVE  /\ FindBestMatch(path) = FindMathLocation(path)
         /\ Rooted(path) /\ server[FindMathLocation(path)] \in Location
         /\ server[FindMathLocation(path)].path # <<>>
<1> DEFINE l == FindMathLocation(path)
           A == {i \in DOMAIN server : AtSegment(i, path)}
           u == Asked(path)
<1>1. l # None /\ AtSegment(l, path)
  BY DEF WholeSegments
<1>2. server[l] \in Location /\ l \in Matches(u) /\ Best(l, Matches(u))
  BY <1>1, LocationFacts
<1>3. DOMAIN server = 1..Len(server) /\ \A i \in 1..Len(server) : server[i] \in Location
  BY LenProperties, ElementOfSeq
<1>4. \A i \in DOMAIN server : server[i].path \in Seq(Chars) /\ Len(server[i].path) \in Nat
  BY <1>3, LenProperties DEF Location, Strings
<1>5. server[l].path # <<>> /\ IsPrefix(server[l].path, path) /\ l \in DOMAIN server
  BY <1>1, <1>2 DEF AtSegment, Matches
<1>6. Len(server[l].path) # 0
  BY <1>4, <1>5, EmptySeq
<1>7. Rooted(path)
  <2> SUFFICES ASSUME path = <<>> PROVE FALSE
    OBVIOUS
  <2>1. Len(server[l].path) <= Len(path) /\ Len(path) = 0
    BY <1>5 DEF IsPrefix
  <2> HIDE DEF l
  <2> QED
    BY <1>4, <1>5, <1>6, <2>1
<1>8. u = path
  BY <1>7, HeadTailProperties DEF Rooted, Asked, Strings
<1> HIDE DEF u, l
<1>9. Best(l, A)
  <2>1. l \in A
    BY <1>1, <1>5
  <2>2. ASSUME NEW j \in A
        PROVE  \/ Len(server[j].path) < Len(server[l].path)
               \/ Len(server[j].path) = Len(server[l].path) /\ l <= j
    <3>1. CASE server[j].path = <<>>
      <4>1. Len(server[j].path) = 0
        BY <3>1
      <4> QED
        BY <1>4, <1>5, <1>6, <4>1
    <3>2. CASE server[j].path # <<>>
      <4>1. j \in Matches(path)
        BY <2>2, <3>2 DEF AtSegment, Matches
      <4> QED
        BY <1>2, <1>8, <4>1 DEF Best
    <3> QED
      BY <3>1, <3>2
  <2> HIDE DEF A
  <2> QED
    BY <2>1, <2>2 DEF Best
<1>10. A \in SUBSET (DOMAIN server) /\ FindBestMatch(path) = Longest(A)
  BY DEF FindBestMatch
<1> HIDE DEF A
<1>11. FindBestMatch(path) = l
  BY <1>9, <1>10, LongestFacts
<1> QED
  BY <1>2, <1>5, <1>7, <1>11 DEF l

----------------------------------------------------------------------------
(* The types of paths, nodes and states.                                   *)

\* The short texts.
LEMMA TextTypes ==
  /\ <<>> \in Strings /\ <<>> \in Nodes
  /\ <<"/">> \in Strings /\ "/" \in Chars /\ NoRequest \in Request
<1>1. <<>> \in Strings /\ <<>> \in Nodes /\ "/" \in Chars
  BY EmptySeq DEF Strings, Nodes, Chars
<1>2. <<"/">> \in Strings
  <2>1. <<"/">> = Append(<<>>, "/")
    OBVIOUS
  <2> QED
    BY <1>1, <2>1, AppendProperties DEF Strings
<1>3. NoRequest \in Request
  BY <1>1 DEF NoRequest, Request
<1> QED
  BY <1>1, <1>2, <1>3

\* The segments of a text make a node.
LEMMA SegmentsNode ==
  ASSUME NEW s \in Strings
  PROVE  Segments(s) \in Nodes /\ Segments(s) \in Seq(Kept(Chars))
<1>1. Segments(s) \in Seq(Kept(Chars))
  BY SegmentsTyped DEF Strings
<1>2. Kept(Chars) \subseteq Strings
  BY SeqMonotonic DEF Kept, Slashless, Strings
<1> QED
  BY <1>1, <1>2, SeqMonotonic DEF Nodes

\* The path of a request: nothing, or a text that begins with a slash and does not lead up.
LEMMA PathTyped ==
  ASSUME NEW r \in Request
  PROVE  /\ Path(r) \in Strings
         /\ Path(r) = <<>> \/ Rooted(Path(r))
         /\ Parsed(r) => /\ Path(r) \in Seq(Clean) /\ Rooted(Path(r))
                         /\ Split(Path(r)) \in Seq(Slashless(Clean) \ {<<".", ".">>})
<1>1. "/" \in Clean /\ Clean \subseteq Chars
  BY DEF Clean, Chars
<1>2. CASE ~Parsed(r)
  BY <1>2, PathFacts, TextTypes
<1>3. CASE Parsed(r)
  <2>1. PICK segs \in Seq(Kept(Clean)) : NormalFor(Path(r), segs)
    BY <1>3, PathFacts
  <2>2. /\ Path(r) \in Seq(Clean) /\ Rooted(Path(r))
        /\ Split(Path(r)) \in Seq(Slashless(Clean) \ {<<".", ".">>})
    BY <1>1, <2>1, NormalFacts
  <2>3. Path(r) \in Strings
    BY <1>1, <2>2, SeqMonotonic DEF Strings
  <2> QED
    BY <2>2, <2>3
<1> QED
  BY <1>2, <1>3

\* A text without the slash at its end has the same segments.
LEMMA WithoutSlashTyped ==
  ASSUME NEW s \in Strings
  PROVE  /\ WithoutSlash(s) \in Strings
         /\ WithoutSlash(s) = s \/ s = Append(WithoutSlash(s), "/")
         /\ Segments(WithoutSlash(s)) = Segments(s)
<1>1. CASE s # <<>> /\ Last(s) = "/"
  <2>1. Front(s) \in Strings /\ Append(Front(s), "/") = s
    <3>1. Front(s) \in Seq(Chars) /\ Append(Front(s), Last(s)) = s
      BY <1>1, TextTypes, FrontLast DEF Strings
    <3> QED
      BY <1>1, <3>1 DEF Strings
  <2>2. WithoutSlash(s) = Front(s)
    BY <1>1 DEF WithoutSlash
  <2> DEFINE f == Front(s)
  <2>3. f \in Seq(Chars) /\ "/" \in Chars /\ s = Append(f, "/") /\ <<>> \in Seq(Chars)
    BY <2>1, TextTypes DEF Strings
  <2> HIDE DEF f
  <2>4. Segments(s) = Segments(f)
    BY <2>3, SegmentsOn
  <2> QED
    BY <2>1, <2>2, <2>4 DEF f
<1>2. CASE ~(s # <<>> /\ Last(s) = "/")
  BY <1>2 DEF WithoutSlash
<1> QED
  BY <1>1, <1>2

\* What a path stands for at a location is a text.
LEMMA JoinPathTyped ==
  ASSUME NEW loc \in Location, NEW path \in Strings
  PROVE  JoinPath(loc, path) \in Strings
<1>1. loc.root \in Strings /\ loc.path \in Strings
  BY DEF Location
<1>2. WithoutSlash(loc.root) \in Strings
  BY <1>1, WithoutSlashTyped
<1>3. Drop(Len(loc.path), path) \in Strings
  <2>1. Len(loc.path) \in Nat
    BY <1>1, LenProperties DEF Strings
  <2> QED
    BY <2>1, DropFacts DEF Strings
<1> DEFINE a == WithoutSlash(loc.root)
           b == IF loc.path # <<"/">> /\ IsPrefix(loc.path, path) THEN Drop(Len(loc.path), path)
                ELSE path
<1>4. a \in Seq(Chars) /\ b \in Seq(Chars)
  BY <1>2, <1>3 DEF Strings
<1>5. JoinPath(loc, path) = a \o b
  BY DEF JoinPath
<1> HIDE DEF a, b
<1> QED
  BY <1>4, <1>5, ConcatProperties DEF Strings

\* An index file that is found is one that is there.
LEMMA IndexFound ==
  ASSUME NEW s, NEW loc \in Location, NEW path \in Strings, NEW i, i = FirstIndex(s, loc, path),
         i # 0
  PROVE  IndexPath(path, i, loc) \in Strings /\ IsFile(s.disk, IndexPath(path, i, loc))
<1> DEFINE n == Len(loc.index)
           paths == [k \in DOMAIN loc.index |-> IndexPath(path, k, loc)]
<1>1. /\ loc.index \in Seq(Strings) /\ n \in Nat /\ DOMAIN loc.index = 1..n
      /\ \A k \in 1..n : loc.index[k] \in Strings
  <2>1. loc.index \in Seq(Strings)
    BY DEF Location
  <2> QED
    BY <2>1, LenProperties, ElementOfSeq
<1>2. ASSUME NEW k \in 1..n
      PROVE  IndexPath(path, k, loc) \in Strings
  <2> DEFINE a == WithoutSlash(path)
             b == loc.index[k]
             c == <<"/">>
  <2>1. a \in Seq(Chars) /\ b \in Seq(Chars) /\ c \in Seq(Chars)
    BY <1>1, WithoutSlashTyped, TextTypes DEF Strings
  <2>2. IndexPath(path, k, loc) = a \o c \o b
    BY DEF IndexPath
  <2> HIDE DEF a, b, c
  <2>3. (a \o c) \o b \in Seq(Chars)
    BY <2>1, ConcatProperties
  <2> QED
    BY <2>2, <2>3 DEF Strings
<1>3. paths \in Seq(Strings) /\ Len(paths) = n
  <2>1. paths \in [1..n -> Strings]
    BY <1>1, <1>2
  <2> HIDE DEF paths
  <2>2. paths \in Seq(Strings)
    BY <1>1, <2>1, SeqDef
  <2>3. DOMAIN paths = 1..Len(paths) /\ DOMAIN paths = 1..n /\ Len(paths) \in Nat
    BY <2>1, <2>2, LenProperties
  <2> DEFINE m == Len(paths)
  <2>4. m \in Nat /\ n \in Nat /\ 1..m = 1..n
    BY <1>1, <2>3
  <2> HIDE DEF m, n
  <2>5. m = n
    <3>1. \A k \in Nat : k >= 1 => (k <= m <=> k <= n)
      BY <2>4
    <3>2. (m >= 1 => m <= n) /\ (n >= 1 => n <= m)
      BY <2>4, <3>1
    <3> QED
      BY <2>4, <3>2
  <2> QED
    BY <2>2, <2>5 DEF m
<1> DEFINE I == {k \in 1..Len(paths) : IsFile(s.disk, paths[k])}
<1>4. i = IF I # {} THEN Min(I) ELSE 0
  BY DEF FirstIndex, SelectInSeq
<1>5. I # {} /\ I \in SUBSET Nat
  BY <1>1, <1>3, <1>4
<1> HIDE DEF I
<1>6. Min(I) \in I
  BY <1>5, MinFacts
<1>7. i \in I
  BY <1>4, <1>5, <1>6
<1>8. i \in 1..n /\ IsFile(s.disk, paths[i])
  BY <1>3, <1>7 DEF I
<1>9. paths[i] = IndexPath(path, i, loc)
  BY <1>1, <1>8
<1> QED
  BY <1>2, <1>8, <1>9

----------------------------------------------------------------------------
(* What the handlers make of the state of a request.                       *)

Trees == {d \in Disk : d.dirs \cap d.files = {}}
Replies == [code : Codes \cup {"unset"}, node : Nodes]
States == [up : BOOLEAN, disk : Trees, answer : Replies, script : Strings]

\* The state with another answer, and the one the process ends in.
To(s, a) == [s EXCEPT !.answer = a]
Ended(s) == [s EXCEPT !.up = FALSE]

\* t is s with an answer of one of the codes.
Replied(s, t, codes) == \E a \in Replies : a.code \in codes /\ t = To(s, a)

\* The path of r has a location.
Located(r) == FindMathLocation(Path(r)) # None

\* Another answer changes nothing else.
LEMMA ToFacts ==
  ASSUME NEW s \in States, NEW a \in Replies
  PROVE  /\ To(s, a) \in States /\ To(s, a).answer = a
         /\ To(s, a).disk = s.disk /\ To(s, a).script = s.script
         /\ To(s, a).up <=> s.up
<1>1. s = [up |-> s.up, disk |-> s.disk, answer |-> s.answer, script |-> s.script]
  BY DEF States
<1>2. To(s, a).answer = a /\ To(s, a).disk = s.disk /\ To(s, a).script = s.script
  BY DEF To, States
<1>3. To(s, a).up <=> s.up
  BY DEF To, States
<1>4. To(s, a) \in States
  BY DEF To, States
<1> QED
  BY <1>2, <1>3, <1>4

\* Nor does the end of the process.
LEMMA EndedFacts ==
  ASSUME NEW s \in States
  PROVE  /\ Ended(s) \in States /\ ~Ended(s).up
         /\ Ended(s).disk = s.disk /\ Ended(s).script = s.script /\ Ended(s).answer = s.answer
<1>1. Ended(s).disk = s.disk /\ Ended(s).script = s.script /\ Ended(s).answer = s.answer
  BY DEF Ended, States
<1>2. ~Ended(s).up
  BY DEF Ended, States
<1>3. Ended(s) \in States
  BY DEF Ended, States
<1> QED
  BY <1>1, <1>2, <1>3

\* What handlers answer with.
LEMMA ReplyTypes ==
  /\ \A code \in Codes : Page(code) \in Replies /\ Page(code).code = code
  /\ \A code \in Codes, path \in Strings :
       /\ Sent(code, path) \in Replies /\ Sent(code, path).code = code
       /\ Sent(code, path).node = Segments(path)
<1>1. \A path \in Strings : Segments(path) \in Nodes
  BY SegmentsNode
<1>2. <<>> \in Nodes
  BY TextTypes
<1> QED
  BY <1>1, <1>2 DEF Page, Sent, Replies

\* errorResponse answers where there is a location, and ends the process where there is none.
LEMMA ErrorFacts ==
  ASSUME NEW s, NEW r, NEW code
  PROVE  ErrorResponse(s, r, code) = IF Located(r) THEN To(s, Page(code)) ELSE Ended(s)
BY DEF ErrorResponse, Located, To, Ended

\* A file is sent, or that it cannot be read is.
LEMMA PrepareFacts ==
  ASSUME NEW s, NEW r, NEW path, Located(r)
  PROVE  PrepareResponse(s, r, path)
           = To(s, IF Unreadable(s.disk, path) THEN Page("500") ELSE Sent("200", path))
BY ErrorFacts DEF PrepareResponse, To

\* A directory is listed, or the process ends.
LEMMA ListingFacts ==
  ASSUME NEW s, NEW path
  PROVE  ListingDirectory(s, path)
           = IF Unreadable(s.disk, path) THEN Ended(s) ELSE To(s, Sent("listing", path))
BY DEF ListingDirectory, To, Ended

\* A directory is answered, or the process ends at one that cannot be read.
LEMMA DirectoryFacts ==
  ASSUME NEW s \in States, NEW r \in Request, NEW loc \in Location, NEW path \in Strings,
         Located(r)
  PROVE  LET t == HandleDirectory(s, r, loc, path) IN
         \/ t = Ended(s) /\ Unreadable(s.disk, path)
         \/ Replied(s, t, {"200", "500", "listing", "403"})
<1> DEFINE i == FirstIndex(s, loc, path)
           file == IndexPath(path, i, loc)
           t == HandleDirectory(s, r, loc, path)
<1>1. CASE i # 0
  <2>1. file \in Strings
    BY <1>1, IndexFound
  <2>2. t = PrepareResponse(s, r, file)
    BY <1>1 DEF HandleDirectory
  <2> HIDE DEF file, i, t
  <2>3. t = To(s, IF Unreadable(s.disk, file) THEN Page("500") ELSE Sent("200", file))
    BY <2>2, PrepareFacts
  <2>4. /\ Page("500") \in Replies /\ Page("500").code = "500"
        /\ Sent("200", file) \in Replies /\ Sent("200", file).code = "200"
    BY <2>1, ReplyTypes DEF Codes
  <2>5. Replied(s, t, {"200", "500", "listing", "403"})
    BY <2>3, <2>4 DEF Replied
  <2> QED
    BY <2>5 DEF t
<1>2. CASE i = 0 /\ loc.autoindex
  <2>1. t = ListingDirectory(s, path)
    BY <1>2 DEF HandleDirectory
  <2> HIDE DEF i, t
  <2>2. t = IF Unreadable(s.disk, path) THEN Ended(s) ELSE To(s, Sent("listing", path))
    BY <2>1, ListingFacts
  <2>3. Sent("listing", path) \in Replies /\ Sent("listing", path).code = "listing"
    BY ReplyTypes DEF Codes
  <2> QED
    BY <2>2, <2>3 DEF Replied, t
<1>3. CASE i = 0 /\ ~loc.autoindex
  <2>1. t = ErrorResponse(s, r, "403")
    BY <1>3 DEF HandleDirectory
  <2> HIDE DEF i, t
  <2>2. t = To(s, Page("403"))
    BY <2>1, ErrorFacts
  <2>3. Page("403") \in Replies /\ Page("403").code = "403"
    BY ReplyTypes DEF Codes
  <2> QED
    BY <2>2, <2>3 DEF Replied, t
<1> QED
  BY <1>1, <1>2, <1>3

\* A reply by a page.
LEMMA RepliedPage ==
  ASSUME NEW s, NEW r, NEW code \in Codes, NEW codes, code \in codes, Located(r)
  PROVE  /\ ErrorResponse(s, r, code) = To(s, Page(code))
         /\ Replied(s, ErrorResponse(s, r, code), codes)
<1>1. ErrorResponse(s, r, code) = To(s, Page(code))
  BY ErrorFacts
<1>2. Page(code) \in Replies /\ Page(code).code = code
  BY ReplyTypes
<1> QED
  BY <1>1, <1>2 DEF Replied

\* The codes GET answers with.
GetCodes == {"200", "redirect", "listing", "403", "404", "405", "500"}

\* GET: the process ends only at an unreadable directory; a method that is not allowed
\* is told so; what is not there is not found; a file that can be read is sent.
LEMMA GetFacts ==
  ASSUME NEW s \in States, NEW r \in Request, NEW loc \in Location, Located(r),
         NEW path, path = JoinPath(loc, Path(r)), NEW t, t = HandleGET(s, r, loc)
  PROVE  /\ (t = Ended(s) /\ Unreadable(s.disk, path)) \/ Replied(s, t, GetCodes)
         /\ "GET" \notin loc.methods => t = To(s, Page("405"))
         /\ ~IsDir(s.disk, path) /\ ~IsFile(s.disk, path) =>
              Replied(s, t, {"405", "redirect", "500", "404"})
         /\ "GET" \in loc.methods /\ ~loc.redirected /\ loc.root # <<>>
              /\ ~IsDir(s.disk, path) /\ IsFile(s.disk, path) /\ ~Unreadable(s.disk, path)
            => t = To(s, Sent("200", path))
<1> DEFINE Few == {"405", "redirect", "500", "404"}
<1>1. path \in Strings
  BY PathTyped, JoinPathTyped
<1>2. \A codes, more : Replied(s, t, codes) /\ codes \subseteq more => Replied(s, t, more)
  BY DEF Replied
<1>3. \A code \in Few : /\ ErrorResponse(s, r, code) = To(s, Page(code))
                        /\ Replied(s, ErrorResponse(s, r, code), Few)
  <2>1. Few \subseteq Codes
    BY DEF Codes
  <2> HIDE DEF Few
  <2> QED
    BY <2>1, RepliedPage
<1>4. CASE ~AllowedMethod(loc, "GET")
  <2>1. t = ErrorResponse(s, r, "405")
    BY <1>4 DEF HandleGET
  <2>2. Replied(s, t, Few) /\ t = To(s, Page("405")) /\ "GET" \notin loc.methods
    BY <1>3, <1>4, <2>1 DEF AllowedMethod
  <2> QED
    BY <1>2, <2>2 DEF GetCodes
<1>5. CASE AllowedMethod(loc, "GET") /\ loc.redirected
  <2>1. t = To(s, Page("redirect"))
    BY <1>5 DEF HandleGET, To
  <2>2. Page("redirect") \in Replies /\ Page("redirect").code = "redirect"
    BY ReplyTypes DEF Codes
  <2>3. Replied(s, t, Few)
    BY <2>1, <2>2 DEF Replied
  <2> QED
    BY <1>2, <1>5, <2>3 DEF GetCodes, AllowedMethod
<1>6. CASE AllowedMethod(loc, "GET") /\ ~loc.redirected /\ loc.root = <<>>
  <2>1. t = ErrorResponse(s, r, "500")
    BY <1>6 DEF HandleGET
  <2>2. Replied(s, t, Few)
    BY <1>3, <2>1
  <2> QED
    BY <1>2, <1>6, <2>2 DEF GetCodes, AllowedMethod
<1>7. CASE /\ AllowedMethod(loc, "GET") /\ ~loc.redirected /\ loc.root # <<>>
           /\ IsDir(s.disk, path)
  <2>1. t = HandleDirectory(s, r, loc, path)
    BY <1>7 DEF HandleGET
  <2>2. \/ t = Ended(s) /\ Unreadable(s.disk, path)
        \/ Replied(s, t, {"200", "500", "listing", "403"})
    BY <1>1, <2>1, DirectoryFacts
  <2> QED
    BY <1>2, <1>7, <2>2 DEF GetCodes, AllowedMethod
<1>8. CASE /\ AllowedMethod(loc, "GET") /\ ~loc.redirected /\ loc.root # <<>>
           /\ ~IsDir(s.disk, path) /\ IsFile(s.disk, path)
  <2>1. t = PrepareResponse(s, r, path)
    BY <1>8 DEF HandleGET
  <2>2. t = To(s, IF Unreadable(s.disk, path) THEN Page("500") ELSE Sent("200", path))
    BY <2>1, PrepareFacts
  <2>3. /\ Page("500") \in Replies /\ Page("500").code = "500"
        /\ Sent("200", path) \in Replies /\ Sent("200", path).code = "200"
    BY <1>1, ReplyTypes DEF Codes
  <2>4. Replied(s, t, {"200", "500"})
    BY <2>2, <2>3 DEF Replied
  <2>5. ~Unreadable(s.disk, path) => t = To(s, Sent("200", path))
    BY <2>2
  <2> QED
    BY <1>2, <1>8, <2>4, <2>5 DEF GetCodes, AllowedMethod
<1>9. CASE /\ AllowedMethod(loc, "GET") /\ ~loc.redirected /\ loc.root # <<>>
           /\ ~IsDir(s.disk, path) /\ ~IsFile(s.disk, path)
  <2>1. t = ErrorResponse(s, r, "404")
    BY <1>9 DEF HandleGET
  <2>2. Replied(s, t, Few)
    BY <1>3, <2>1
  <2> QED
    BY <1>2, <1>9, <2>2 DEF GetCodes, AllowedMethod
<1> QED
  BY <1>4, <1>5, <1>6, <1>7, <1>8, <1>9

\* What a DELETE leaves when it removes something.
LEMMA DeletedFacts ==
  ASSUME NEW s \in States, NEW path \in Strings
  PROVE  /\ Deleted(s, path) \in States /\ Deleted(s, path).answer = Sent("204", path)
         /\ Deleted(s, path).disk = Without(s.disk, Segments(path))
         /\ Deleted(s, path).script = s.script
         /\ Deleted(s, path).up <=> s.up
<1>1. Without(s.disk, Segments(path)) \in Trees
  BY DEF States, Trees, Disk, Without
<1>2. Sent("204", path) \in Replies
  BY ReplyTypes DEF Codes
<1> DEFINE d == Without(s.disk, Segments(path))
           a == Sent("204", path)
<1> HIDE DEF d, a
<1>3. Deleted(s, path) = [s EXCEPT !.answer = a, !.disk = d]
  BY DEF Deleted, a, d
<1> DEFINE t == [s EXCEPT !.answer = a, !.disk = d]
<1>4. t.answer = a /\ t.disk = d /\ t.script = s.script
  BY DEF States
<1>5. t.up <=> s.up
  BY DEF States
<1>6. t \in States
  BY <1>1, <1>2 DEF States, a, d
<1> QED
  BY <1>3, <1>4, <1>5, <1>6 DEF a, d

\* DELETE: a method that is not allowed is told so; what is removed was there.
LEMMA DeleteFacts ==
  ASSUME NEW s \in States, NEW r \in Request, NEW loc \in Location, Located(r),
         NEW path, path = JoinPath(loc, Path(r)), NEW t, t = HandleDELETE(s, r, loc)
  PROVE  /\ "DELETE" \notin loc.methods => t = To(s, Page("405"))
         /\ \/ Replied(s, t, {"403", "404", "405", "409", "500"})
            \/ /\ t = Deleted(s, path)
               /\ "DELETE" \in loc.methods /\ loc.root # <<>>
               /\ Segments(path) \in s.disk.dirs \cup s.disk.files
<1> DEFINE Few == {"403", "404", "405", "409", "500"}
<1>1. \A code \in Few : /\ ErrorResponse(s, r, code) = To(s, Page(code))
                        /\ Replied(s, ErrorResponse(s, r, code), Few)
  <2>1. Few \subseteq Codes
    BY DEF Codes
  <2> HIDE DEF Few
  <2> QED
    BY <2>1, RepliedPage
<1>2. CASE ~AllowedMethod(loc, "DELETE")
  <2>1. t = ErrorResponse(s, r, "405")
    BY <1>2 DEF HandleDELETE
  <2> QED
    BY <1>1, <2>1
<1>3. CASE AllowedMethod(loc, "DELETE") /\ loc.root = <<>>
  <2>1. t = ErrorResponse(s, r, "500")
    BY <1>3 DEF HandleDELETE
  <2> QED
    BY <1>1, <1>3, <2>1 DEF AllowedMethod
<1>4. CASE AllowedMethod(loc, "DELETE") /\ loc.root # <<>> /\ IsDir(s.disk, path)
  <2>1. t = HandleDeleteDir(s, r, path)
    BY <1>4 DEF HandleDELETE
  <2>2. t \in {ErrorResponse(s, r, "409"), ErrorResponse(s, r, "500"), Deleted(s, path)}
    BY <2>1 DEF HandleDeleteDir
  <2>3. Segments(path) \in s.disk.dirs
    BY <1>4 DEF IsDir
  <2> QED
    BY <1>1, <1>4, <2>2, <2>3 DEF AllowedMethod
<1>5. CASE /\ AllowedMethod(loc, "DELETE") /\ loc.root # <<>>
           /\ ~IsDir(s.disk, path) /\ IsFile(s.disk, path)
  <2>1. t = HandleDeleteFile(s, r, path)
    BY <1>5 DEF HandleDELETE
  <2>2. t \in {ErrorResponse(s, r, "403"), ErrorResponse(s, r, "500"), Deleted(s, path)}
    BY <2>1 DEF HandleDeleteFile
  <2>3. Segments(path) \in s.disk.files
    BY <1>5 DEF IsFile
  <2> QED
    BY <1>1, <1>5, <2>2, <2>3 DEF AllowedMethod
<1>6. CASE /\ AllowedMethod(loc, "DELETE") /\ loc.root # <<>>
           /\ ~IsDir(s.disk, path) /\ ~IsFile(s.disk, path)
  <2>1. t = ErrorResponse(s, r, "404")
    BY <1>6 DEF HandleDELETE
  <2> QED
    BY <1>1, <1>6, <2>1 DEF AllowedMethod
<1> QED
  BY <1>2, <1>3, <1>4, <1>5, <1>6

\* The state with a script to run.
Scripted(s, path) == [s EXCEPT !.script = path]

\* A script to run changes nothing else.
LEMMA ScriptedFacts ==
  ASSUME NEW s \in States, NEW path \in Strings
  PROVE  /\ Scripted(s, path) \in States /\ Scripted(s, path).script = path
         /\ Scripted(s, path).disk = s.disk /\ Scripted(s, path).answer = s.answer
         /\ Scripted(s, path).up <=> s.up
<1>1. /\ Scripted(s, path).script = path
      /\ Scripted(s, path).disk = s.disk /\ Scripted(s, path).answer = s.answer
  BY DEF Scripted, States
<1>2. Scripted(s, path).up <=> s.up
  BY DEF Scripted, States
<1>3. Scripted(s, path) \in States
  BY DEF Scripted, States
<1> QED
  BY <1>1, <1>2, <1>3

\* What looking for a script makes of a state.
ScriptLookedFor(s, r, loc, path, t) ==
  \/ t = Ended(s) /\ Unreadable(s.disk, path)
  \/ Replied(s, t, {"403", "404", "405", "listing"})
  \/ t = s /\ r.method # "GET"
  \/ \E p \in Strings : p # <<>> /\ t = Scripted(s, p)
  \/ r.method = "GET" /\ t = HandleGET(s, r, loc)

\* checkCGIValid: a method that is not allowed is told so, what is not there is not found.
LEMMA ScriptFacts ==
  ASSUME NEW s \in States, NEW r \in Request, NEW loc \in Location, Located(r),
         NEW path, path = JoinPath(loc, Path(r)), NEW t, t = CheckCGIValid(s, r, loc)
  PROVE  /\ ScriptLookedFor(s, r, loc, path, t)
         /\ r.method \notin loc.methods => t = To(s, Page("405"))
         /\ ~IsDir(s.disk, path) /\ ~IsFile(s.disk, path) => Replied(s, t, {"404", "405"})
         /\ r.method \in loc.methods /\ ~IsDir(s.disk, path) /\ IsFile(s.disk, path) =>
              t = Chosen(s, r, loc, path)
<1> DEFINE i == FirstIndex(s, loc, path)
           file == IndexPath(path, i, loc)
<1>1. path \in Strings
  BY PathTyped, JoinPathTyped
<1>2. \A code \in {"403", "404", "405", "listing"} :
        Page(code) \in Replies /\ Page(code).code = code
  BY ReplyTypes DEF Codes
<1>3. \A code : ErrorResponse(s, r, code) = To(s, Page(code))
  BY ErrorFacts
<1>4. ASSUME NEW p \in Strings
      PROVE  ScriptLookedFor(s, r, loc, path, Chosen(s, r, loc, p))
  <2>1. CASE p # <<>> /\ Last(p) \in loc.cgi
    <3>1. Chosen(s, r, loc, p) = Scripted(s, p)
      BY <2>1 DEF Chosen, Scripted
    <3> QED
      BY <2>1, <3>1 DEF ScriptLookedFor
  <2>2. CASE ~(p # <<>> /\ Last(p) \in loc.cgi) /\ r.method = "GET"
    <3>1. Chosen(s, r, loc, p) = HandleGET(s, r, loc)
      BY <2>2 DEF Chosen
    <3> QED
      BY <2>2, <3>1 DEF ScriptLookedFor
  <2>3. CASE ~(p # <<>> /\ Last(p) \in loc.cgi) /\ r.method # "GET"
    <3>1. Chosen(s, r, loc, p) = s
      BY <2>3 DEF Chosen
    <3> QED
      BY <2>3, <3>1 DEF ScriptLookedFor
  <2> QED
    BY <2>1, <2>2, <2>3
<1>5. CASE ~AllowedMethod(loc, r.method)
  <2>1. t = To(s, Page("405"))
    BY <1>3, <1>5 DEF CheckCGIValid
  <2> QED
    BY <1>2, <1>5, <2>1 DEF Replied, AllowedMethod, ScriptLookedFor
<1>6. CASE AllowedMethod(loc, r.method) /\ IsDir(s.disk, path) /\ i # 0
  <2>1. t = Chosen(s, r, loc, file)
    BY <1>6 DEF CheckCGIValid
  <2>2. file \in Strings
    BY <1>1, <1>6, IndexFound
  <2> HIDE DEF file
  <2>3. ScriptLookedFor(s, r, loc, path, t)
    BY <1>4, <2>1, <2>2
  <2> QED
    BY <1>6, <2>3 DEF AllowedMethod
<1>7. CASE AllowedMethod(loc, r.method) /\ IsDir(s.disk, path) /\ i = 0 /\ loc.autoindex
  <2>1. t = ListingDirectory(s, path)
    BY <1>7 DEF CheckCGIValid
  <2>2. t = IF Unreadable(s.disk, path) THEN Ended(s) ELSE To(s, Sent("listing", path))
    BY <2>1, ListingFacts
  <2>3. Sent("listing", path) \in Replies /\ Sent("listing", path).code = "listing"
    BY <1>1, ReplyTypes DEF Codes
  <2>4. ScriptLookedFor(s, r, loc, path, t)
    BY <2>2, <2>3 DEF ScriptLookedFor, Replied
  <2> QED
    BY <1>7, <2>4 DEF AllowedMethod
<1>8. CASE AllowedMethod(loc, r.method) /\ IsDir(s.disk, path) /\ i = 0 /\ ~loc.autoindex
  <2>1. t = To(s, Page("403"))
    BY <1>3, <1>8 DEF CheckCGIValid
  <2>2. ScriptLookedFor(s, r, loc, path, t)
    BY <1>2, <2>1 DEF ScriptLookedFor, Replied
  <2> QED
    BY <1>8, <2>2 DEF AllowedMethod
<1>9. CASE AllowedMethod(loc, r.method) /\ ~IsDir(s.disk, path) /\ IsFile(s.disk, path)
  <2>1. t = Chosen(s, r, loc, path)
    BY <1>9 DEF CheckCGIValid
  <2>2. ScriptLookedFor(s, r, loc, path, t)
    BY <1>1, <1>4, <2>1
  <2> QED
    BY <1>9, <2>1, <2>2 DEF AllowedMethod
<1>10. CASE AllowedMethod(loc, r.method) /\ ~IsDir(s.disk, path) /\ ~IsFile(s.disk, path)
  <2>1. t = To(s, Page("404"))
    BY <1>3, <1>10 DEF CheckCGIValid
  <2>2. Replied(s, t, {"404", "405"}) /\ Replied(s, t, {"403", "404", "405", "listing"})
    BY <1>2, <2>1 DEF Replied
  <2> QED
    BY <1>10, <2>2 DEF AllowedMethod, ScriptLookedFor
<1> QED
  BY <1>5, <1>6, <1>7, <1>8, <1>9, <1>10

\* What GET leaves of a state.
LEMMA GetLeaves ==
  ASSUME NEW s \in States, NEW r \in Request, NEW loc \in Location, Located(r),
         NEW t, t = HandleGET(s, r, loc)
  PROVE  /\ t \in States /\ t.disk = s.disk /\ t.script = s.script
         /\ t.up => s.up
         /\ s.up /\ ~t.up => Unreadable(s.disk, JoinPath(loc, Path(r)))
         /\ t.up => t.answer.code \in GetCodes
         /\ t.answer = s.answer \/ t.answer.code \in GetCodes
<1> DEFINE path == JoinPath(loc, Path(r))
<1> HIDE DEF path
<1>1. (t = Ended(s) /\ Unreadable(s.disk, path)) \/ Replied(s, t, GetCodes)
  BY GetFacts DEF path
<1>2. CASE t = Ended(s) /\ Unreadable(s.disk, path)
  BY <1>2, EndedFacts DEF path
<1>3. CASE Replied(s, t, GetCodes)
  <2>1. PICK a \in Replies : a.code \in GetCodes /\ t = To(s, a)
    BY <1>3 DEF Replied
  <2> QED
    BY <2>1, ToFacts
<1> QED
  BY <1>1, <1>2, <1>3

\* What looking for a script leaves of it.
LEMMA ScriptLeaves ==
  ASSUME NEW s \in States, NEW r \in Request, NEW loc \in Location, Located(r),
         NEW t, t = CheckCGIValid(s, r, loc)
  PROVE  /\ t \in States /\ t.disk = s.disk
         /\ t.up => s.up
         /\ s.up /\ ~t.up => Unreadable(s.disk, JoinPath(loc, Path(r)))
         /\ t.answer = s.answer \/ t.answer.code \in GetCodes
         /\ t.answer = s.answer \/ t.script = s.script
         /\ r.method # "GET" =>
              t.answer = s.answer \/ t.answer.code \in {"403", "404", "405", "listing"}
<1> DEFINE path == JoinPath(loc, Path(r))
<1> HIDE DEF path
<1>1. ScriptLookedFor(s, r, loc, path, t)
  BY ScriptFacts DEF path
<1>2. CASE t = Ended(s) /\ Unreadable(s.disk, path)
  BY <1>2, EndedFacts DEF path
<1>3. CASE Replied(s, t, {"403", "404", "405", "listing"})
  <2>1. PICK a \in Replies : a.code \in {"403", "404", "405", "listing"} /\ t = To(s, a)
    BY <1>3 DEF Replied
  <2> QED
    BY <2>1, ToFacts DEF GetCodes
<1>4. CASE t = s /\ r.method # "GET"
  BY <1>4
<1>5. CASE \E p \in Strings : p # <<>> /\ t = Scripted(s, p)
  BY <1>5, ScriptedFacts
<1>6. CASE r.method = "GET" /\ t = HandleGET(s, r, loc)
  BY <1>6, GetLeaves
<1> QED
  BY <1>1, <1>2, <1>3, <1>4, <1>5, <1>6 DEF ScriptLookedFor

\* The location of r.
LocOf(r) == server[FindMathLocation(Path(r))]

\* c is what looking for a script leaves of s, where r asks for one.
Checked(s, r, c) == c = IF LocOf(r).path = Cgi THEN CheckCGIValid(s, r, LocOf(r)) ELSE s

\* handleCompleteRequest: nothing without a location; else the method's handler,
\* after the search for a script.
LEMMA CompleteFacts ==
  ASSUME NEW s, s.up, NEW r, NEW t, t = HandleCompleteRequest(s, r)
  PROVE  /\ ~Located(r) => t = s
         /\ Located(r) =>
              \E c : /\ Checked(s, r, c)
                     /\ c.up /\ r.method = "GET" => t = HandleGET(c, r, LocOf(r))
                     /\ c.up /\ r.method = "DELETE" => t = HandleDELETE(c, r, LocOf(r))
                     /\ ~c.up \/ r.method \notin {"GET", "DELETE"} => t = c
<1>1. CASE ~Located(r)
  BY <1>1 DEF HandleCompleteRequest, Located
<1>2. CASE Located(r)
  <2> DEFINE loc == server[FindMathLocation(Path(r))]
             c == IF loc.path = Cgi THEN CheckCGIValid(s, r, loc) ELSE s
  <2>1. Checked(s, r, c)
    BY DEF Checked, LocOf
  <2>2. t = CASE c.up /\ r.method = "GET" -> HandleGET(c, r, loc)
              [] c.up /\ r.method = "DELETE" -> HandleDELETE(c, r, loc)
              [] OTHER -> c
    BY <1>2 DEF HandleCompleteRequest, Located
  <2>3. loc = LocOf(r)
    BY DEF LocOf
  <2> HIDE DEF c, loc
  <2>4. /\ c.up /\ r.method = "GET" => t = HandleGET(c, r, loc)
        /\ c.up /\ r.method = "DELETE" => t = HandleDELETE(c, r, loc)
        /\ ~c.up \/ r.method \notin {"GET", "DELETE"} => t = c
    BY <2>2
  <2> QED
    BY <1>2, <2>1, <2>3, <2>4
<1> QED
  BY <1>1, <1>2

\* A located request has a location.
LEMMA LocatedTyped ==
  ASSUME server \in Seq(Location), NEW r \in Request, Located(r)
  PROVE  LocOf(r) \in Location /\ JoinPath(LocOf(r), Path(r)) \in Strings
<1>1. Path(r) \in Strings
  BY PathTyped
<1>2. LocOf(r) \in Location
  BY <1>1, LocationFacts DEF LocOf, Located
<1> QED
  BY <1>1, <1>2, JoinPathTyped

\* What the search for a script leaves of s.
LEMMA CheckedFacts ==
  ASSUME server \in Seq(Location), NEW s \in States, s.up, NEW r \in Request, Located(r),
         NEW c, Checked(s, r, c)
  PROVE  /\ c \in States /\ c.disk = s.disk
         /\ ~c.up => Unreadable(s.disk, JoinPath(LocOf(r), Path(r)))
         /\ c.answer = s.answer \/ c.answer.code \in GetCodes
         /\ c.answer = s.answer \/ c.script = s.script
         /\ r.method # "GET" =>
              c.answer = s.answer \/ c.answer.code \in {"403", "404", "405", "listing"}
         /\ r.method \notin LocOf(r).methods => c = s \/ c = To(s, Page("405"))
         /\ LocOf(r).path # Cgi => c = s
<1>1. LocOf(r) \in Location
  BY LocatedTyped
<1>2. CASE LocOf(r).path = Cgi
  <2>1. c = CheckCGIValid(s, r, LocOf(r))
    BY <1>2 DEF Checked
  <2> DEFINE loc == LocOf(r)
  <2>2. loc \in Location /\ c = CheckCGIValid(s, r, loc)
    BY <1>1, <2>1
  <2> HIDE DEF loc
  <2>3. /\ c \in States /\ c.disk = s.disk
        /\ s.up /\ ~c.up => Unreadable(s.disk, JoinPath(loc, Path(r)))
        /\ c.answer = s.answer \/ c.answer.code \in GetCodes
        /\ c.answer = s.answer \/ c.script = s.script
        /\ r.method # "GET" =>
             c.answer = s.answer \/ c.answer.code \in {"403", "404", "405", "listing"}
    BY <2>2, ScriptLeaves
  <2>4. r.method \notin loc.methods => c = To(s, Page("405"))
    BY <2>2, ScriptFacts
  <2> QED
    BY <1>2, <2>3, <2>4 DEF loc
<1>3. CASE LocOf(r).path # Cgi
  <2>1. c = s
    BY <1>3 DEF Checked
  <2> QED
    BY <2>1
<1> QED
  BY <1>2, <1>3

\* What a DELETE that removed something did.
DidDelete(s, r, t) ==
  LET loc == LocOf(r)
      path == JoinPath(loc, Path(r)) IN
  /\ r.method = "DELETE" /\ "DELETE" \in loc.methods /\ loc.root # <<>>
  /\ Segments(path) \in s.disk.dirs \cup s.disk.files
  /\ t.disk = Without(s.disk, Segments(path)) /\ t.answer = Sent("204", path)

\* A located GET or DELETE: typed; ended only at an unreadable directory; answered;
\* and with a 204 or another disk only when it deleted.
LEMMA ReadsFacts ==
  ASSUME server \in Seq(Location), NEW s \in States, s.up, s.answer.code # "204",
         NEW r \in Request, Located(r), r.method \in {"GET", "DELETE"},
         NEW t, t = HandleCompleteRequest(s, r)
  PROVE  /\ t \in States
         /\ ~t.up => t.disk = s.disk /\ Unreadable(s.disk, JoinPath(LocOf(r), Path(r)))
         /\ t.up => t.answer.code \in Codes
         /\ (t.disk = s.disk /\ t.answer.code # "204") \/ DidDelete(s, r, t)
<1> DEFINE loc == LocOf(r)
           path == JoinPath(loc, Path(r))
<1>1. PICK c : /\ Checked(s, r, c)
               /\ c.up /\ r.method = "GET" => t = HandleGET(c, r, LocOf(r))
               /\ c.up /\ r.method = "DELETE" => t = HandleDELETE(c, r, LocOf(r))
               /\ ~c.up \/ r.method \notin {"GET", "DELETE"} => t = c
  BY CompleteFacts
<1>2. loc \in Location /\ path \in Strings
  BY LocatedTyped
<1>3. /\ c \in States /\ c.disk = s.disk
      /\ ~c.up => Unreadable(s.disk, path)
      /\ c.answer = s.answer \/ c.answer.code \in GetCodes
  BY <1>1, CheckedFacts
<1>4. GetCodes \subseteq Codes \ {"204"}
  BY DEF GetCodes, Codes
<1>5. CASE ~c.up
  <2>1. t = c
    BY <1>1, <1>5
  <2> QED
    BY <1>3, <1>4, <1>5, <2>1
<1>6. CASE c.up /\ r.method = "GET"
  <2>1. t = HandleGET(c, r, loc)
    BY <1>1, <1>6
  <2> HIDE DEF loc, path
  <2>2. /\ t \in States /\ t.disk = c.disk
        /\ c.up /\ ~t.up => Unreadable(c.disk, JoinPath(loc, Path(r)))
        /\ t.up => t.answer.code \in GetCodes
        /\ t.answer = c.answer \/ t.answer.code \in GetCodes
    BY <1>2, <1>3, <2>1, GetLeaves
  <2>3. t.answer.code # "204"
    BY <1>3, <1>4, <2>2
  <2> QED
    BY <1>3, <1>4, <1>6, <2>2, <2>3 DEF loc, path
<1>7. CASE c.up /\ r.method = "DELETE"
  <2>1. t = HandleDELETE(c, r, loc)
    BY <1>1, <1>7
  <2> HIDE DEF loc
  <2> DEFINE Few == {"403", "404", "405", "409", "500"}
  <2>2. \/ Replied(c, t, Few)
        \/ /\ t = Deleted(c, path)
           /\ "DELETE" \in loc.methods /\ loc.root # <<>>
           /\ Segments(path) \in c.disk.dirs \cup c.disk.files
    BY <1>2, <1>3, <2>1, DeleteFacts
  <2>3. CASE Replied(c, t, Few)
    <3>1. PICK a \in Replies : a.code \in Few /\ t = To(c, a)
      BY <2>3 DEF Replied
    <3>2. t \in States /\ t.answer = a /\ t.disk = c.disk /\ (t.up <=> c.up)
      BY <1>3, <3>1, ToFacts
    <3>3. a.code \in Codes \ {"204"}
      BY <3>1 DEF Codes
    <3> QED
      BY <1>3, <1>7, <3>2, <3>3
  <2>4. CASE /\ t = Deleted(c, path)
             /\ "DELETE" \in loc.methods /\ loc.root # <<>>
             /\ Segments(path) \in c.disk.dirs \cup c.disk.files
    <3>1. /\ t \in States /\ t.answer = Sent("204", path)
          /\ t.disk = Without(c.disk, Segments(path)) /\ (t.up <=> c.up)
      <4> HIDE DEF path
      <4> QED
        BY <1>2, <1>3, <2>4, DeletedFacts
    <3>2. Sent("204", path).code = "204" /\ "204" \in Codes
      BY <1>2, ReplyTypes DEF Codes
    <3>3. DidDelete(s, r, t)
      BY <1>3, <1>7, <2>4, <3>1 DEF DidDelete, loc
    <3> QED
      BY <1>7, <3>1, <3>2, <3>3
  <2> QED
    BY <2>2, <2>3, <2>4
<1> QED
  BY <1>5, <1>6, <1>7

\* A GET or DELETE its location does not list is told so, and does nothing else.
LEMMA RefusedFacts ==
  ASSUME server \in Seq(Location), NEW s \in States, s.up,
         NEW r \in Request, Located(r), r.method \in {"GET", "DELETE"},
         r.method \notin LocOf(r).methods,
         NEW t, t = HandleCompleteRequest(s, r)
  PROVE  t.up /\ t.answer = Page("405") /\ t.disk = s.disk /\ t.script = s.script
<1> DEFINE loc == LocOf(r)
           a == Page("405")
<1>1. PICK c : /\ Checked(s, r, c)
               /\ c.up /\ r.method = "GET" => t = HandleGET(c, r, LocOf(r))
               /\ c.up /\ r.method = "DELETE" => t = HandleDELETE(c, r, LocOf(r))
               /\ ~c.up \/ r.method \notin {"GET", "DELETE"} => t = c
  BY CompleteFacts
<1>2. loc \in Location /\ a \in Replies
  BY LocatedTyped, ReplyTypes DEF Codes
<1>3. c \in States /\ (c = s \/ c = To(s, a))
  BY <1>1, CheckedFacts
<1> HIDE DEF a
<1>4. c.up /\ c.disk = s.disk /\ c.script = s.script
  BY <1>2, <1>3, ToFacts
<1>5. t = To(c, a)
  <2>1. CASE r.method = "GET"
    <3>1. t = HandleGET(c, r, loc) /\ "GET" \notin loc.methods
      BY <1>1, <1>4, <2>1
    <3> HIDE DEF loc
    <3> QED
      BY <1>2, <1>3, <3>1, GetFacts DEF a
  <2>2. CASE r.method = "DELETE"
    <3>1. t = HandleDELETE(c, r, loc) /\ "DELETE" \notin loc.methods
      BY <1>1, <1>4, <2>2
    <3> HIDE DEF loc
    <3> QED
      BY <1>2, <1>3, <3>1, DeleteFacts DEF a
  <2> QED
    BY <2>1, <2>2
<1> QED
  BY <1>2, <1>3, <1>4, <1>5, ToFacts DEF a

----------------------------------------------------------------------------
(* Uploads.                                                                *)

\* Where an upload of r goes, and that it went there.
StoreOf(r) == server[FindBestMatch(Path(r))]
PlaceOf(r) == ConstructFilePath(StoreOf(r), Path(r)) \o <<"/">> \o FileName(r)
DidStore(s, r, d) ==
  /\ r.method = "POST" /\ FindBestMatch(Path(r)) # None /\ StoreOf(r).upload_store # <<>>
  /\ PlaceOf(r) \in Strings /\ Creatable(s.disk, PlaceOf(r)) /\ d = With(s.disk, PlaceOf(r))

\* Whoever names the file of an upload, the name is a string.
LEMMA NameTyped ==
  ASSUME NEW r \in Request
  PROVE  FileName(r) \in Strings
<1> DEFINE q == r.queries
<1>1. r.part \in Strings /\ r.stamp \in Strings /\ q \in Seq(Strings)
  BY DEF Request
<1> HIDE DEF q
<1>2. q # <<>> => Last(q) \in Strings
  BY <1>1, FrontLast
<1> QED
  BY <1>1, <1>2 DEF FileName, q

\* The store and the place of an upload are strings.
LEMMA PlaceTyped ==
  ASSUME server \in Seq(Location), NEW r \in Request, FindBestMatch(Path(r)) # None
  PROVE  /\ StoreOf(r) \in Location /\ ConstructFilePath(StoreOf(r), Path(r)) \in Strings
         /\ PlaceOf(r) \in Strings
<1> DEFINE A == {i \in DOMAIN server : AtSegment(i, Path(r))}
           l == FindBestMatch(Path(r))
<1>1. A \in SUBSET (DOMAIN server) /\ l = Longest(A)
  BY DEF FindBestMatch
<1> HIDE DEF A, l
<1>2. l \in A
  <2>1. l # None
    BY DEF l
  <2> QED
    BY <1>1, <2>1, LongestFacts
<1>3. server[l] \in Location
  BY <1>1, <1>2, LenProperties, ElementOfSeq
<1>4. StoreOf(r) \in Location
  BY <1>3 DEF StoreOf, l
<1> DEFINE loc == StoreOf(r)
           path == Path(r)
<1>5. loc.upload_store \in Seq(Chars) /\ Len(loc.path) \in Nat /\ path \in Seq(Chars)
  BY <1>4, LenProperties, PathTyped DEF Location, Strings
<1> DEFINE n == Len(loc.path)
           st == loc.upload_store
<1>6. ConstructFilePath(loc, path) = st \o Drop(n, path)
  BY DEF ConstructFilePath
<1> DEFINE place == ConstructFilePath(loc, path)
           slash == <<"/">>
           name == FileName(r)
<1>7. slash \in Seq(Chars) /\ name \in Seq(Chars)
  BY TextTypes, NameTyped DEF Strings
<1>8. PlaceOf(r) = place \o slash \o name
  BY DEF PlaceOf
<1> HIDE DEF loc, path, n, st, place, slash, name
<1>9. Drop(n, path) \in Seq(Chars)
  BY <1>5, DropFacts DEF n
<1>10. place \in Seq(Chars)
  <2>1. st \in Seq(Chars)
    BY <1>5 DEF st
  <2> DEFINE rest == Drop(n, path)
  <2>2. place = st \o rest /\ rest \in Seq(Chars)
    BY <1>6, <1>9 DEF place
  <2> HIDE DEF rest
  <2> QED
    BY <2>1, <2>2, ConcatProperties
<1>11. (place \o slash) \o name \in Seq(Chars)
  BY <1>7, <1>10, ConcatProperties
<1>12. PlaceOf(r) \in Strings
  BY <1>8, <1>11 DEF Strings
<1> QED
  BY <1>4, <1>10, <1>12 DEF Strings, place, loc, path

\* A file more.
LEMMA WithFacts ==
  ASSUME NEW s \in States, NEW path \in Strings, Creatable(s.disk, path)
  PROVE  With(s.disk, path) \in Trees
<1>1. Segments(path) \in Nodes
  BY SegmentsNode
<1>2. s.disk \in Disk /\ s.disk.dirs \cap s.disk.files = {}
  BY DEF States, Trees
<1>3. Segments(path) \notin s.disk.dirs
  BY <1>2 DEF Creatable, IsFile
<1> DEFINE n == Segments(path)
           d == s.disk
<1> HIDE DEF n, d
<1>4. [d EXCEPT !.files = @ \cup {n}] \in Trees
  BY <1>1, <1>2, <1>3 DEF Trees, Disk, n, d
<1> QED
  BY <1>4 DEF With, n, d

\* What an upload leaves before its request is complete: answered, never by a 204, and
\* with another disk or a node in the answer only when it stored.
LEMMA UploadLeaves ==
  ASSUME server \in Seq(Location), NEW s \in States, s.up, NEW r \in Request, r.method = "POST",
         NEW t \in Uploaded(s, r)
  PROVE  /\ t \in States /\ t.script = s.script
         /\ t.up => t.answer.code \in Codes \ {"204"}
         /\ \/ t.disk = s.disk /\ (t.up => t.answer.node = <<>>)
            \/ DidStore(s, r, t.disk) /\ t.answer = Sent("200", PlaceOf(r))
<1> DEFINE Plain == t \in States /\ t.script = s.script /\ t.disk = s.disk
                    /\ (t.up => t.answer.code \in Codes \ {"204"} /\ t.answer.node = <<>>)
<1>1. ASSUME NEW code \in Codes \ {"204"}, t = To(s, Page(code))
      PROVE  Plain
  <2>1. Page(code) \in Replies /\ Page(code).code = code /\ Page(code).node = <<>>
    BY ReplyTypes DEF Page
  <2> DEFINE a == Page(code)
  <2>2. a \in Replies /\ t = To(s, a) /\ a.code \in Codes \ {"204"} /\ a.node = <<>>
    BY <1>1, <2>1
  <2> HIDE DEF a
  <2>3. t \in States /\ t.answer = a /\ t.disk = s.disk /\ t.script = s.script
    BY <2>2, ToFacts
  <2> QED
    BY <2>2, <2>3
<1>2. t = Ended(s) => Plain
  BY EndedFacts
<1>3. ASSUME NEW code \in Codes \ {"204"}, t = ErrorResponse(s, r, code)
      PROVE  Plain
  <2>1. t = To(s, Page(code)) \/ t = Ended(s)
    BY <1>3, ErrorFacts
  <2> QED
    BY <1>1, <1>2, <2>1
<1>4. {"200", "400", "411", "500"} \subseteq Codes \ {"204"}
  BY DEF Codes
<1>5. [s EXCEPT !.answer = Page("200")] = To(s, Page("200")) /\ [s EXCEPT !.up = FALSE] = Ended(s)
  BY DEF To, Ended
<1>6. CASE t \notin Stored(s, r)
  <2>1. t \in {ErrorResponse(s, r, "411"), ErrorResponse(s, r, "400"), To(s, Page("200"))}
    BY <1>5, <1>6 DEF Uploaded
  <2>2. Plain
    <3> HIDE DEF Plain
    <3> QED
      BY <1>1, <1>3, <1>4, <2>1
  <2> QED
    BY <2>2
<1>7. CASE t \in Stored(s, r)
  <2> DEFINE l == FindBestMatch(Path(r))
             path == PlaceOf(r)
             new == [s EXCEPT !.disk = With(@, path), !.answer = Sent("200", path)]
  <2>1. \/ t \in {ErrorResponse(s, r, "500"), To(s, Page("200")), Ended(s)}
        \/ /\ l # None /\ server[l].upload_store # <<>> /\ Creatable(s.disk, path)
           /\ t = new
    <3> HIDE DEF Plain
    <3>1. t \in Stored(s, r)
      BY <1>7
    <3> QED
      BY <1>5, <3>1 DEF Stored, PlaceOf, StoreOf
  <2>2. CASE t \in {ErrorResponse(s, r, "500"), To(s, Page("200")), Ended(s)}
    <3>1. Plain
      <4> HIDE DEF Plain
      <4> QED
        BY <1>1, <1>2, <1>3, <1>4, <2>2
    <3> QED
      BY <3>1
  <2>3. CASE /\ l # None /\ server[l].upload_store # <<>> /\ Creatable(s.disk, path)
             /\ t = new
    <3>1. path \in Strings
      BY <2>3, PlaceTyped
    <3>2. Sent("200", path) \in Replies /\ Sent("200", path).code = "200"
      BY <1>4, <3>1, ReplyTypes
    <3> HIDE DEF path
    <3>3. With(s.disk, path) \in Trees
      BY <2>3, <3>1, WithFacts
    <3> DEFINE d == With(s.disk, path)
               a == Sent("200", path)
    <3>4. t = [s EXCEPT !.disk = d, !.answer = a]
      BY <2>3
    <3>5. d \in Trees /\ a \in Replies /\ a.code = "200"
      BY <3>2, <3>3
    <3> HIDE DEF d, a
    <3>6. t.script = s.script /\ t.disk = d /\ t.answer = a
      BY <3>4 DEF States
    <3>7. t \in States
      BY <3>4, <3>5 DEF States
    <3>8. DidStore(s, r, t.disk)
      BY <2>3, <3>1, <3>6 DEF DidStore, StoreOf, path, d
    <3>9. t.answer.code \in Codes \ {"204"}
      BY <1>4, <3>5, <3>6
    <3> QED
      BY <3>6, <3>7, <3>8, <3>9 DEF a, path
  <2> QED
    BY <2>1, <2>2, <2>3
<1> QED
  BY <1>6, <1>7

\* What completing an upload's request leaves of it: the disk, and the answer unless it
\* is one of the four of the search for a script.
LEMMA PostCompletes ==
  ASSUME server \in Seq(Location), NEW s \in States, NEW r \in Request, r.method = "POST",
         NEW t, t = HandleCompleteRequest(s, r)
  PROVE  /\ t \in States /\ t.disk = s.disk /\ (t.up => s.up)
         /\ t.answer = s.answer \/ t.answer.code \in {"403", "404", "405", "listing"}
<1>1. CASE ~s.up
  <2>1. t = s
    BY <1>1 DEF HandleCompleteRequest
  <2> QED
    BY <2>1
<1>2. CASE s.up
  <2>1. CASE ~Located(r)
    <3>1. t = s
      BY <1>2, <2>1, CompleteFacts
    <3> QED
      BY <3>1
  <2>2. CASE Located(r)
    <3>1. PICK c : /\ Checked(s, r, c)
                   /\ c.up /\ r.method = "GET" => t = HandleGET(c, r, LocOf(r))
                   /\ c.up /\ r.method = "DELETE" => t = HandleDELETE(c, r, LocOf(r))
                   /\ ~c.up \/ r.method \notin {"GET", "DELETE"} => t = c
      BY <1>2, <2>2, CompleteFacts
    <3>2. t = c
      BY <3>1
    <3>3. /\ c \in States /\ c.disk = s.disk
          /\ r.method # "GET" =>
               c.answer = s.answer \/ c.answer.code \in {"403", "404", "405", "listing"}
      BY <1>2, <2>2, <3>1, CheckedFacts
    <3> QED
      BY <1>2, <3>2, <3>3
  <2> QED
    BY <2>1, <2>2
<1> QED
  BY <1>1, <1>2

\* The state every request begins in.
LEMMA FreshFacts ==
  ASSUME disk \in Trees
  PROVE  /\ Fresh \in States /\ Fresh.up /\ Fresh.disk = disk /\ Fresh.script = <<>>
         /\ Fresh.answer = Page("unset") /\ Fresh.answer.code = "unset"
<1>1. Page("unset") \in Replies /\ Page("unset").code = "unset"
  BY TextTypes DEF Page, Replies
<1> DEFINE a == Page("unset")
<1> HIDE DEF a
<1>2. Fresh = [up |-> TRUE, disk |-> disk, answer |-> a, script |-> <<>>]
  BY DEF Fresh, a
<1>3. a \in Replies /\ <<>> \in Strings
  BY <1>1, TextTypes DEF a
<1>4. Fresh \in States
  BY <1>2, <1>3 DEF States
<1>5. Fresh.up /\ Fresh.disk = disk /\ Fresh.script = <<>> /\ Fresh.answer = a
  BY <1>2
<1> QED
  BY <1>1, <1>4, <1>5 DEF a

\* What serving r leaves of the disk it finds: nothing changed, one node deleted, or
\* one file stored.
Served(r, s) ==
  /\ s \in States
  /\ s.up => s.answer.code \in Codes \/ (~Located(r) /\ s.answer.code = "unset")
  /\ ~s.up => \/ r.method = "POST" \/ ~Located(r)
              \/ Unreadable(disk, JoinPath(LocOf(r), Path(r)))
  /\ \/ s.disk = disk /\ (s.up => s.answer.code # "204")
     \/ Located(r) /\ DidDelete(Fresh, r, s)
     \/ DidStore(Fresh, r, s.disk) /\ (s.up => s.answer.code # "204")

\* An error is served: by its page, or by the end of the process.
LEMMA ErrorServed ==
  ASSUME disk \in Trees, NEW r \in Request, NEW code \in Codes \ {"204"},
         NEW s, s = ErrorResponse(Fresh, r, code)
  PROVE  Served(r, s) /\ (s.up => s.answer = Page(code) /\ s.script = <<>>) /\ s.disk = disk
<1> DEFINE a == Page(code)
<1>1. a \in Replies /\ a.code = code
  BY ReplyTypes
<1>2. Fresh \in States /\ Fresh.disk = disk /\ Fresh.up /\ Fresh.script = <<>>
  BY FreshFacts
<1>3. s = IF Located(r) THEN To(Fresh, a) ELSE Ended(Fresh)
  BY ErrorFacts
<1> HIDE DEF a
<1>4. CASE Located(r)
  <2>1. s = To(Fresh, a)
    BY <1>3, <1>4
  <2>2. s \in States /\ s.answer = a /\ s.disk = disk /\ s.up /\ s.script = <<>>
    BY <1>1, <1>2, <2>1, ToFacts
  <2> QED
    BY <1>1, <2>2 DEF Served, a
<1>5. CASE ~Located(r)
  <2>1. s = Ended(Fresh)
    BY <1>3, <1>5
  <2>2. s \in States /\ ~s.up /\ s.disk = disk
    BY <1>2, <2>1, EndedFacts
  <2> QED
    BY <1>5, <2>2 DEF Served
<1> QED
  BY <1>4, <1>5

\* Every request is served.
LEMMA ReceivedFacts ==
  ASSUME server \in Seq(Location), disk \in Trees, NEW r \in Request,
         NEW s \in Received(Fresh, r)
  PROVE  Served(r, s)
<1>1. /\ Fresh \in States /\ Fresh.up /\ Fresh.disk = disk
      /\ Fresh.answer.code = "unset"
  BY FreshFacts
<1>2. CASE RequestError(r)
  <2>1. s = ErrorResponse(Fresh, r, StatusCode(r))
    BY <1>2 DEF Received
  <2>2. StatusCode(r) \in Codes \ {"204"}
    BY DEF StatusCode, Codes
  <2> QED
    BY <2>1, <2>2, ErrorServed
<1>3. CASE ~RequestError(r) /\ r.method # "POST"
  <2>1. s = HandleCompleteRequest(Fresh, r)
    BY <1>3 DEF Received
  <2>2. r.method \in {"GET", "DELETE"}
    BY <1>3 DEF RequestError, Parsed, Request
  <2>3. CASE ~Located(r)
    <3>1. s = Fresh
      BY <1>1, <2>1, <2>3, CompleteFacts
    <3> QED
      BY <1>1, <2>3, <3>1 DEF Served
  <2>4. CASE Located(r)
    <3> DEFINE f == Fresh
    <3>1. /\ f \in States /\ f.up /\ f.answer.code # "204" /\ f.disk = disk
          /\ s = HandleCompleteRequest(f, r)
      BY <1>1, <2>1
    <3> HIDE DEF f
    <3>2. /\ s \in States
          /\ ~s.up => s.disk = f.disk /\ Unreadable(f.disk, JoinPath(LocOf(r), Path(r)))
          /\ s.up => s.answer.code \in Codes
          /\ (s.disk = f.disk /\ s.answer.code # "204") \/ DidDelete(f, r, s)
      BY <2>2, <2>4, <3>1, ReadsFacts
    <3> QED
      BY <2>4, <3>1, <3>2 DEF Served, f
  <2> QED
    BY <2>3, <2>4
<1>4. CASE ~RequestError(r) /\ r.method = "POST"
  <2>1. PICK t \in Uploaded(Fresh, r) : s = HandleCompleteRequest(t, r)
    BY <1>4 DEF Received
  <2> DEFINE f == Fresh
  <2>2. f \in States /\ f.up /\ f.disk = disk /\ t \in Uploaded(f, r)
    BY <1>1, <2>1
  <2> HIDE DEF f
  <2>3. /\ t \in States
        /\ t.up => t.answer.code \in Codes \ {"204"}
        /\ t.disk = f.disk \/ DidStore(f, r, t.disk)
    BY <1>4, <2>2, UploadLeaves
  <2>4. /\ s \in States /\ s.disk = t.disk /\ (s.up => t.up)
        /\ s.answer = t.answer \/ s.answer.code \in {"403", "404", "405", "listing"}
    BY <1>4, <2>1, <2>3, PostCompletes
  <2>5. s.up => s.answer.code \in Codes \ {"204"}
    BY <2>3, <2>4 DEF Codes
  <2> QED
    BY <1>4, <2>2, <2>3, <2>4, <2>5 DEF Served, f
<1> QED
  BY <1>2, <1>3, <1>4

\* The answer that is sent for a state.
LEMMA AnsweredFacts ==
  ASSUME NEW s \in States
  PROVE  /\ Answered(s).node \in Nodes
         /\ (Answered(s) = s.answer /\ s.script = <<>>) \/ Answered(s).code = "script"
<1>1. CASE s.script # <<>>
  <2>1. Answered(s) = Sent("script", s.script) /\ s.script \in Strings
    BY <1>1 DEF Answered, States
  <2>2. Segments(s.script) \in Nodes
    BY <2>1, SegmentsNode
  <2> QED
    BY <2>1, <2>2 DEF Sent
<1>2. CASE s.script = <<>>
  <2>1. Answered(s) = s.answer
    BY <1>2 DEF Answered
  <2> QED
    BY <1>2, <2>1 DEF States, Replies
<1> QED
  BY <1>1, <1>2

----------------------------------------------------------------------------
(* The invariants.                                                         *)

\* What TypeOK says of the server and the disk.
LEMMA Typed ==
  ASSUME TypeOK
  PROVE  /\ server \in Seq(Location) /\ disk \in Trees /\ before \in Trees
         /\ request \in Request
<1>1. server \in Seq(Location)
  BY ServersAssumption DEF TypeOK
<1>2. disk \in Trees /\ before \in Trees
  BY DEF TypeOK, Trees
<1>3. request \in Request
  BY RequestsAssumption, TextTypes DEF TypeOK
<1> QED
  BY <1>1, <1>2, <1>3

\* The locations do not change from a state to the next.
LEMMA LocationsStay ==
  ASSUME server' = server
  PROVE  /\ \A url : FindMathLocation(url)' = FindMathLocation(url)
         /\ \A url : FindBestMatch(url)' = FindBestMatch(url)
         /\ \A url : WholeSegments(url)' <=> WholeSegments(url)
<1>1. \A url : FindMathLocation(url)' = FindMathLocation(url)
  BY DEF FindMathLocation, Matches, Longest
<1>2. \A i, url : AtSegment(i, url)' <=> AtSegment(i, url)
  BY DEF AtSegment
<1>3. \A url : FindBestMatch(url)' = FindBestMatch(url)
  BY DEF FindBestMatch, Longest, AtSegment
<1>4. \A url : WholeSegments(url)' <=> WholeSegments(url)
  BY <1>1 DEF WholeSegments, AtSegment
<1> QED
  BY <1>1, <1>3, <1>4

\* One request served.
LEMMA ServeStep ==
  ASSUME TypeOK, NEW r \in Requests, Serve(r)
  PROVE  /\ r \in Request
         /\ \E s \in Received(Fresh, r) :
              /\ Served(r, s) /\ s \in States
              /\ (up' <=> s.up) /\ disk' = s.disk
              /\ answer' = IF s.up THEN Answered(s) ELSE Page("none")
         /\ up' \in BOOLEAN
         /\ request' = r /\ before' = disk /\ server' = server
         /\ Path(request') = Path(r) /\ Path(request)' = Path(r)
         /\ Here' = LocOf(r)
<1>1. r \in Request
  BY RequestsAssumption
<1>2. PICK s \in Received(Fresh, r) :
        /\ up' = s.up /\ disk' = s.disk
        /\ answer' = IF s.up THEN Answered(s) ELSE Page("none")
  BY DEF Serve
<1>3. Served(r, s)
  BY <1>1, Typed, ReceivedFacts
<1>4. request' = r /\ before' = disk /\ server' = server
  BY DEF Serve
<1>5. Path(request)' = Path(r)
  BY <1>4
<1>6. Here' = LocOf(r)
  BY <1>4, <1>5, LocationsStay DEF Here, LocOf
<1>7. (up' <=> s.up) /\ s \in States
  BY <1>2, <1>3 DEF Served
<1>8. up' \in BOOLEAN
  <2>1. s.up \in BOOLEAN
    BY <1>7 DEF States
  <2> QED
    BY <1>2, <2>1
<1> QED
  BY <1>1, <1>2, <1>3, <1>4, <1>5, <1>6, <1>7, <1>8

\* Every variable has its type, and a response goes out with a status unless the path
\* has no location.
THEOREM ServingTyped == Spec => []TypeOK
<1>1. Init => TypeOK
  <2> SUFFICES ASSUME Init PROVE TypeOK
    OBVIOUS
  <2>1. server \in Servers /\ up \in BOOLEAN /\ request \in Requests \cup {NoRequest}
    BY DEF Init
  <2>2. \A d \in {disk, before} : d \in Disk /\ d.dirs \cap d.files = {}
    BY DisksAssumption DEF Init
  <2>3. answer.node \in Nodes /\ answer.code \in Codes
    BY TextTypes DEF Init, Page, Codes
  <2> QED
    BY <2>1, <2>2, <2>3 DEF TypeOK
<1>2. TypeOK /\ [Next]_vars => TypeOK'
  <2> SUFFICES ASSUME TypeOK, [Next]_vars PROVE TypeOK'
    OBVIOUS
  <2>1. ASSUME NEW r \in Requests, Serve(r)
        PROVE  TypeOK'
    <3>1. PICK s \in Received(Fresh, r) :
            /\ Served(r, s) /\ s \in States
            /\ (up' <=> s.up) /\ disk' = s.disk
            /\ answer' = IF s.up THEN Answered(s) ELSE Page("none")
      BY <2>1, ServeStep
    <3>2. request' = r /\ before' = disk /\ server' = server /\ Path(request)' = Path(r)
      BY <2>1, ServeStep
    <3>3. server' \in Servers /\ request' \in Requests \cup {NoRequest}
      BY <2>1, <3>2 DEF TypeOK
    <3>4. up' \in BOOLEAN
      BY <2>1, ServeStep
    <3>5. disk' \in Trees /\ before' \in Trees
      BY <3>1, <3>2, Typed DEF States
    <3>6. CASE s.up
      <4>1. answer' = Answered(s)
        BY <3>1, <3>6
      <4>2. /\ Answered(s).node \in Nodes
            /\ Answered(s) = s.answer \/ Answered(s).code = "script"
        BY <3>1, AnsweredFacts
      <4>3. s.answer.code \in Codes \/ (~Located(r) /\ s.answer.code = "unset")
        BY <3>1, <3>6 DEF Served
      <4>4. ~Located(r) => (FindMathLocation(Path(request)) = None)'
        BY <3>2, LocationsStay DEF Located, None
      <4>5. "script" \in Codes
        BY DEF Codes
      <4>6. answer'.node \in Nodes /\ (answer'.code \in Codes \/ (answer'.code = "unset" /\ ~Located(r)))
        BY <4>1, <4>2, <4>3, <4>5
      <4> QED
        BY <3>3, <3>4, <3>5, <4>4, <4>6 DEF TypeOK, Trees
    <3>7. CASE ~s.up
      <4>1. answer' = Page("none")
        BY <3>1, <3>7
      <4>2. answer'.node \in Nodes /\ answer'.code \in Codes
        BY <4>1, TextTypes DEF Page, Codes
      <4> QED
        BY <3>3, <3>4, <3>5, <4>2 DEF TypeOK, Trees
    <3> QED
      BY <3>6, <3>7
  <2>2. CASE UNCHANGED vars
    BY <2>2, LocationsStay DEF vars, TypeOK
  <2> QED
    BY <2>1, <2>2 DEF Next
<1> QED
  BY <1>1, <1>2, PTL DEF Spec

\* The two searches for a location find the same one for every path a request can have
\* that goes on behind its location with a new segment.
THEOREM SearchesAgree == Spec => []LookupsAgree
<1>1. TypeOK => LookupsAgree
  <2> SUFFICES ASSUME TypeOK, WholeSegments(Path(request))
               PROVE  FindBestMatch(Path(request)) = FindMathLocation(Path(request))
    BY DEF LookupsAgree
  <2> DEFINE path == Path(request)
  <2>1. path \in Strings /\ (path = <<>> \/ Rooted(path)) /\ server \in Seq(Location)
    BY Typed, PathTyped
  <2>2. WholeSegments(path)
    OBVIOUS
  <2> HIDE DEF path
  <2>3. FindBestMatch(path) = FindMathLocation(path)
    BY <2>1, <2>2, SameLocation
  <2> QED
    BY <2>3 DEF path
<1> QED
  BY <1>1, ServingTyped, PTL

\* With a location /, whatever is asked of a tree that can be read, the process goes on.
THEOREM ServingSurvives == Spec => []Survives
<1>1. Init => Survives
  BY DEF Init, Survives
<1>2. TypeOK /\ Survives /\ [Next]_vars => Survives'
  <2> SUFFICES ASSUME TypeOK, Survives, [Next]_vars PROVE Survives'
    OBVIOUS
  <2>1. ASSUME NEW r \in Requests, Serve(r)
        PROVE  Survives'
    <3>1. PICK s \in Received(Fresh, r) : Served(r, s) /\ (up' <=> s.up)
      BY <2>1, ServeStep
    <3>2. /\ r \in Request /\ request' = r /\ before' = disk /\ server' = server
          /\ Path(request)' = Path(r) /\ Here' = LocOf(r)
      BY <2>1, ServeStep
    <3>3. CASE s.up \/ r.method = "POST"
      BY <3>1, <3>2, <3>3 DEF Survives
    <3>4. CASE ~Located(r)
      <4>1. \A i \in DOMAIN server : server[i].path # <<"/">>
        <5> SUFFICES ASSUME NEW i \in DOMAIN server, server[i].path = <<"/">>
                     PROVE  Located(r)
          BY <3>4
        <5> DEFINE path == Path(r)
        <5>1. path \in Strings /\ (path = <<>> \/ Rooted(path)) /\ server \in Seq(Location)
          BY <3>2, Typed, PathTyped
        <5> HIDE DEF path
        <5>2. FindMathLocation(path) # None
          BY <5>1, RootFound
        <5> QED
          BY <5>2 DEF Located, path
      <4> QED
        BY <3>2, <4>1 DEF Survives
    <3>5. CASE Located(r) /\ Unreadable(disk, JoinPath(LocOf(r), Path(r)))
      <4>1. Unreadable(before', JoinPath(Here', Path(request)'))
        BY <3>2, <3>5
      <4>2. FindMathLocation(Path(request))' # None
        <5>1. FindMathLocation(Path(request))' = FindMathLocation(Path(request)')
          BY <3>2, LocationsStay DEF FindMathLocation, Matches, Longest
        <5>2. FindMathLocation(Path(r))' = FindMathLocation(Path(r))
          BY <3>2, LocationsStay
        <5> QED
          BY <3>2, <3>5, <5>1, <5>2 DEF Located
      <4> QED
        BY <4>1, <4>2 DEF Survives, Unreadable
    <3>6. s.up \/ r.method = "POST" \/ ~Located(r) \/ Unreadable(disk, JoinPath(LocOf(r), Path(r)))
      BY <3>1 DEF Served
    <3> QED
      BY <3>3, <3>4, <3>5, <3>6
  <2>2. CASE UNCHANGED vars
    <3>1. Here' = Here
      BY <2>2, LocationsStay DEF Here, vars
    <3>2. FindMathLocation(Path(request))' = FindMathLocation(Path(request))
      BY <2>2, LocationsStay DEF vars
    <3> QED
      BY <2>2, <3>1, <3>2 DEF vars, Survives, Unreadable
  <2> QED
    BY <2>1, <2>2 DEF Next
<1> QED
  BY <1>1, <1>2, ServingTyped, PTL DEF Spec

\* A GET or DELETE that its location does not list is told so, and the disk stays as it
\* was.
THEOREM ServingMethods == Spec => []MethodsHeld
<1>1. Init => MethodsHeld
  BY DEF Init, MethodsHeld, Page
<1>2. TypeOK /\ MethodsHeld /\ [Next]_vars => MethodsHeld'
  <2> SUFFICES ASSUME TypeOK, MethodsHeld, [Next]_vars PROVE MethodsHeld'
    OBVIOUS
  <2>1. ASSUME NEW r \in Requests, Serve(r)
        PROVE  MethodsHeld'
    <3>1. PICK s \in Received(Fresh, r) :
            /\ Served(r, s) /\ s \in States /\ (up' <=> s.up) /\ disk' = s.disk
            /\ answer' = IF s.up THEN Answered(s) ELSE Page("none")
      BY <2>1, ServeStep
    <3>2. /\ r \in Request /\ request' = r /\ before' = disk /\ server' = server
          /\ Path(request)' = Path(r) /\ Here' = LocOf(r)
      BY <2>1, ServeStep
    <3>3. /\ Fresh \in States /\ Fresh.up /\ Fresh.disk = disk /\ Fresh.script = <<>>
          /\ Fresh.answer = Page("unset") /\ Fresh.answer.code = "unset"
      BY Typed, FreshFacts
    <3>4. CASE r.method \notin {"GET", "DELETE"}
      BY <3>2, <3>4 DEF MethodsHeld
    <3>5. CASE ~s.up
      BY <3>1, <3>5 DEF MethodsHeld, Page
    <3>6. CASE s.up /\ r.method \in {"GET", "DELETE"} /\ RequestError(r)
      <4> DEFINE code == StatusCode(r)
      <4>1. code \in {"400", "414"} /\ s = ErrorResponse(Fresh, r, code)
        BY <3>6 DEF StatusCode, Received
      <4>2. code \in Codes \ {"204"}
        BY <4>1 DEF Codes
      <4> HIDE DEF code
      <4>3. s.answer = Page(code) /\ s.script = <<>>
        BY <3>2, <3>6, <4>1, <4>2, Typed, ErrorServed
      <4>4. answer'.code \in {"400", "414"}
        BY <3>1, <3>6, <4>1, <4>3 DEF Answered, Page
      <4> QED
        BY <4>4 DEF MethodsHeld
    <3>7. CASE s.up /\ r.method \in {"GET", "DELETE"} /\ ~RequestError(r)
      <4>1. s = HandleCompleteRequest(Fresh, r)
        BY <3>7 DEF Received
      <4>2. CASE ~Located(r)
        <5>1. s = Fresh
          BY <3>3, <4>1, <4>2, CompleteFacts
        <5>2. answer'.code = "unset"
          BY <3>1, <3>3, <3>7, <5>1 DEF Answered
        <5> QED
          BY <5>2 DEF MethodsHeld
      <4>3. CASE Located(r) /\ r.method \in LocOf(r).methods
        BY <3>2, <4>3 DEF MethodsHeld
      <4>4. CASE Located(r) /\ r.method \notin LocOf(r).methods
        <5> DEFINE f == Fresh
        <5>1. f \in States /\ f.up /\ f.disk = disk /\ f.script = <<>> /\ s = HandleCompleteRequest(f, r)
          BY <3>3, <4>1
        <5> HIDE DEF f
        <5>2. s.answer = Page("405") /\ s.disk = f.disk /\ s.script = f.script
          BY <3>2, <3>7, <4>4, <5>1, Typed, RefusedFacts
        <5>3. answer'.code = "405" /\ disk' = before'
          BY <3>1, <3>2, <3>7, <5>1, <5>2 DEF Answered, Page
        <5> QED
          BY <5>3 DEF MethodsHeld
      <4> QED
        BY <4>2, <4>3, <4>4
    <3> QED
      BY <3>4, <3>5, <3>6, <3>7
  <2>2. CASE UNCHANGED vars
    <3>1. Here' = Here
      BY <2>2, LocationsStay DEF Here, vars
    <3> QED
      BY <2>2, <3>1 DEF vars, MethodsHeld
  <2> QED
    BY <2>1, <2>2 DEF Next
<1> QED
  BY <1>1, <1>2, ServingTyped, PTL DEF Spec

----------------------------------------------------------------------------
(* What the last request did to the disk.                                  *)

\* A 204: the target was there, and is not any more.
DeletedInv ==
  answer.code = "204" =>
    /\ request.method = "DELETE" /\ Parsed(request) /\ FindMathLocation(Path(request)) # None
    /\ answer.node = Segments(JoinPath(Here, Path(request)))
    /\ answer.node \in (before.dirs \cup before.files) \ (disk.dirs \cup disk.files)

\* A DELETE changes its target at most; nothing else takes anything away.
ChangedInv ==
  IF request.method = "DELETE"
  THEN Changed # {} => /\ FindMathLocation(Path(request)) # None
                       /\ Changed \subseteq {Segments(JoinPath(Here, Path(request)))}
  ELSE before.dirs \subseteq disk.dirs /\ before.files \subseteq disk.files

\* A 200 of an upload that names its file: the file is at the place of the upload.
StoredInv ==
  request.method = "POST" /\ answer.code = "200" /\ answer.node # <<>> =>
    /\ Parsed(request) /\ FindBestMatch(Path(request)) # None
    /\ server[FindBestMatch(Path(request))].upload_store # <<>>
    /\ answer.node = Segments(PlaceOf(request)) /\ answer.node \in disk.files

\* A state of an upload's request that answers with a node has stored the file there.
LEMMA PostReceived ==
  ASSUME server \in Seq(Location), disk \in Trees, NEW r \in Request, r.method = "POST",
         NEW s \in Received(Fresh, r), s.up,
         Answered(s).code = "200", Answered(s).node # <<>>
  PROVE  /\ Parsed(r) /\ DidStore(Fresh, r, s.disk)
         /\ Answered(s).node = Segments(PlaceOf(r))
<1>1. Fresh \in States /\ Fresh.up /\ Fresh.disk = disk
  BY FreshFacts
<1>2. CASE RequestError(r)
  <2> DEFINE code == StatusCode(r)
  <2>1. code \in {"400", "414"} /\ s = ErrorResponse(Fresh, r, code)
    BY <1>2 DEF StatusCode, Received
  <2>2. code \in Codes \ {"204"}
    BY <2>1 DEF Codes
  <2> HIDE DEF code
  <2>3. s.answer = Page(code) /\ s.script = <<>>
    BY <2>1, <2>2, ErrorServed
  <2>4. Answered(s).code \in {"400", "414"}
    BY <2>1, <2>3 DEF Answered, Page
  <2> QED
    BY <2>4
<1>3. CASE ~RequestError(r)
  <2>1. PICK t \in Uploaded(Fresh, r) : s = HandleCompleteRequest(t, r)
    BY <1>3 DEF Received
  <2> DEFINE f == Fresh
  <2>2. f \in States /\ f.up /\ f.disk = disk /\ t \in Uploaded(f, r)
    BY <1>1, <2>1
  <2> HIDE DEF f
  <2>3. /\ t \in States
        /\ \/ t.disk = f.disk /\ (t.up => t.answer.node = <<>>)
           \/ DidStore(f, r, t.disk) /\ t.answer = Sent("200", PlaceOf(r))
    BY <2>2, UploadLeaves
  <2>4. /\ s \in States /\ s.disk = t.disk /\ (s.up => t.up)
        /\ s.answer = t.answer \/ s.answer.code \in {"403", "404", "405", "listing"}
    BY <2>1, <2>3, PostCompletes
  <2>5. Answered(s) = s.answer
    BY <2>4, AnsweredFacts
  <2>6. s.answer = t.answer /\ t.answer.node # <<>> /\ t.up
    BY <2>4, <2>5
  <2>7. DidStore(f, r, t.disk) /\ t.answer = Sent("200", PlaceOf(r))
    BY <2>3, <2>6
  <2>8. PlaceOf(r) \in Strings
    BY <2>7 DEF DidStore
  <2>9. Sent("200", PlaceOf(r)).node = Segments(PlaceOf(r))
    BY DEF Sent
  <2>10. Parsed(r)
    BY <1>3 DEF RequestError
  <2> QED
    BY <2>4, <2>5, <2>6, <2>7, <2>9, <2>10 DEF f
<1> QED
  BY <1>2, <1>3

\* A state that answers 204 has deleted what a request without errors names.
LEMMA DeleteReceived ==
  ASSUME server \in Seq(Location), disk \in Trees, NEW r \in Request,
         NEW s \in Received(Fresh, r), s.up, Answered(s).code = "204"
  PROVE  /\ Parsed(r) /\ Located(r) /\ DidDelete(Fresh, r, s)
         /\ Answered(s).node = Segments(JoinPath(LocOf(r), Path(r)))
<1>1. Fresh \in States /\ Fresh.up /\ Fresh.disk = disk
  BY FreshFacts
<1>2. Served(r, s) /\ s \in States
  BY ReceivedFacts DEF Served
<1>3. Answered(s) = s.answer
  BY <1>2, AnsweredFacts
<1>4. Located(r) /\ DidDelete(Fresh, r, s)
  BY <1>2, <1>3 DEF Served
<1>5. Parsed(r)
  <2> SUFFICES ASSUME RequestError(r) PROVE FALSE
    BY DEF RequestError
  <2> DEFINE code == StatusCode(r)
  <2>1. code \in {"400", "414"} /\ s = ErrorResponse(Fresh, r, code)
    BY DEF StatusCode, Received
  <2>2. code \in Codes \ {"204"}
    BY <2>1 DEF Codes
  <2> HIDE DEF code
  <2>3. s.answer = Page(code)
    BY <2>1, <2>2, ErrorServed
  <2> QED
    BY <1>3, <2>1, <2>3 DEF Page
<1>6. Answered(s).node = Segments(JoinPath(LocOf(r), Path(r)))
  <2> DEFINE path == JoinPath(LocOf(r), Path(r))
  <2>1. s.answer = Sent("204", path)
    BY <1>4 DEF DidDelete
  <2> HIDE DEF path
  <2>2. Sent("204", path).node = Segments(path)
    BY DEF Sent
  <2> QED
    BY <1>3, <2>1, <2>2 DEF path
<1> QED
  BY <1>4, <1>5, <1>6

\* The place of an upload does not depend on the rest of the state.
LEMMA PlaceStays ==
  ASSUME server' = server, NEW r, request' = r
  PROVE  PlaceOf(request)' = PlaceOf(r)
<1>1. Path(request)' = Path(r)
  OBVIOUS
<1>2. FindBestMatch(Path(request))' = FindBestMatch(Path(r))
  BY <1>1, LocationsStay
<1> QED
  BY <1>1, <1>2 DEF PlaceOf, StoreOf, ConstructFilePath

\* A step keeps DeletedInv.
LEMMA DeletedStep ==
  ASSUME TypeOK, NEW r \in Requests, Serve(r)
  PROVE  DeletedInv'
<1>1. PICK s \in Received(Fresh, r) :
        /\ Served(r, s) /\ s \in States /\ (up' <=> s.up) /\ disk' = s.disk
        /\ answer' = IF s.up THEN Answered(s) ELSE Page("none")
  BY ServeStep
<1>2. /\ r \in Request /\ request' = r /\ before' = disk /\ server' = server
      /\ Path(request)' = Path(r) /\ Here' = LocOf(r)
  BY ServeStep
<1>3. Fresh.disk = disk /\ disk \in Trees
  BY FreshFacts, Typed
<1> SUFFICES ASSUME answer'.code = "204" PROVE DeletedInv'
  BY DEF DeletedInv
<1>4. s.up /\ answer' = Answered(s)
  BY <1>1 DEF Page
<1>5. /\ Parsed(r) /\ Located(r) /\ DidDelete(Fresh, r, s)
      /\ Answered(s).node = Segments(JoinPath(LocOf(r), Path(r)))
  BY <1>1, <1>2, <1>4, Typed, DeleteReceived
<1> DEFINE n == Segments(JoinPath(LocOf(r), Path(r)))
<1>6. /\ answer'.node = n /\ n \in disk.dirs \cup disk.files
      /\ disk' = Without(disk, n) /\ r.method = "DELETE"
  BY <1>1, <1>3, <1>4, <1>5 DEF DidDelete
<1> HIDE DEF n
<1>7. disk'.dirs = disk.dirs \ {n} /\ disk'.files = disk.files \ {n}
  BY <1>3, <1>6 DEF Without, Trees, Disk
<1>8. (FindMathLocation(Path(request)) # None)'
  BY <1>2, <1>5, LocationsStay DEF Located, None
<1>9. JoinPath(Here, Path(request))' = JoinPath(LocOf(r), Path(r))
  BY <1>2 DEF JoinPath
<1>10. Segments(JoinPath(Here, Path(request)))' = n
  BY <1>9 DEF n
<1>11. /\ request'.method = "DELETE" /\ Parsed(request)'
       /\ answer'.node \in (before'.dirs \cup before'.files) \ (disk'.dirs \cup disk'.files)
  BY <1>2, <1>5, <1>6, <1>7
<1> QED
  BY <1>6, <1>8, <1>10, <1>11 DEF DeletedInv

\* A step keeps ChangedInv.
LEMMA ChangedStep ==
  ASSUME TypeOK, NEW r \in Requests, Serve(r)
  PROVE  ChangedInv'
<1>1. PICK s \in Received(Fresh, r) :
        /\ Served(r, s) /\ s \in States /\ (up' <=> s.up) /\ disk' = s.disk
        /\ answer' = IF s.up THEN Answered(s) ELSE Page("none")
  BY ServeStep
<1>2. /\ r \in Request /\ request' = r /\ before' = disk /\ server' = server
      /\ Path(request)' = Path(r) /\ Here' = LocOf(r)
  BY ServeStep
<1>3. Fresh.disk = disk /\ disk \in Trees
  BY FreshFacts, Typed
<1>4. CASE disk' = disk
  <2>1. Changed' = {}
    BY <1>2, <1>4 DEF Changed
  <2> QED
    BY <1>2, <1>4, <2>1 DEF ChangedInv
<1>5. CASE Located(r) /\ DidDelete(Fresh, r, s)
  <2> DEFINE n == Segments(JoinPath(LocOf(r), Path(r)))
  <2>1. disk' = Without(disk, n) /\ r.method = "DELETE"
    BY <1>1, <1>3, <1>5 DEF DidDelete
  <2> HIDE DEF n
  <2>2. disk'.dirs = disk.dirs \ {n} /\ disk'.files = disk.files \ {n}
    BY <1>3, <2>1 DEF Without, Trees, Disk
  <2>3. Changed' \subseteq {n}
    BY <1>2, <2>2 DEF Changed
  <2>4. (FindMathLocation(Path(request)) # None)'
    BY <1>2, <1>5, LocationsStay DEF Located, None
  <2>5. JoinPath(Here, Path(request))' = JoinPath(LocOf(r), Path(r))
    BY <1>2 DEF JoinPath
  <2>6. Segments(JoinPath(Here, Path(request)))' = n
    BY <2>5 DEF n
  <2>7. request'.method = "DELETE"
    BY <1>2, <2>1
  <2> QED
    BY <2>3, <2>4, <2>6, <2>7 DEF ChangedInv
<1>6. CASE DidStore(Fresh, r, s.disk)
  <2> DEFINE n == Segments(PlaceOf(r))
  <2>1. disk' = With(disk, PlaceOf(r)) /\ r.method = "POST"
    BY <1>1, <1>3, <1>6 DEF DidStore
  <2>2. disk' = [disk EXCEPT !.files = @ \cup {n}]
    BY <2>1 DEF With
  <2> HIDE DEF n
  <2>3. disk'.dirs = disk.dirs /\ disk'.files = disk.files \cup {n}
    BY <1>3, <2>2 DEF Trees, Disk
  <2> QED
    BY <1>2, <2>1, <2>3 DEF ChangedInv
<1> QED
  BY <1>1, <1>4, <1>5, <1>6 DEF Served

\* A step keeps StoredInv.
LEMMA StoredStep ==
  ASSUME TypeOK, NEW r \in Requests, Serve(r)
  PROVE  StoredInv'
<1>1. PICK s \in Received(Fresh, r) :
        /\ Served(r, s) /\ s \in States /\ (up' <=> s.up) /\ disk' = s.disk
        /\ answer' = IF s.up THEN Answered(s) ELSE Page("none")
  BY ServeStep
<1>2. /\ r \in Request /\ request' = r /\ before' = disk /\ server' = server
      /\ Path(request)' = Path(r) /\ Here' = LocOf(r)
  BY ServeStep
<1>3. Fresh.disk = disk /\ disk \in Trees
  BY FreshFacts, Typed
<1> SUFFICES ASSUME request'.method = "POST", answer'.code = "200", answer'.node # <<>>
             PROVE  StoredInv'
  BY DEF StoredInv
<1>4. s.up /\ answer' = Answered(s)
  BY <1>1 DEF Page
<1>5. /\ Parsed(r) /\ DidStore(Fresh, r, s.disk)
      /\ Answered(s).node = Segments(PlaceOf(r))
  BY <1>1, <1>2, <1>4, Typed, PostReceived
<1> DEFINE n == Segments(PlaceOf(r))
<1>6. answer'.node = n /\ disk' = With(disk, PlaceOf(r)) /\ FindBestMatch(Path(r)) # None
     /\ server[FindBestMatch(Path(r))].upload_store # <<>>
  BY <1>1, <1>3, <1>4, <1>5 DEF DidStore, StoreOf
<1>7. disk' = [disk EXCEPT !.files = @ \cup {n}]
  BY <1>6 DEF With
<1>8. PlaceOf(request)' = PlaceOf(r)
  BY <1>2, PlaceStays
<1>9. Segments(PlaceOf(request))' = n
  BY <1>8
<1> HIDE DEF n
<1>10. disk'.files = disk.files \cup {n}
  BY <1>3, <1>7 DEF Trees, Disk
<1>11. /\ (FindBestMatch(Path(request)) # None)'
       /\ (server[FindBestMatch(Path(request))].upload_store # <<>>)'
  BY <1>2, <1>6, LocationsStay DEF None
<1>12. Parsed(request)'
  BY <1>2, <1>5
<1> QED
  BY <1>6, <1>9, <1>10, <1>11, <1>12 DEF StoredInv

\* What the answer says of the disk, and the request of what changed, in every state.
THEOREM ServingTells == Spec => [](DeletedInv /\ ChangedInv /\ StoredInv)
<1> DEFINE Inv == DeletedInv /\ ChangedInv /\ StoredInv
<1>1. Init => Inv
  BY DEF Init, DeletedInv, ChangedInv, StoredInv, Page, Changed
<1>2. TypeOK /\ Inv /\ [Next]_vars => Inv'
  <2> SUFFICES ASSUME TypeOK, Inv, [Next]_vars PROVE Inv'
    OBVIOUS
  <2>1. CASE \E r \in Requests : Serve(r)
    BY <2>1, DeletedStep, ChangedStep, StoredStep
  <2>2. CASE UNCHANGED vars
    <3>1. Here' = Here /\ server' = server /\ request' = request
      BY <2>2, LocationsStay DEF Here, vars
    <3>2. PlaceOf(request)' = PlaceOf(request)
      BY <3>1, PlaceStays
    <3>3. FindBestMatch(Path(request))' = FindBestMatch(Path(request))
      BY <3>1, LocationsStay
    <3>4. FindMathLocation(Path(request))' = FindMathLocation(Path(request))
      BY <3>1, LocationsStay
    <3>5. DeletedInv'
      BY <2>2, <3>1, <3>4 DEF DeletedInv, vars, JoinPath, None
    <3>6. Changed' = Changed
      BY <2>2 DEF vars, Changed
    <3>7. ChangedInv'
      BY <2>2, <3>1, <3>2, <3>3, <3>4, <3>6 DEF ChangedInv, vars, JoinPath, None
    <3>8. StoredInv'
      BY <2>2, <3>2, <3>3 DEF StoredInv, vars, None
    <3> QED
      BY <3>5, <3>7, <3>8
  <2> QED
    BY <2>1, <2>2 DEF Next
<1> QED
  BY <1>1, <1>2, ServingTyped, PTL DEF Spec

\* The request of Get.
Getting(path) == [NoRequest EXCEPT !.method = "GET", !.uri = path]

\* It is a request.
LEMMA GettingTyped ==
  ASSUME NEW path \in Strings
  PROVE  Getting(path) \in Request /\ Getting(path).method = "GET"
<1>1. NoRequest \in Request
  BY TextTypes
<1> DEFINE n == NoRequest
<1> HIDE DEF n
<1>2. n \in Request /\ Getting(path) = [n EXCEPT !.method = "GET", !.uri = path]
  BY <1>1 DEF Getting, n
<1>3. [n EXCEPT !.method = "GET", !.uri = path] \in Request
  BY <1>2 DEF Request
<1>4. [n EXCEPT !.method = "GET", !.uri = path].method = "GET"
  BY <1>2 DEF Request
<1> QED
  BY <1>2, <1>3, <1>4

\* The path of a request, asked for by GET, is that path again.
LEMMA GettingPath ==
  ASSUME NEW r \in Request, Parsed(r)
  PROVE  /\ Path(Getting(Path(r))) = Path(r) /\ Path(r) \in Strings
         /\ Getting(Path(r)) \in Request /\ Getting(Path(r)).method = "GET"
<1> DEFINE q == Path(r)
<1>1. PICK segs \in Seq(Kept(Clean)) : NormalFor(q, segs)
  BY PathFacts
<1>2. Len(q) <= MaxUrlLength
  <2> DEFINE m == Len(q)
             n == Len(r.uri)
  <2>1. m \in Nat /\ n \in Nat /\ m <= n /\ n <= MaxUrlLength
    BY PathFacts
  <2> HIDE DEF m, n
  <2>2. m <= MaxUrlLength
    BY <2>1, LengthAssumption
  <2> QED
    BY <2>2 DEF m
<1>3. q \in Strings
  BY PathTyped
<1> HIDE DEF q
<1>4. Path(Getting(q)) = q
  BY <1>1, <1>2, PathAgain DEF Getting
<1>5. Getting(q) \in Request /\ Getting(q).method = "GET"
  BY <1>3, GettingTyped
<1> QED
  BY <1>3, <1>4, <1>5 DEF q

\* What names no node of the disk GET does not find.
LEMMA NothingThere ==
  ASSUME server \in Seq(Location), disk \in Trees, NEW r \in Request, Parsed(r), Located(r),
         Segments(JoinPath(LocOf(r), Path(r))) \notin disk.dirs \cup disk.files
  PROVE  Get(Path(r)).code \notin {"200", "listing", "script"}
<1> DEFINE g == Getting(Path(r))
           loc == LocOf(r)
           path == JoinPath(loc, Path(r))
           f == Fresh
           t == HandleCompleteRequest(f, g)
<1>1. Path(g) = Path(r) /\ g \in Request /\ g.method = "GET"
  BY GettingPath
<1>2. /\ f \in States /\ f.up /\ f.disk = disk /\ f.script = <<>>
  BY FreshFacts
<1>3. Get(Path(r)) = Answered(t)
  BY DEF Get, Getting
<1>4. Segments(path) \notin disk.dirs \cup disk.files
  OBVIOUS
<1>5. loc \in Location
  BY LocatedTyped
<1> HIDE DEF g, f
<1>6. Located(g) /\ LocOf(g) = loc
  BY <1>1 DEF Located, LocOf
<1> HIDE DEF t
<1>7. PICK c : Checked(f, g, c) /\ (c.up /\ g.method = "GET" => t = HandleGET(c, g, LocOf(g)))
  BY <1>2, <1>6, CompleteFacts DEF t
<1>8. path = JoinPath(loc, Path(g))
  BY <1>1
<1> HIDE DEF loc, path
<1>9. \A s : s.disk = disk => ~IsDir(s.disk, path) /\ ~IsFile(s.disk, path)
  BY <1>4 DEF IsDir, IsFile
<1>10. c \in States /\ c.up /\ c.disk = disk /\ c.script = <<>>
  <2>1. CASE loc.path # Cgi
    <3>1. c = f
      BY <1>6, <1>7, <2>1 DEF Checked
    <3> QED
      BY <1>2, <3>1
  <2>2. CASE loc.path = Cgi
    <3>1. c = CheckCGIValid(f, g, loc)
      BY <1>6, <1>7, <2>2 DEF Checked
    <3>2. Replied(f, c, {"404", "405"})
      BY <1>1, <1>2, <1>5, <1>6, <1>8, <1>9, <3>1, ScriptFacts
    <3>3. PICK a \in Replies : c = To(f, a)
      BY <3>2 DEF Replied
    <3> QED
      BY <1>2, <3>3, ToFacts
  <2> QED
    BY <2>1, <2>2
<1>11. t = HandleGET(c, g, loc)
  BY <1>1, <1>6, <1>7, <1>10
<1>12. Replied(c, t, {"405", "redirect", "500", "404"})
  BY <1>1, <1>5, <1>6, <1>8, <1>9, <1>10, <1>11, GetFacts
<1>13. PICK a \in Replies : a.code \in {"405", "redirect", "500", "404"} /\ t = To(c, a)
  BY <1>12 DEF Replied
<1>14. t.answer = a /\ t.script = <<>>
  BY <1>10, <1>13, ToFacts
<1>15. Answered(t) = a
  BY <1>14 DEF Answered
<1> QED
  BY <1>3, <1>13, <1>15

\* After a 204 what the target named is gone from the disk, and GET does not find it.
THEOREM DeletedStaysGone == Spec => []DeletedIsGone
<1>1. TypeOK /\ DeletedInv => DeletedIsGone
  <2> SUFFICES ASSUME TypeOK, DeletedInv, answer.code = "204"
               PROVE  /\ answer.node \in (before.dirs \cup before.files) \ (disk.dirs \cup disk.files)
                      /\ Get(Path(request)).code \notin {"200", "listing", "script"}
    BY DEF DeletedIsGone
  <2>1. /\ Parsed(request) /\ Located(request)
        /\ answer.node = Segments(JoinPath(LocOf(request), Path(request)))
        /\ answer.node \in (before.dirs \cup before.files) \ (disk.dirs \cup disk.files)
    BY DEF DeletedInv, Located, Here, LocOf
  <2>2. server \in Seq(Location) /\ disk \in Trees /\ request \in Request
    BY Typed
  <2>3. Get(Path(request)).code \notin {"200", "listing", "script"}
    BY <2>1, <2>2, NothingThere
  <2> QED
    BY <2>1, <2>3
<1> QED
  BY <1>1, ServingTyped, ServingTells, PTL

----------------------------------------------------------------------------
(* Where the parts of a path lead.                                         *)

\* A text with a slash in front.
LEMMA Unrooted ==
  ASSUME NEW C, "/" \in C, NEW s \in Seq(C), Rooted(s)
  PROVE  /\ Tail(s) \in Seq(C) /\ s = Append(<<>>, "/") \o Tail(s)
         /\ Split(s) = <<<<>>>> \o Split(Tail(s))
         /\ Len(Tail(s)) \in Nat /\ Len(s) = Len(Tail(s)) + 1
         /\ \A i \in 1..Len(Tail(s)) : Tail(s)[i] = s[i + 1]
         /\ \A a \in Seq(C) : a \o s = Append(a, "/") \o Tail(s)
<1>1. s # <<>> /\ s[1] = "/"
  BY DEF Rooted
<1> DEFINE t == Tail(s)
           e == <<>>
           one == Append(e, "/")
<1>2. /\ t \in Seq(C) /\ Len(t) \in Nat /\ Len(s) = Len(t) + 1
      /\ \A i \in 1..Len(t) : t[i] = s[i + 1]
  BY <1>1, HeadTailProperties, LenProperties
<1> HIDE DEF t
<1>3. e \in Seq(C) /\ one \in Seq(C) /\ Len(one) = 1 /\ one[1] = "/"
  BY EmptySeq, AppendProperties
<1>4. s = one \o t
  <2> DEFINE u == one \o t
  <2> HIDE DEF e, one
  <2>1. /\ u \in Seq(C) /\ Len(u) = 1 + Len(t)
        /\ \A i \in 1..(1 + Len(t)) : u[i] = IF i <= 1 THEN one[i] ELSE t[i - 1]
    <3>0. one \in Seq(C) /\ t \in Seq(C)
      BY <1>2, <1>3
    <3>1. /\ u \in Seq(C) /\ Len(u) = Len(one) + Len(t)
          /\ \A i \in 1..(Len(one) + Len(t)) :
               u[i] = IF i <= Len(one) THEN one[i] ELSE t[i - Len(one)]
      BY <3>0, ConcatProperties
    <3> HIDE DEF u
    <3> QED
      BY <1>3, <3>1
  <2> HIDE DEF u
  <2>2. \A i \in 1..Len(s) : s[i] = u[i]
    <3> SUFFICES ASSUME NEW i \in 1..Len(s) PROVE s[i] = u[i]
      OBVIOUS
    <3>1. CASE i = 1
      <4>1. u[i] = one[1]
        BY <1>2, <2>1, <3>1
      <4> QED
        BY <1>1, <1>3, <3>1, <4>1
    <3>2. CASE i # 1
      <4>1. i - 1 \in 1..Len(t) /\ i \in 1..(1 + Len(t)) /\ ~(i <= 1) /\ (i - 1) + 1 = i
        BY <1>2, <3>2
      <4>2. u[i] = t[i - 1]
        BY <2>1, <4>1
      <4> QED
        BY <1>2, <4>1, <4>2
    <3> QED
      BY <3>1, <3>2
  <2>3. Len(s) = Len(u)
    BY <1>2, <2>1
  <2>4. s = u
    BY <2>1, <2>2, <2>3, SeqEqual
  <2> QED
    BY <2>4 DEF u
<1>5. Split(s) = <<<<>>>> \o Split(t)
  <2> HIDE DEF e
  <2>1. Split(one \o t) = Split(e) \o Split(t)
    BY <1>2, <1>3, SplitBoth
  <2>2. Split(e) = <<<<>>>>
    BY SplitNone DEF e
  <2> QED
    BY <1>4, <2>1, <2>2
<1>6. \A a \in Seq(C) : a \o s = Append(a, "/") \o t
  <2> SUFFICES ASSUME NEW a \in Seq(C) PROVE a \o s = Append(a, "/") \o t
    OBVIOUS
  <2> HIDE DEF e, one
  <2>1. a \o (one \o t) = (a \o one) \o t
    <3>1. a \in Seq(C) /\ one \in Seq(C) /\ t \in Seq(C)
      BY <1>2, <1>3
    <3> QED
      BY SMTT(90), <3>1, ConcatAssociative
  <2>2. a \o one = Append(a, "/")
    <3> USE DEF one
    <3> HIDE DEF e
    <3>1. a \o Append(e, "/") = Append(a \o e, "/")
      BY <1>3, ConcatAppend
    <3>2. a \o e = a
      BY ConcatEmptySeq DEF e
    <3> QED
      BY <3>1, <3>2
  <2> QED
    BY <1>4, <2>1, <2>2
<1> QED
  BY <1>2, <1>4, <1>5, <1>6 DEF t

\* The segments that do not lead up.
Downward == Slashless(Chars) \ {<<".", ".">>}

\* What stands behind a slash of a path that does not lead up does not either.
LEMMA DropRooted ==
  ASSUME NEW p \in Strings, Split(p) \in Seq(Downward), NEW n \in Nat, n < Len(p), p[n + 1] = "/"
  PROVE  /\ Drop(n, p) \in Strings /\ Rooted(Drop(n, p))
         /\ Split(Drop(n, p)) \in Seq(Downward)
<1> DEFINE rest == Drop(n, p)
           a == SubSeq(p, 1, n)
           T == Seq(Chars)
<1>1. Len(p) \in Nat /\ p \in T
  BY LenProperties DEF Strings
<1>2. /\ rest \in T /\ Len(rest) = Len(p) - n
      /\ \A i \in 1..(Len(p) - n) : rest[i] = p[n + i]
  BY <1>1, DropFacts
<1>3. /\ a \in T /\ Len(a) = n /\ \A i \in 1..n : a[i] = p[i]
  <2>1. /\ a \in T /\ Len(a) = IF 1 <= n THEN n - 1 + 1 ELSE 0
        /\ \A i \in 1..(n - 1 + 1) : a[i] = p[1 + i - 1]
    BY <1>1, SubSeqFacts
  <2> HIDE DEF a
  <2>2. \A i \in 1..n : i \in 1..(n - 1 + 1) /\ 1 + i - 1 = i
    OBVIOUS
  <2> QED
    BY <2>1, <2>2
<1> HIDE DEF rest, a
<1>4. p = a \o rest
  <2> DEFINE u == a \o rest
             m == Len(p)
  <2>1. /\ u \in T /\ Len(u) = Len(a) + Len(rest)
        /\ \A i \in 1..(Len(a) + Len(rest)) :
             u[i] = IF i <= Len(a) THEN a[i] ELSE rest[i - Len(a)]
    BY <1>2, <1>3, ConcatProperties
  <2>2. m \in Nat /\ n < m
    BY <1>1
  <2> HIDE DEF u
  <2>3. Len(u) = m
    BY <1>2, <1>3, <2>1, <2>2
  <2>4. \A i \in 1..m : p[i] = u[i]
    <3> SUFFICES ASSUME NEW i \in 1..m PROVE p[i] = u[i]
      OBVIOUS
    <3>1. u[i] = IF i <= n THEN a[i] ELSE rest[i - n]
      BY <1>2, <1>3, <2>1, <2>2
    <3>2. CASE i <= n
      BY <1>3, <3>1, <3>2
    <3>3. CASE ~(i <= n)
      <4>1. i - n \in 1..(m - n) /\ n + (i - n) = i
        BY <2>2, <3>3
      <4> QED
        BY <1>2, <3>1, <3>3, <4>1
    <3> QED
      BY <3>2, <3>3
  <2>5. p = u
    BY <1>1, <2>1, <2>3, <2>4, SeqEqual
  <2> QED
    BY <2>5 DEF u
<1>5. Rooted(rest)
  <2>1. Len(rest) # 0 /\ rest[1] = "/"
    <3>1. 1 \in 1..(Len(p) - n) /\ n + 1 = n + 1
      BY <1>1
    <3> QED
      BY <1>1, <1>2, <3>1
  <2> QED
    BY <2>1, EmptySeq DEF Rooted
<1> DEFINE t == Tail(rest)
<1>6. /\ t \in T /\ Split(rest) = <<<<>>>> \o Split(t) /\ a \o rest = Append(a, "/") \o t
  BY ZenonT(90), <1>2, <1>3, <1>5, TextTypes, Unrooted
<1> HIDE DEF t
<1>7. Split(p) = Split(a) \o Split(t)
  BY <1>3, <1>4, <1>6, TextTypes, SplitBoth
<1> DEFINE D == Downward
           E == Slashless(Chars)
           sa == Split(a)
           st == Split(t)
<1>8. sa \in Seq(E) /\ st \in Seq(E)
  BY <1>3, <1>6, SplitTyped
<1>9. sa \o st \in Seq(D)
  BY <1>7
<1> HIDE DEF D, E, sa, st
<1>10. st \in Seq(D)
  BY <1>8, <1>9, PartsIn
<1> DEFINE e == <<>>
           one == <<e>>
<1>11. one \in Seq(D)
  <2>1. e \in D
    BY EmptySeq DEF D, Downward, Slashless
  <2> HIDE DEF e, D
  <2> QED
    BY <2>1
<1>12. Split(rest) = one \o st
  BY <1>6 DEF st
<1> HIDE DEF e, one
<1>13. Split(rest) \in Seq(D)
  BY <1>10, <1>11, <1>12, ConcatProperties
<1> QED
  BY <1>2, <1>5, <1>13 DEF rest, D, Strings

\* A part that does not lead up, behind a slash, stays below what stands before it.
LEMMA DownFrom ==
  ASSUME NEW base \in Strings, NEW rest \in Strings, Split(rest) \in Seq(Downward),
         rest = <<>> \/ Rooted(rest) \/ (base # <<>> /\ Last(base) = "/")
  PROVE  /\ base \o rest \in Strings
         /\ IsPrefix(Segments(base), Segments(base \o rest))
<1> DEFINE T == Seq(Chars)
           K == Kept(Chars)
           E == Slashless(Chars)
           all == base \o rest
<1>1. base \in T /\ rest \in T /\ "/" \in Chars
  BY TextTypes DEF Strings
<1>2. all \in T
  BY <1>1, ConcatProperties
<1>3. Segments(base) \in Seq(K) /\ Segments(all) \in Seq(K)
  BY <1>1, <1>2, SegmentsTyped
<1>4. ASSUME NEW b \in T, NEW t \in T, Segments(b) = Segments(base), all = Append(b, "/") \o t,
             Split(t) \in Seq(Downward)
      PROVE  IsPrefix(Segments(base), Segments(all))
  <2>1. Segments(Append(b, "/") \o t) = Walked(Segments(b), Split(t))
    BY <1>1, <1>4, SegmentsOn
  <2> DEFINE k == Segments(base)
             w == Split(t)
  <2>2. Segments(all) = Walked(k, w)
    BY <1>4, <2>1
  <2>3. k \in Seq(E \ Dots) /\ w \in Seq(E \ {<<".", ".">>})
    BY <1>3, <1>4 DEF Kept, Downward
  <2> HIDE DEF k, w, E, all
  <2>4. IsPrefix(k, Walked(k, w))
    BY <2>3, WalkDown
  <2> QED
    BY <2>2, <2>4 DEF k
<1>5. CASE rest = <<>>
  <2>1. all = base
    BY <1>1, <1>5, ConcatEmptySeq
  <2> QED
    BY <1>1, <1>3, <2>1, PrefixOn DEF Strings
<1>6. CASE Rooted(rest)
  <2> DEFINE t == Tail(rest)
  <2>1. t \in T /\ all = Append(base, "/") \o t /\ Split(rest) = <<<<>>>> \o Split(t)
    BY ZenonT(90), <1>1, <1>6, Unrooted
  <2>2. Split(t) \in Seq(Downward)
    <3> HIDE DEF t
    <3> DEFINE one == <<<<>>>>
               st == Split(t)
               D == Downward
    <3>1. one \in Seq(E) /\ st \in Seq(E) /\ one \o st \in Seq(D)
      <4>1. one = Split(<<>>) /\ <<>> \in T
        BY SplitNone, EmptySeq
      <4>2. Split(<<>>) \in Seq(E) /\ st \in Seq(E)
        BY <2>1, <4>1, SplitTyped
      <4> QED
        BY <2>1, <4>1, <4>2
    <3> HIDE DEF one, st, D, E
    <3>2. st \in Seq(D)
      BY <3>1, PartsIn
    <3> QED
      BY <3>2 DEF st, D
  <2> HIDE DEF t
  <2>3. IsPrefix(Segments(base), Segments(all))
    BY <1>1, <1>4, <2>1, <2>2
  <2> QED
    BY <1>2, <2>3 DEF Strings
<1>7. CASE base # <<>> /\ Last(base) = "/"
  <2> DEFINE b == Front(base)
  <2>1. b \in T /\ base = Append(b, "/")
    BY <1>1, <1>7, FrontLast
  <2> HIDE DEF b
  <2>2. Segments(base) = Segments(b)
    <3>1. <<>> \in T
      BY EmptySeq
    <3> QED
      BY <1>1, <2>1, <3>1, SegmentsOn
  <2>3. IsPrefix(Segments(base), Segments(all))
    BY <1>1, <1>4, <2>1, <2>2
  <2> QED
    BY <1>2, <2>3 DEF Strings
<1> QED
  BY <1>5, <1>6, <1>7

\* The path of a request that goes on behind that of its location with a new segment,
\* and what is left of it there.
LEMMA RestFacts ==
  ASSUME server \in Seq(Location), NEW r \in Request, WholeSegments(Path(r)),
         NEW loc, loc = LocOf(r), NEW p, p = Path(r), NEW n, n = Len(loc.path)
  PROVE  /\ loc \in Location /\ StoreOf(r) = loc /\ Parsed(r) /\ Located(r)
         /\ p \in Strings /\ Rooted(p) /\ Split(p) \in Seq(Downward)
         /\ n \in Nat /\ n <= Len(p) /\ IsPrefix(loc.path, p) /\ Len(p) \in Nat
         /\ n = Len(p) \/ p[n + 1] = "/" \/ loc.path = <<"/">>
         /\ n = Len(p) => Drop(n, p) = <<>>
         /\ n # Len(p) /\ loc.path # <<"/">> =>
              Drop(n, p) \in Strings /\ Rooted(Drop(n, p)) /\ Split(Drop(n, p)) \in Seq(Downward)
<1>1. p \in Strings /\ (p = <<>> \/ Rooted(p))
  BY PathTyped
<1>2. /\ FindBestMatch(p) = FindMathLocation(p) /\ Rooted(p)
      /\ server[FindMathLocation(p)] \in Location
  BY <1>1, SameLocation
<1>3. loc \in Location /\ StoreOf(r) = loc
  BY <1>2 DEF LocOf, StoreOf
<1>4. Parsed(r)
  BY <1>2, PathFacts DEF Rooted
<1>5. Split(p) \in Seq(Downward)
  <2>1. Split(p) \in Seq(Slashless(Clean) \ {<<".", ".">>})
    BY <1>4, PathTyped
  <2>2. Slashless(Clean) \ {<<".", ".">>} \subseteq Downward
    <3>1. Clean \ {"/"} \subseteq Chars \ {"/"}
      BY DEF Clean
    <3>2. Slashless(Clean) \subseteq Slashless(Chars)
      BY <3>1, SeqMonotonic DEF Slashless
    <3> QED
      BY <3>2 DEF Downward
  <2> DEFINE A == Slashless(Clean) \ {<<".", ".">>}
             sp == Split(p)
             D == Downward
  <2>3. sp \in Seq(A) /\ A \subseteq D
    BY <2>1, <2>2
  <2> HIDE DEF A, sp, D
  <2>4. sp \in Seq(D)
    BY <2>3, SeqMonotonic
  <2> QED
    BY <2>4 DEF sp, D
<1>6. AtSegment(FindMathLocation(p), p) /\ Located(r)
  BY DEF WholeSegments, Located
<1>7. /\ IsPrefix(loc.path, p)
      /\ Len(p) = n \/ p[n + 1] = "/" \/ loc.path = <<"/">>
  BY <1>6 DEF AtSegment, LocOf
<1>8. n \in Nat /\ Len(p) \in Nat
  BY <1>1, <1>3, LenProperties DEF Location, Strings
<1>9. n <= Len(p)
  BY <1>7 DEF IsPrefix
<1>10. n = Len(p) => Drop(n, p) = <<>>
  <2> DEFINE d == Drop(n, p)
  <2>1. d \in Seq(Chars) /\ (n = Len(p) => Len(d) = 0)
    <3>1. p \in Seq(Chars) /\ n \in Nat
      BY <1>1, <1>8 DEF Strings
    <3>2. d \in Seq(Chars) /\ Len(d) = IF n <= Len(p) THEN Len(p) - n ELSE 0
      BY <3>1, DropFacts
    <3> HIDE DEF d
    <3> QED
      BY <1>8, <3>2
  <2> HIDE DEF d
  <2> QED
    BY <2>1, EmptySeq DEF d
<1>11. n # Len(p) /\ loc.path # <<"/">> =>
         Drop(n, p) \in Strings /\ Rooted(Drop(n, p)) /\ Split(Drop(n, p)) \in Seq(Downward)
  <2> SUFFICES ASSUME n # Len(p), loc.path # <<"/">>
               PROVE  Drop(n, p) \in Strings /\ Rooted(Drop(n, p)) /\ Split(Drop(n, p)) \in Seq(Downward)
    OBVIOUS
  <2>1. n < Len(p) /\ p[n + 1] = "/"
    BY <1>7, <1>8, <1>9
  <2> QED
    BY <1>1, <1>5, <1>8, <2>1, DropRooted
<1> QED
  BY <1>1, <1>2, <1>3, <1>4, <1>5, <1>6, <1>7, <1>8, <1>9, <1>10, <1>11

\* What a DELETE or GET stands for lies below the root of the location.
LEMMA DeleteStays ==
  ASSUME server \in Seq(Location), NEW r \in Request, WholeSegments(Path(r))
  PROVE  IsPrefix(Segments(LocOf(r).root), Segments(JoinPath(LocOf(r), Path(r))))
<1> DEFINE loc == LocOf(r)
           p == Path(r)
           n == Len(loc.path)
           base == WithoutSlash(loc.root)
           rest == IF loc.path # <<"/">> /\ IsPrefix(loc.path, p) THEN Drop(n, p) ELSE p
<1>1. /\ loc \in Location /\ p \in Strings /\ Rooted(p) /\ Split(p) \in Seq(Downward)
      /\ n \in Nat /\ n <= Len(p) /\ IsPrefix(loc.path, p) /\ Len(p) \in Nat
      /\ n = Len(p) => Drop(n, p) = <<>>
      /\ n # Len(p) /\ loc.path # <<"/">> =>
           Drop(n, p) \in Strings /\ Rooted(Drop(n, p)) /\ Split(Drop(n, p)) \in Seq(Downward)
  BY RestFacts
<1>2. JoinPath(loc, p) = base \o rest
  BY DEF JoinPath
<1>3. base \in Strings /\ Segments(base) = Segments(loc.root)
  <2>1. loc.root \in Strings
    BY <1>1 DEF Location
  <2> QED
    BY <2>1, WithoutSlashTyped
<1> HIDE DEF base, p, n, loc
<1>4. rest \in Strings /\ Split(rest) \in Seq(Downward) /\ (rest = <<>> \/ Rooted(rest))
  <2>1. CASE loc.path = <<"/">>
    BY <1>1, <2>1
  <2>2. CASE loc.path # <<"/">> /\ n # Len(p)
    BY <1>1, <2>2
  <2>3. CASE loc.path # <<"/">> /\ n = Len(p)
    <3>1. rest = <<>>
      BY <1>1, <2>3
    <3>2. Split(<<>>) \in Seq(Downward)
      <4> DEFINE e == <<>>
                 D == Downward
      <4>1. e \in D
        BY EmptySeq DEF Downward, Slashless
      <4>2. Split(<<>>) = <<e>>
        BY SplitNone
      <4> HIDE DEF D, e
      <4>3. <<e>> \in Seq(D)
        BY <4>1
      <4> QED
        BY <4>2, <4>3 DEF D
    <3>3. <<>> \in Strings
      BY TextTypes
    <3> HIDE DEF rest
    <3> QED
      BY <3>1, <3>2, <3>3
  <2> QED
    BY <2>1, <2>2, <2>3
<1> HIDE DEF rest
<1>5. IsPrefix(Segments(base), Segments(base \o rest))
  BY <1>3, <1>4, DownFrom
<1> QED
  BY <1>2, <1>3, <1>5 DEF loc, p

\* However a target is written, a DELETE takes away nothing outside of the root of its
\* location, and nothing else takes anything away.
THEOREM ServingConfined == Spec => []Confined
<1>1. TypeOK /\ ChangedInv => Confined
  <2> SUFFICES ASSUME TypeOK, ChangedInv, request.method = "DELETE",
                      WholeSegments(Path(request)), NEW node \in Changed
               PROVE  Within(node, Segments(Here.root))
    BY DEF Confined, ChangedInv
  <2>1. server \in Seq(Location) /\ request \in Request
    BY Typed
  <2>2. Here = LocOf(request)
    BY DEF Here, LocOf
  <2>3. node = Segments(JoinPath(LocOf(request), Path(request)))
    BY <2>2 DEF ChangedInv
  <2>4. IsPrefix(Segments(LocOf(request).root), node)
    BY <2>1, <2>3, DeleteStays
  <2> QED
    BY <2>2, <2>4 DEF Within
<1> QED
  BY <1>1, ServingTyped, ServingTells, PTL

----------------------------------------------------------------------------
(* A file stored is found again.                                           *)

\* The slash that is taken off is that of the last part.
LEMMA WithoutSlashBehind ==
  ASSUME NEW a \in Strings, NEW b \in Strings,
         b # <<>> \/ ~(a # <<>> /\ Last(a) = "/")
  PROVE  WithoutSlash(a \o b) = a \o WithoutSlash(b)
<1> DEFINE T == Seq(Chars)
<1>1. a \in T /\ b \in T
  BY DEF Strings
<1>2. CASE b = <<>>
  <2>1. a \o b = a
    BY <1>1, <1>2, ConcatEmptySeq
  <2>2. WithoutSlash(a) = a /\ WithoutSlash(b) = b
    BY <1>2 DEF WithoutSlash
  <2> QED
    BY <2>1, <2>2
<1>3. CASE b # <<>>
  <2> DEFINE f == Front(b)
             x == Last(b)
  <2>1. f \in T /\ x \in Chars /\ Append(f, x) = b
    <3>1. b[1] \in Chars
      BY <1>1, <1>3, EmptySeq, ElementOfSeq
    <3> QED
      BY <1>1, <1>3, <3>1, FrontLast
  <2>2. WithoutSlash(b) = IF x = "/" THEN f ELSE b
    BY <1>3 DEF WithoutSlash
  <2> HIDE DEF f, x
  <2>3. a \o f \in T /\ a \o Append(f, x) = Append(a \o f, x)
    <3>1. a \in Seq(Chars) /\ f \in Seq(Chars) /\ x \in Chars
      BY <1>1, <2>1
    <3>2. a \o Append(f, x) = Append(a \o f, x)
      BY <3>1, ConcatAppend
    <3>3. a \o f \in Seq(Chars)
      BY <3>1, ConcatProperties
    <3> QED
      BY <3>2, <3>3
  <2> DEFINE af == a \o f
             u == a \o b
  <2>4. u = Append(af, x) /\ af \in T
    BY <2>1, <2>3
  <2> HIDE DEF u, af
  <2>5. u # <<>> /\ Front(u) = af /\ Last(u) = x
    <3>1. af \in Seq(Chars) /\ x \in Chars
      BY <2>1, <2>4
    <3> HIDE DEF T
    <3>2. Append(af, x) # <<>>
      BY <3>1, FrontLast
    <3>3. Front(Append(af, x)) = af
      BY <3>1, FrontLast
    <3>4. Last(Append(af, x)) = x
      BY ZenonT(90), <3>1, FrontLast
    <3> QED
      BY <2>4, <3>2, <3>3, <3>4
  <2>6. WithoutSlash(u) = IF x = "/" THEN af ELSE u
    BY <2>5 DEF WithoutSlash
  <2> QED
    BY <2>2, <2>6 DEF u, af
<1> QED
  BY <1>2, <1>3

\* A name behind a slash is one segment more.
LEMMA NameOn ==
  ASSUME NEW a \in Strings, NEW x \in Kept(Chars)
  PROVE  /\ Append(a, "/") \o x \in Strings
         /\ Segments(Append(a, "/") \o x) = Append(Segments(a), x)
         /\ Last(Append(a, "/") \o x) # "/" /\ Append(a, "/") \o x # <<>>
<1> DEFINE T == Seq(Chars)
           K == Kept(Chars)
           E == Slashless(Chars)
           k == Segments(a)
           one == <<x>>
           as == Append(a, "/")
           u == as \o x
<1>1. a \in T /\ "/" \in Chars /\ x \in Slashless(Chars) /\ x \notin Dots
  BY TextTypes DEF Strings, Kept
<1>2. x \in T /\ x # <<>> /\ \A i \in 1..Len(x) : x[i] # "/"
  <2>1. x \in Seq(Chars \ {"/"})
    BY <1>1 DEF Slashless
  <2>2. x \in T
    BY <2>1, SeqMonotonic
  <2>3. \A i \in 1..Len(x) : x[i] \in Chars \ {"/"}
    BY <2>1, ElementOfSeq
  <2> QED
    BY <1>1, <2>2, <2>3 DEF Dots
<1>3. as \in T /\ Len(as) \in Nat /\ Len(x) \in Nat /\ Len(x) # 0
  BY <1>1, <1>2, AppendProperties, LenProperties, EmptySeq
<1>4. Segments(Append(a, "/") \o x) = Walked(k, Split(x))
  BY <1>1, <1>2, SegmentsOn
<1>5. Split(x) = one
  BY <1>1, SplitPlain
<1>6. k \in Seq(K)
  BY <1>1, SegmentsTyped
<1>7. one \in Seq(K)
  OBVIOUS
<1>8. Walked(k, one) = Append(k, x)
  <2>1. k \in Seq(E \ Dots) /\ one \in Seq(E \ Dots)
    BY <1>6, <1>7 DEF Kept
  <2>2. k \o one = Append(k, x)
    <3> HIDE DEF k, one, K
    <3>1. x \in K
      BY DEF K
    <3>2. k \o <<x>> = Append(k, x)
      BY <1>6, <3>1, ConcatAppend
    <3> QED
      BY <3>2 DEF one
  <2> HIDE DEF k, one, E
  <2>3. Walked(k, one) = k \o one
    BY <2>1, WalkPlain
  <2> QED
    BY <2>2, <2>3
<1> HIDE DEF as, k, one
<1>9. /\ u \in T /\ Len(u) = Len(as) + Len(x)
      /\ \A i \in 1..(Len(as) + Len(x)) : u[i] = IF i <= Len(as) THEN as[i] ELSE x[i - Len(as)]
  BY <1>2, <1>3, ConcatProperties
<1>10. Last(u) # "/" /\ u # <<>>
  <2> DEFINE m == Len(as)
             n == Len(x)
  <2>1. m \in Nat /\ n \in Nat /\ n # 0 /\ Len(u) = m + n
    BY <1>3, <1>9
  <2> HIDE DEF u, m, n
  <2>2. Len(u) \in 1..(m + n) /\ ~(Len(u) <= m) /\ Len(u) - m = n /\ n \in 1..n
    BY <2>1
  <2>3. u[Len(u)] = x[Len(u) - m]
    BY <1>9, <2>1, <2>2 DEF u, m, n
  <2>4. u[Len(u)] # "/"
    BY <1>2, <2>2, <2>3 DEF n
  <2>5. Len(u) # 0
    BY <2>1
  <2>6. u # <<>>
    BY <2>5, EmptySeq
  <2>7. Last(u) # "/"
    BY <2>4 DEF Last
  <2> QED
    BY <2>6, <2>7 DEF u
<1> QED
  BY <1>4, <1>5, <1>8, <1>9, <1>10 DEF as, k, Strings

\* The slash taken off again.
LEMMA SlashOff ==
  ASSUME NEW S, "/" \in S, NEW s \in Seq(S)
  PROVE  WithoutSlash(Append(s, "/")) = s /\ Len(Append(s, "/")) = Len(s) + 1
<1> DEFINE c == "/"
           u == Append(s, c)
<1>1. c \in S
  OBVIOUS
<1> HIDE DEF c
<1>2. Front(Append(s, c)) = s
  BY <1>1, FrontLast
<1>3. Last(Append(s, c)) = c
  BY ZenonT(90), <1>1, FrontLast
<1>4. Append(s, c) # <<>>
  BY <1>1, FrontLast
<1>5. Len(Append(s, c)) = Len(s) + 1
  BY <1>1, AppendProperties
<1> HIDE DEF u
<1>6. u # <<>> /\ Front(u) = s /\ Last(u) = c /\ Len(u) = Len(s) + 1
  BY <1>2, <1>3, <1>4, <1>5 DEF u
<1>7. WithoutSlash(u) = s
  BY <1>6 DEF WithoutSlash, c
<1> QED
  BY <1>6, <1>7 DEF u, c

\* What GET is asked for to find an upload: the path of the upload and the name.
Where(r) == Append(WithoutSlash(Path(r)), "/") \o FileName(r)

\* It is normal already: it is the path that is looked for.
LEMMA AskedAgain ==
  ASSUME NEW r \in Request, Parsed(r), FileName(r) \in Kept(Clean),
         Len(Path(r)) + 1 + Len(FileName(r)) <= MaxUrlLength
  PROVE  /\ Where(r) \in Strings /\ Rooted(Where(r))
         /\ Path(Getting(Where(r))) = Where(r)
         /\ Getting(Where(r)) \in Request /\ Getting(Where(r)).method = "GET"
<1> DEFINE p == Path(r)
           x == FileName(r)
           w == WithoutSlash(p)
           q == Append(w, "/") \o x
           T == Seq(Clean)
           K == Kept(Clean)
<1>1. "/" \in Clean /\ Clean \subseteq Chars
  BY DEF Clean, Chars
<1>2. PICK segs \in Seq(Kept(Clean)) : NormalFor(p, segs)
  BY PathFacts
<1>3. p \in T /\ x \in T /\ x \in K
  <2>1. p \in T
    BY <1>1, <1>2, NormalFacts
  <2>2. x \in Seq(Clean \ {"/"})
    BY DEF Kept, Slashless
  <2>3. x \in T
    BY <2>2, SeqMonotonic
  <2> QED
    BY <2>1, <2>3
<1> DEFINE j == Joined(segs)
           more == Append(segs, x)
<1>4. /\ j \in T
      /\ segs = <<>> => j = <<>>
      /\ segs # <<>> => j # <<>> /\ Last(j) # "/"
      /\ Joined(more) = Append(j, "/") \o x
  <2>1. Kept(Clean) \subseteq Seq(Clean)
    BY SeqMonotonic DEF Kept, Slashless
  <2>2. segs \in Seq(Seq(Clean))
    BY <2>1, SeqMonotonic
  <2>3. j \in T /\ Joined(<<>>) = <<>> /\ Joined(more) = Append(j, "/") \o x
    BY <1>1, <1>3, <2>2, JoinedFacts
  <2>4. segs # <<>> => Rooted(j) /\ Last(j) # "/"
    BY <1>1, JoinedRooted
  <2> QED
    BY <2>3, <2>4 DEF Rooted
<1> HIDE DEF p, x
<1>5. w = j /\ Len(j) \in Nat /\ Len(j) <= Len(p)
  <2>1. Len(j) \in Nat /\ Len(p) \in Nat
    BY <1>3, <1>4, LenProperties
  <2>2. CASE segs = <<>>
    <3>1. p = <<"/">> /\ j = <<>>
      BY <1>2, <1>4, <2>2 DEF NormalFor
    <3>2. w = <<>>
      <4>1. <<"/">> = Append(<<>>, "/") /\ <<>> \in T
        BY EmptySeq
      <4> DEFINE e == <<>>
      <4>2. e \in T /\ p = Append(e, "/")
        BY <3>1, <4>1
      <4> HIDE DEF e
      <4>3. WithoutSlash(Append(e, "/")) = e
        BY <1>1, <4>2, SlashOff
      <4> QED
        BY <4>2, <4>3 DEF e
    <3>3. Len(j) = 0
      BY <3>1
    <3> QED
      BY <2>1, <3>1, <3>2, <3>3
  <2>3. CASE segs # <<>> /\ p = j
    <3>1. w = j
      BY <1>4, <2>3 DEF WithoutSlash
    <3> QED
      BY <2>1, <2>3, <3>1
  <2>4. CASE segs # <<>> /\ p = Append(j, "/")
    <3> HIDE DEF j
    <3>1. WithoutSlash(Append(j, "/")) = j /\ Len(Append(j, "/")) = Len(j) + 1
      BY <1>1, <1>4, SlashOff
    <3>2. w = j /\ Len(p) = Len(j) + 1
      BY <2>4, <3>1
    <3> QED
      BY <2>1, <3>2
  <2> QED
    BY <1>2, <2>2, <2>3, <2>4 DEF NormalFor
<1>6. q = Joined(more)
  BY <1>4, <1>5
<1>7. more \in Seq(K) /\ more # <<>>
  BY <1>3, AppendProperties
<1>8. NormalFor(q, more)
  BY <1>6, <1>7 DEF NormalFor
<1>9. Len(q) <= MaxUrlLength
  <2> DEFINE js == Append(j, "/")
  <2>1. js \in T /\ Len(js) = Len(j) + 1
    BY <1>1, <1>4, AppendProperties
  <2>2. q = js \o x
    BY <1>5
  <2>3. Len(x) \in Nat /\ Len(p) \in Nat
    BY <1>3, LenProperties
  <2> HIDE DEF js, j, q
  <2>4. Len(q) = Len(js) + Len(x)
    BY <1>3, <2>1, <2>2, ConcatProperties
  <2>5. Len(p) + 1 + Len(x) <= MaxUrlLength
    BY DEF p, x
  <2> QED
    BY <1>5, <2>1, <2>3, <2>4, <2>5, LengthAssumption
<1> HIDE DEF q, more
<1>10. Path(Getting(q)) = q
  BY <1>7, <1>8, <1>9, PathAgain DEF Getting
<1>11. q \in T /\ Rooted(q)
  BY <1>1, <1>7, <1>8, NormalFacts
<1>12. q \in Strings
  BY <1>1, <1>11, SeqMonotonic DEF Strings
<1>13. Getting(q) \in Request /\ Getting(q).method = "GET"
  BY <1>12, GettingTyped
<1>14. Where(r) = q
  BY DEF Where, q, p, x
<1> QED
  BY <1>10, <1>11, <1>12, <1>13, <1>14

\* A part between two others.
LEMMA TextAround ==
  \A a, b, x \in Seq(Chars) : a \o (Append(b, "/") \o x) = Append(a \o b, "/") \o x
<1>1. "/" \in Chars
  BY TextTypes
<1> TAKE a, b, x \in Seq(Chars)
<1> DEFINE c == "/"
<1>2. c \in Chars
  BY <1>1
<1> DEFINE bs == Append(b, c)
<1>3. bs \in Seq(Chars)
  BY <1>2, AppendProperties
<1> HIDE DEF c
<1>4. a \o Append(b, c) = Append(a \o b, c)
  BY <1>2, ConcatAppend
<1> HIDE DEF bs
<1>5. (a \o bs) \o x = a \o (bs \o x)
  BY SMTT(90), <1>3, ConcatAssociative
<1> QED
  BY <1>4, <1>5 DEF bs, c

\* Behind texts that lead to the same node a part leads to the same node.
LEMMA SegmentsBehind ==
  ASSUME NEW a \in Strings, NEW b \in Strings, Segments(a) = Segments(b),
         NEW t \in Strings, t = <<>> \/ Rooted(t)
  PROVE  Segments(a \o t) = Segments(b \o t)
<1>1. a \in Seq(Chars) /\ b \in Seq(Chars) /\ t \in Seq(Chars) /\ "/" \in Chars
  BY TextTypes DEF Strings
<1>2. CASE t = <<>>
  <2>1. a \o <<>> = a /\ b \o <<>> = b
    BY <1>1, ConcatEmptySeq
  <2> QED
    BY <1>2, <2>1
<1>3. CASE Rooted(t)
  <2> DEFINE u == Tail(t)
  <2>5. u \in Seq(Chars) /\ \A x \in Seq(Chars) : x \o t = Append(x, "/") \o u
    <3>1. u \in Seq(Chars)
      BY <1>1, <1>3, Unrooted
    <3>2. \A x \in Seq(Chars) : x \o t = Append(x, "/") \o u
      BY <1>1, <1>3, Unrooted
    <3> QED
      BY <3>1, <3>2
  <2>1. /\ u \in Seq(Chars)
        /\ a \o t = Append(a, "/") \o u /\ b \o t = Append(b, "/") \o u
    BY <1>1, <2>5
  <2> HIDE DEF u
  <2>2. /\ Segments(Append(a, "/") \o u) = Walked(Segments(a), Split(u))
        /\ Segments(Append(b, "/") \o u) = Walked(Segments(b), Split(u))
    BY <1>1, <2>1, SegmentsOn
  <2> QED
    BY <2>1, <2>2
<1> QED
  BY <1>2, <1>3

\* The slash at the end of a part does not count.
LEMMA SegmentsOff ==
  ASSUME NEW a \in Strings, NEW t \in Strings
  PROVE  a \o WithoutSlash(t) \in Strings /\ Segments(a \o WithoutSlash(t)) = Segments(a \o t)
<1> DEFINE w == WithoutSlash(t)
           u == a \o w
<1>1. w \in Seq(Chars) /\ (w = t \/ t = Append(w, "/")) /\ a \in Seq(Chars) /\ "/" \in Chars
  BY WithoutSlashTyped, TextTypes DEF Strings
<1> HIDE DEF w
<1>2. u \in Seq(Chars)
  BY <1>1, ConcatProperties
<1>3. CASE w = t
  BY <1>2, <1>3 DEF Strings, w
<1>4. CASE t = Append(w, "/")
  <2>1. a \o Append(w, "/") = Append(u, "/")
    BY <1>1, ConcatAppend
  <2>2. <<>> \in Seq(Chars)
    BY EmptySeq
  <2> HIDE DEF u
  <2>3. Segments(Append(u, "/")) = Segments(u)
    BY <1>1, <1>2, <2>2, SegmentsOn
  <2> QED
    BY <1>2, <1>4, <2>1, <2>3 DEF u, w, Strings
<1> QED
  BY <1>1, <1>3, <1>4

\* What GET looks for is what was stored: the same node, by the same location.
LEMMA SamePlace ==
  ASSUME server \in Seq(Location), NEW r \in Request, WholeSegments(Path(r)),
         NEW loc, loc = LocOf(r), loc.path = <<"/">> \/ Last(loc.path) # "/",
         loc.upload_store # <<>>, Segments(loc.root) = Segments(loc.upload_store),
         loc.path = <<"/">> => Path(r) = <<"/">> \/ Last(loc.upload_store) = "/",
         NEW x \in Strings, NEW q, q = Append(WithoutSlash(Path(r)), "/") \o x, Rooted(q)
  PROVE  /\ FindMathLocation(q) # None
         /\ \E v \in Strings : /\ JoinPath(loc, q) = Append(v, "/") \o x
                               /\ Segments(v) = Segments(ConstructFilePath(loc, Path(r)))
<1> DEFINE T == Seq(Chars)
           p == Path(r)
           L == loc.path
           n == Len(L)
           w == WithoutSlash(p)
           base == WithoutSlash(loc.root)
           store == loc.upload_store
           rest == Drop(n, p)
           ws == WithoutSlash(rest)
<1>1. /\ loc \in Location /\ p \in Strings /\ Rooted(p) /\ Len(p) \in Nat /\ n \in Nat
      /\ IsPrefix(L, p) /\ Located(r)
      /\ n = Len(p) => rest = <<>>
      /\ n # Len(p) /\ L # <<"/">> => rest \in Strings /\ Rooted(rest)
  BY RestFacts
<1>2. "/" \in Chars /\ <<>> \in T /\ <<>> \in Strings
  BY TextTypes DEF Strings
<1>3. /\ L \in T /\ store \in Strings /\ base \in Strings /\ w \in Strings
      /\ Segments(base) = Segments(store)
  <2>1. loc.root \in Strings /\ L \in T /\ store \in Strings
    BY <1>1 DEF Location, Strings
  <2> QED
    BY <1>1, <2>1, WithoutSlashTyped
<1>4. ConstructFilePath(loc, p) = store \o rest
  BY DEF ConstructFilePath
<1>5. JoinPath(loc, q) = base \o IF L # <<"/">> /\ IsPrefix(L, q) THEN Drop(n, q) ELSE q
  BY DEF JoinPath
<1>6. q = Append(w, "/") \o x
  OBVIOUS
<1>7. L = <<"/">> => p = <<"/">> \/ Last(store) = "/"
  OBVIOUS
<1>8. x \in T /\ w \in T /\ base \in T /\ store \in T /\ p \in T
  BY <1>1, <1>3 DEF Strings
<1>9. q \in T /\ Asked(q) = q
  <2>1. Append(w, "/") \in T
    BY <1>2, <1>8, AppendProperties
  <2> DEFINE wa == Append(w, "/")
  <2>2. wa \in T /\ q = wa \o x
    BY <1>6, <2>1
  <2> HIDE DEF wa
  <2>3. q \in T
    <3>1. wa \in Seq(Chars) /\ x \in Seq(Chars)
      BY <1>8, <2>2
    <3>2. wa \o x \in Seq(Chars)
      BY <3>1, ConcatProperties
    <3> QED
      BY <2>2, <3>2
  <2>4. q # <<>> /\ Head(q) = "/"
    BY <2>3, HeadTailProperties DEF Rooted
  <2> QED
    BY <2>3, <2>4 DEF Asked
<1> DEFINE l == FindMathLocation(p)
<1>10. l \in DOMAIN server /\ server[l] = loc /\ L # <<>>
  <2>1. l # None
    BY <1>1 DEF Located
  <2>2. l \in Matches(Asked(p))
    BY <1>1, <2>1, LocationFacts
  <2>3. server[l] = loc
    BY DEF LocOf
  <2> QED
    BY <2>2, <2>3 DEF Matches
<1> HIDE DEF l, p, L, n, w, base, store, ws
<1>11. CASE L = <<"/">>
  <2>1. FindMathLocation(q) # None
    BY <1>9, <1>10, <1>11, RootFound DEF Strings, L
  <2> DEFINE v == base \o w
  <2>2. JoinPath(loc, q) = Append(v, "/") \o x
    <3>1. JoinPath(loc, q) = base \o (Append(w, "/") \o x)
      BY <1>5, <1>6, <1>11
    <3>2. /\ "/" \in Chars /\ base \in Seq(Chars) /\ w \in Seq(Chars) /\ x \in Seq(Chars)
      BY <1>2, <1>8
    <3>3. base \o (Append(w, "/") \o x) = Append(base \o w, "/") \o x
      BY <3>2, TextAround
    <3> QED
      BY <3>1, <3>3
  <2>3. v \in Strings
    BY <1>8, ConcatProperties DEF Strings
  <2>4. Segments(v) = Segments(store \o rest)
    <3>1. CASE p = <<"/">>
      <4> DEFINE e == <<>>
      <4>1. e \in T /\ p = Append(e, "/")
        BY <1>2, <3>1
      <4> HIDE DEF e
      <4>2. w = e
        BY <1>2, <4>1, SlashOff DEF w
      <4>3. v = base
        BY <1>8, <4>2, ConcatEmptySeq DEF e
      <4>4. Len(p) = 1 /\ n = 1
        BY <1>11, <3>1 DEF n
      <4>5. rest = <<>>
        BY <1>1, <4>4
      <4>6. store \o rest = store
        BY <1>8, <4>5, ConcatEmptySeq
      <4> QED
        BY <1>3, <4>3, <4>6
    <3>2. CASE p # <<"/">>
      <4> DEFINE b == Front(store)
      <4>1. store # <<>> /\ Last(store) = "/"
        BY <1>7, <1>11, <3>2 DEF store
      <4>2. b \in T /\ store = Append(b, "/")
        BY <1>2, <1>8, <4>1, FrontLast
      <4> HIDE DEF b
      <4>3. Segments(b) = Segments(base)
        <5>1. Segments(Append(b, "/")) = Segments(b)
          BY <1>2, <4>2, SegmentsOn
        <5> QED
          BY <1>3, <4>2, <5>1
      <4>4. rest = Tail(p)
        <5>1. n = 1
          BY <1>11 DEF n
        <5>2. p \in T /\ p # <<>>
          BY <1>1, <1>8 DEF Rooted
        <5>3. Tail(p) = SubSeq(p, 2, Len(p))
          BY <5>2
        <5> QED
          BY <5>1, <5>3 DEF Drop
      <4>5. b \o p = Append(b, "/") \o Tail(p)
        <5>1. "/" \in Chars /\ p \in Seq(Chars) /\ Rooted(p) /\ b \in Seq(Chars)
          BY <1>1, <1>2, <1>8, <4>2
        <5> QED
          BY ZenonT(90), <5>1, Unrooted
      <4>6. store \o rest = b \o p
        BY <4>2, <4>4, <4>5
      <4>7. Segments(b \o p) = Segments(base \o p)
        BY <1>1, <1>8, <4>2, <4>3, SegmentsBehind DEF Strings
      <4>8. Segments(v) = Segments(base \o p)
        BY <1>3, <1>1, SegmentsOff DEF w
      <4> QED
        BY <4>6, <4>7, <4>8
    <3> QED
      BY <3>1, <3>2
  <2> HIDE DEF v
  <2> QED
    BY <1>4, <2>1, <2>2, <2>3, <2>4 DEF p
<1>12. CASE L # <<"/">>
  <2>1. rest \in Strings /\ (rest = <<>> \/ Rooted(rest))
    BY <1>1, <1>2, <1>12
  <2>2. p = L \o rest
    BY <1>1, <1>3, <1>8, PrefixDrop DEF n
  <2>3. w = L \o ws
    <3>1. rest # <<>> \/ ~(L # <<>> /\ Last(L) = "/")
      BY <1>12 DEF L
    <3> HIDE DEF rest
    <3>2. WithoutSlash(L \o rest) = L \o WithoutSlash(rest)
      BY <1>3, <2>1, <3>1, WithoutSlashBehind DEF Strings
    <3> QED
      BY <2>2, <3>2 DEF w, ws
  <2> DEFINE tail == Append(ws, "/") \o x
             v == base \o ws
  <2>4. ws \in T
    BY <2>1, WithoutSlashTyped DEF ws, Strings
  <2>5. tail \in T
    <3>1. Append(ws, "/") \in T
      BY <1>2, <2>4, AppendProperties
    <3> DEFINE wa == Append(ws, "/")
    <3>2. wa \in T /\ tail = wa \o x
      BY <3>1
    <3> HIDE DEF wa, tail
    <3> QED
      BY <1>8, <3>2, ConcatProperties
  <2>6. q = L \o tail
    <3>1. L \o (Append(ws, "/") \o x) = Append(L \o ws, "/") \o x
      <4>1. "/" \in Chars /\ L \in Seq(Chars) /\ ws \in Seq(Chars) /\ x \in Seq(Chars)
        BY <1>2, <1>3, <1>8, <2>4
      <4> QED
        BY <4>1, TextAround
    <3> QED
      BY <1>6, <2>3, <3>1
  <2> HIDE DEF tail
  <2>7. IsPrefix(L, q) /\ Drop(n, q) = tail
    BY <1>3, <2>5, <2>6, DropConcat DEF n
  <2>8. JoinPath(loc, q) = Append(v, "/") \o x
    <3>1. JoinPath(loc, q) = base \o (Append(ws, "/") \o x)
      BY <1>5, <1>12, <2>7 DEF tail
    <3>2. "/" \in Chars /\ base \in Seq(Chars) /\ ws \in Seq(Chars) /\ x \in Seq(Chars)
      BY <1>2, <1>8, <2>4
    <3>3. base \o (Append(ws, "/") \o x) = Append(base \o ws, "/") \o x
      BY <3>2, TextAround
    <3> QED
      BY <3>1, <3>3
  <2>9. v \in Strings /\ Segments(v) = Segments(store \o rest)
    <3> HIDE DEF rest
    <3>1. v \in Strings /\ Segments(v) = Segments(base \o rest)
      BY <1>3, <2>1, SegmentsOff DEF ws
    <3>2. Segments(base \o rest) = Segments(store \o rest)
      BY <1>3, <2>1, SegmentsBehind
    <3> QED
      BY <3>1, <3>2
  <2>10. FindMathLocation(q) # None
    <3> DEFINE M == Matches(q)
    <3>1. M \in SUBSET (DOMAIN server) /\ FindMathLocation(q) = Longest(M)
      BY <1>9, LocationFacts DEF Strings
    <3>2. l \in M
      BY <1>10, <2>7 DEF Matches, L
    <3> HIDE DEF M
    <3>3. Longest(M) # None
      BY <3>1, <3>2, LongestFacts
    <3> QED
      BY <3>1, <3>3
  <2> HIDE DEF v
  <2> QED
    BY <1>4, <2>8, <2>9, <2>10 DEF p
<1> QED
  BY <1>11, <1>12

\* GET of a file that is there, and may be read and asked for, sends it, or the output
\* of the script it is.
LEMMA FileFound ==
  ASSUME server \in Seq(Location), disk \in Trees, NEW q, NEW g, g = Getting(q),
         g \in Request, g.method = "GET", Path(g) = q, Located(g),
         NEW loc, loc = LocOf(g), loc.root # <<>>, "GET" \in loc.methods, ~loc.redirected,
         NEW path \in Strings, path = JoinPath(loc, q), path # <<>>, Last(path) # "/",
         Segments(path) \in disk.files \ disk.hidden
  PROVE  Get(q).node = Segments(path)
<1> DEFINE f == Fresh
           t == HandleCompleteRequest(f, g)
           a == Sent("200", path)
<1>1. f \in States /\ f.up /\ f.disk = disk /\ f.script = <<>>
  BY FreshFacts
<1>2. Get(q) = Answered(t)
  BY DEF Get, Getting
<1>3. loc \in Location
  BY LocatedTyped
<1>4. a \in Replies /\ a.node = Segments(path)
  BY ReplyTypes DEF Codes
<1> HIDE DEF f, t, a
<1>5. disk.dirs \cap disk.files = {}
  BY DEF Trees
<1>6. \A s : s.disk = disk =>
         ~IsDir(s.disk, path) /\ IsFile(s.disk, path) /\ ~Unreadable(s.disk, path)
  BY <1>5 DEF IsDir, IsFile, Unreadable
<1>7. ASSUME NEW s \in States, s.disk = disk
      PROVE  HandleGET(s, g, loc) = To(s, a)
  <2>1. ~IsDir(s.disk, path) /\ IsFile(s.disk, path) /\ ~Unreadable(s.disk, path)
    BY <1>6, <1>7
  <2>2. path = JoinPath(loc, Path(g))
    OBVIOUS
  <2> QED
    BY <1>3, <1>7, <2>1, <2>2, GetFacts DEF a
<1>8. PICK c : Checked(f, g, c) /\ (c.up /\ g.method = "GET" => t = HandleGET(c, g, LocOf(g)))
  BY <1>1, CompleteFacts DEF t
<1>9. /\ c \in States /\ c.up /\ c.disk = disk
      /\ (c.script = <<>> \/ c.script = path)
  <2>1. CASE loc.path # Cgi
    <3>1. c = f
      BY <1>8, <2>1 DEF Checked
    <3> QED
      BY <1>1, <3>1
  <2>2. CASE loc.path = Cgi
    <3>1. c = CheckCGIValid(f, g, loc)
      BY <1>8, <2>2 DEF Checked
    <3>2. c = Chosen(f, g, loc, path)
      <4>1. g.method \in loc.methods /\ ~IsDir(f.disk, path) /\ IsFile(f.disk, path)
        BY <1>1, <1>6
      <4>2. path = JoinPath(loc, Path(g))
        OBVIOUS
      <4> QED
        BY <1>1, <1>3, <3>1, <4>1, <4>2, ScriptFacts
    <3>3. CASE c = Scripted(f, path)
      BY <1>1, <3>3, ScriptedFacts
    <3>4. CASE c = HandleGET(f, g, loc)
      <4>1. c = To(f, a)
        BY <1>1, <1>7, <3>4
      <4> QED
        BY <1>1, <1>4, <4>1, ToFacts
    <3>5. c = Scripted(f, path) \/ c = HandleGET(f, g, loc)
      BY <3>2 DEF Chosen, Scripted
    <3> QED
      BY <3>3, <3>4, <3>5
  <2> QED
    BY <2>1, <2>2
<1>10. t = To(c, a)
  BY <1>7, <1>8, <1>9
<1>11. t.answer = a /\ t.script = c.script
  BY <1>4, <1>9, <1>10, ToFacts
<1>12. CASE c.script = <<>>
  <2>1. Answered(t) = a
    BY <1>11, <1>12 DEF Answered
  <2> QED
    BY <1>2, <1>4, <2>1
<1>13. CASE c.script = path
  <2>1. Answered(t) = Sent("script", path)
    BY <1>11, <1>13 DEF Answered
  <2>2. Sent("script", path).node = Segments(path)
    BY DEF Sent
  <2> QED
    BY <1>2, <2>1, <2>2
<1> QED
  BY <1>9, <1>12, <1>13

\* The names of uploads are single segments with nothing in them that a target encodes.
PlainNames == \A r \in Requests : r.method = "POST" => FileName(r) \in Kept(Clean)

\* A target that asks for an upload is not too long.
ShortNames ==
  \A r \in Requests : r.method = "POST" => Len(Path(r)) + 1 + Len(FileName(r)) <= MaxUrlLength

\* No path of a location but / ends with a slash.
PlainLocations ==
  \A s \in Servers : \A i \in DOMAIN s : s[i].path = <<"/">> \/ Last(s[i].path) # "/"

\* Where a location serves what is uploaded to it, GET finds an upload under the path it
\* was sent to and its name.
THEOREM ServingRoundTrip ==
  ASSUME PlainNames, ShortNames, PlainLocations
  PROVE  Spec => []RoundTrip
<1>1. TypeOK /\ StoredInv => RoundTrip
  <2> DEFINE path == Path(request)
             q == WithoutSlash(path) \o <<"/">> \o FileName(request)
  <2> SUFFICES ASSUME TypeOK, StoredInv,
                      request.method = "POST", answer.code = "200", answer.node # <<>>,
                      WholeSegments(path), KeepsSlash,
                      Here.root # <<>>, Segments(Here.root) = Segments(Here.upload_store),
                      Here = server[FindMathLocation(q)],
                      "GET" \in Here.methods, ~Here.redirected, answer.node \notin disk.hidden
               PROVE  Get(q).node = answer.node
    BY DEF RoundTrip
  <2> DEFINE r == request
             x == FileName(r)
             loc == LocOf(r)
  <2>1. server \in Seq(Location) /\ disk \in Trees /\ r \in Request /\ r \in Requests
    <3>1. request \in Requests
      BY DEF TypeOK, NoRequest
    <3> QED
      BY <3>1, Typed
  <2>2. Here = loc
    BY DEF Here, LocOf
  <2>3. x \in Kept(Clean) /\ Len(path) + 1 + Len(x) <= MaxUrlLength
    BY <2>1 DEF PlainNames, ShortNames
  <2>4. /\ Parsed(r) /\ StoreOf(r).upload_store # <<>>
        /\ answer.node = Segments(PlaceOf(r)) /\ answer.node \in disk.files
    BY DEF StoredInv, StoreOf
  <2>5. StoreOf(r) = loc /\ loc \in Location /\ path \in Strings
    BY <2>1, RestFacts
  <2>6. x \in Strings /\ x \in Kept(Chars)
    <3>1. Clean \ {"/"} \subseteq Chars \ {"/"} /\ Clean \ {"/"} \subseteq Chars
      BY DEF Clean
    <3>2. x \in Slashless(Clean) /\ x \notin Dots
      BY <2>3 DEF Kept
    <3>3. x \in Slashless(Chars) /\ x \in Seq(Chars)
      BY <3>1, <3>2, SeqMonotonic DEF Slashless
    <3> QED
      BY <3>2, <3>3 DEF Kept, Strings
  <2>7. q = Where(r)
    <3> DEFINE w == WithoutSlash(path)
    <3>1. w \in Seq(Chars) /\ "/" \in Chars
      BY <2>5, WithoutSlashTyped, TextTypes DEF Strings
    <3> HIDE DEF w
    <3>2. w \o <<"/">> = Append(w, "/")
      BY <3>1, ConcatAppend
    <3> QED
      BY <3>2 DEF Where, w
  <2>8. /\ q \in Strings /\ Rooted(q) /\ Path(Getting(q)) = q
        /\ Getting(q) \in Request /\ Getting(q).method = "GET"
    BY <2>1, <2>3, <2>4, <2>7, AskedAgain
  <2>9. loc.path = <<"/">> \/ Last(loc.path) # "/"
    <3> DEFINE l == FindMathLocation(path)
    <3>1. l \in DOMAIN server
      <4>1. l # None
        BY DEF WholeSegments
      <4> HIDE DEF path
      <4>2. l \in Matches(Asked(path))
        BY <2>1, <2>5, <4>1, LocationFacts
      <4> QED
        BY <4>2 DEF Matches
    <3>2. server \in Servers
      BY DEF TypeOK
    <3> QED
      BY <3>1, <3>2 DEF PlainLocations, LocOf
  <2>10. loc.path = <<"/">> => path = <<"/">> \/ Last(loc.upload_store) = "/"
    BY <2>2 DEF KeepsSlash
  <2>11. q = Append(WithoutSlash(Path(r)), "/") \o x
    BY <2>7 DEF Where
  <2>12. Segments(loc.root) = Segments(loc.upload_store) /\ loc.upload_store # <<>>
    BY <2>2, <2>4, <2>5
  <2> HIDE DEF q, x, loc
  <2>13. /\ FindMathLocation(q) # None
         /\ \E v \in Strings :
              /\ JoinPath(loc, q) = Append(v, "/") \o x
              /\ Segments(v) = Segments(ConstructFilePath(loc, Path(r)))
    <3> DEFINE s == r
    <3>1. /\ server \in Seq(Location) /\ s \in Request /\ WholeSegments(Path(s)) /\ loc = LocOf(s)
          /\ loc.path = <<"/">> => Path(s) = <<"/">> \/ Last(loc.upload_store) = "/"
          /\ q = Append(WithoutSlash(Path(s)), "/") \o x
      BY <2>1, <2>10, <2>11 DEF loc
    <3>2. ConstructFilePath(loc, Path(r)) = ConstructFilePath(loc, Path(s))
      OBVIOUS
    <3>4. /\ x \in Strings /\ Rooted(q) /\ (loc.path = <<"/">> \/ Last(loc.path) # "/")
          /\ loc.upload_store # <<>> /\ Segments(loc.root) = Segments(loc.upload_store)
      BY <2>6, <2>8, <2>9, <2>12
    <3> HIDE DEF s, path
    <3>3. /\ FindMathLocation(q) # None
          /\ \E v \in Strings :
               /\ JoinPath(loc, q) = Append(v, "/") \o x
               /\ Segments(v) = Segments(ConstructFilePath(loc, Path(s)))
      BY <3>1, <3>4, SamePlace
    <3> QED
      BY <3>2, <3>3
  <2>14. PICK v \in Strings : /\ JoinPath(loc, q) = Append(v, "/") \o x
                              /\ Segments(v) = Segments(ConstructFilePath(loc, Path(r)))
    BY <2>13
  <2> DEFINE file == JoinPath(loc, q)
             c == ConstructFilePath(loc, Path(r))
  <2>15. /\ file \in Strings /\ file # <<>> /\ Last(file) # "/"
         /\ Segments(file) = Append(Segments(v), x)
    BY <2>6, <2>14, NameOn
  <2>16. Segments(PlaceOf(r)) = Append(Segments(c), x)
    <3>1. c \in Strings
      BY <2>1, <2>4, <2>5, PlaceTyped DEF StoredInv
    <3>2. PlaceOf(r) = c \o <<"/">> \o x
      BY <2>5 DEF PlaceOf, x
    <3> HIDE DEF c
    <3>3. c \o <<"/">> = Append(c, "/")
      <4>1. c \in Seq(Chars) /\ "/" \in Chars
        BY <3>1, TextTypes DEF Strings
      <4> QED
        BY <4>1, ConcatAppend
    <3>4. PlaceOf(r) = Append(c, "/") \o x
      BY <3>2, <3>3
    <3> QED
      BY <2>6, <3>1, <3>4, NameOn
  <2>17. Segments(file) = answer.node
    BY <2>4, <2>14, <2>15, <2>16
  <2> DEFINE g == Getting(q)
  <2>18. Located(g) /\ loc = LocOf(g)
    <3>1. Here = server[FindMathLocation(q)]
      BY DEF q
    <3> QED
      BY <2>2, <2>8, <2>13, <3>1 DEF Located, LocOf
  <2>19. loc.root # <<>> /\ "GET" \in loc.methods /\ ~loc.redirected
    BY <2>2
  <2>20. Segments(file) \in disk.files \ disk.hidden
    BY <2>4, <2>17
  <2> HIDE DEF g, file, c
  <2>21. Get(q).node = Segments(file)
    BY <2>1, <2>8, <2>15, <2>18, <2>19, <2>20, FileFound DEF g, file
  <2> QED
    BY <2>17, <2>21 DEF q
<1> QED
  BY <1>1, ServingTyped, ServingTells, PTL
=============================================================================
