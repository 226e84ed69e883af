-------------------------- MODULE RequestHeadProofs --------------------------
(***************************************************************************)
(* Proofs about RequestHead: what becomes of a request that is cut into    *)
(* segments anywhere, for every client, every text and every limit.        *)
(*                                                                         *)
(* The head is built of lines and searched for their ends, so the proofs   *)
(* begin with where line ends are.  The types follow, then where the head  *)
(* ends, and last that reading the head again gives what the client said.  *)
(***************************************************************************)
EXTENDS RequestHead, TextProofs, FiniteSetTheorems

----------------------------------------------------------------------------
(* The members of a set of numbers, in their order.                        *)

\* e names the n members of S in their order.
Ascending(e, n, S) ==
  /\ n \in Nat /\ e \in [1..n -> Nat] /\ \A i, j \in 1..n : i < j => e[i] < e[j]
  /\ S = {e[i] : i \in 1..n}

\* There are k among the first k.
LEMMA FirstOnes ==
  ASSUME NEW n \in Nat, NEW e, NEW S, Ascending(e, n, S)
  PROVE  \A k \in 0..n : /\ IsFiniteSet({e[i] : i \in 1..k})
                         /\ Cardinality({e[i] : i \in 1..k}) = k
<1> DEFINE First(k) == {e[i] : i \in 1..k}
           Good == {k \in Nat : k <= n => IsFiniteSet(First(k)) /\ Cardinality(First(k)) = k}
<1>1. 0 \in Good
  <2>1. First(0) = {}
    OBVIOUS
  <2> QED
    BY <2>1, FS_EmptySet
<1>2. ASSUME NEW k \in Nat, k \in Good
      PROVE  k + 1 \in Good
  <2> SUFFICES ASSUME k + 1 <= n
               PROVE  IsFiniteSet(First(k + 1)) /\ Cardinality(First(k + 1)) = k + 1
    OBVIOUS
  <2>1. IsFiniteSet(First(k)) /\ Cardinality(First(k)) = k
    BY <1>2
  <2>2. First(k + 1) = First(k) \cup {e[k + 1]}
    OBVIOUS
  <2>3. e[k + 1] \notin First(k)
    <3> SUFFICES ASSUME NEW i \in 1..k PROVE e[i] # e[k + 1]
      OBVIOUS
    <3>1. i \in 1..n /\ k + 1 \in 1..n /\ i < k + 1
      OBVIOUS
    <3>2. e[i] < e[k + 1] /\ e[i] \in Nat /\ e[k + 1] \in Nat
      BY <3>1 DEF Ascending
    <3> QED
      BY <3>2
  <2> HIDE DEF First
  <2> QED
    BY <2>1, <2>2, <2>3, FS_AddElement
<1> HIDE DEF Good
<1>3. \A k \in Nat : k \in Good
  BY <1>1, <1>2, Induction
<1> QED
  BY <1>3 DEF Good

\* The members by their places.
LEMMA NthFacts ==
  ASSUME NEW n \in Nat, NEW e, NEW S, Ascending(e, n, S)
  PROVE  /\ IsFiniteSet(S) /\ Cardinality(S) = n
         /\ \A k \in 1..n : Nth(S, k) = e[k]
<1>1. \A k \in 0..n : IsFiniteSet({e[i] : i \in 1..k}) /\ Cardinality({e[i] : i \in 1..k}) = k
  BY FirstOnes
<1>2. S = {e[i] : i \in 1..n}
  BY DEF Ascending
<1>3. ASSUME NEW k \in 1..n
      PROVE  {j \in S : j <= e[k]} = {e[i] : i \in 1..k}
  <2>1. \A i \in 1..n : e[i] \in Nat
    BY DEF Ascending
  <2>2. ASSUME NEW i \in 1..n
        PROVE  e[i] <= e[k] <=> i <= k
    <3>1. i < k => e[i] < e[k]
      BY DEF Ascending
    <3>2. k < i => e[k] < e[i]
      BY DEF Ascending
    <3> QED
      BY <2>1, <3>1, <3>2
  <2>3. ASSUME NEW i \in 1..k
        PROVE  e[i] \in {j \in S : j <= e[k]}
    <3>1. i \in 1..n /\ i <= k
      OBVIOUS
    <3> QED
      BY <1>2, <2>2, <3>1
  <2>4. ASSUME NEW j \in S, j <= e[k]
        PROVE  j \in {e[i] : i \in 1..k}
    <3>1. PICK i \in 1..n : j = e[i]
      BY <1>2
    <3>2. i \in 1..k
      BY <2>2, <2>4, <3>1
    <3> QED
      BY <3>1, <3>2
  <2> QED
    BY <2>3, <2>4
<1>4. ASSUME NEW k \in 1..n
      PROVE  Nth(S, k) = e[k]
  <2>0. ASSUME NEW m \in 1..n
        PROVE  e[m] \in S /\ Cardinality({j \in S : j <= e[m]}) = m
    <3>1. m \in 0..n
      OBVIOUS
    <3>2. Cardinality({e[i] : i \in 1..m}) = m
      BY <1>1, <3>1
    <3>3. {j \in S : j <= e[m]} = {e[i] : i \in 1..m}
      BY <1>3
    <3> QED
      BY <1>2, <3>2, <3>3
  <2>1. e[k] \in S /\ Cardinality({j \in S : j <= e[k]}) = k
    BY <2>0
  <2>2. ASSUME NEW i \in S, Cardinality({j \in S : j <= i}) = k
        PROVE  i = e[k]
    <3>1. PICK m \in 1..n : i = e[m]
      BY <1>2
    <3>2. Cardinality({j \in S : j <= i}) = m
      BY <2>0, <3>1
    <3> QED
      BY <2>2, <3>1, <3>2
  <2>3. /\ Nth(S, k) \in S /\ Cardinality({j \in S : j <= Nth(S, k)}) = k
    BY <2>1 DEF Nth
  <2> QED
    BY <2>2, <2>3
<1> QED
  BY <1>1, <1>2, <1>4

\* Every set of numbers up to N has such an order.
LEMMA OrderExists ==
  ASSUME NEW N \in Nat, NEW S \in SUBSET (1..N)
  PROVE  \E n \in Nat : \E e : Ascending(e, n, S)
<1> DEFINE Ordered(T) == \E n \in Nat : \E e : Ascending(e, n, T)
           Good == {m \in Nat : \A T \in SUBSET (1..m) : Ordered(T)}
<1>1. 0 \in Good
  <2> SUFFICES ASSUME NEW T \in SUBSET (1..0) PROVE Ordered(T)
    OBVIOUS
  <2>1. T = {}
    OBVIOUS
  <2>2. Ascending([i \in 1..0 |-> 0], 0, T)
    BY <2>1 DEF Ascending
  <2> QED
    BY <2>2
<1>2. ASSUME NEW m \in Nat, m \in Good
      PROVE  m + 1 \in Good
  <2> SUFFICES ASSUME NEW T \in SUBSET (1..(m + 1)) PROVE Ordered(T)
    OBVIOUS
  <2> DEFINE front == T \ {m + 1}
  <2>1. front \in SUBSET (1..m)
    OBVIOUS
  <2>0. PICK n \in Nat : \E e : Ascending(e, n, front)
    BY <1>2, <2>1
  <2>2. PICK e : Ascending(e, n, front)
    BY <2>0
  <2>3. CASE m + 1 \notin T
    <3>1. front = T
      BY <2>3
    <3> QED
      BY <2>2, <3>1
  <2>4. CASE m + 1 \in T
    <3> DEFINE d == [i \in 1..(n + 1) |-> IF i = n + 1 THEN m + 1 ELSE e[i]]
    <3>1. /\ e \in [1..n -> Nat] /\ \A i, j \in 1..n : i < j => e[i] < e[j]
          /\ front = {e[i] : i \in 1..n}
      BY <2>2 DEF Ascending
    <3>2. \A i \in 1..n : e[i] \in Nat /\ e[i] <= m /\ e[i] \in T
      BY <2>1, <3>1
    <3>3. \A i \in 1..n : d[i] = e[i] /\ i \in 1..(n + 1)
      OBVIOUS
    <3>4. d[n + 1] = m + 1 /\ n + 1 \in 1..(n + 1) /\ \A i \in 1..(n + 1) : i = n + 1 \/ i \in 1..n
      OBVIOUS
    <3>5. d \in [1..(n + 1) -> Nat]
      BY <3>2
    <3> HIDE DEF d
    <3>6. ASSUME NEW i \in 1..(n + 1), NEW j \in 1..(n + 1), i < j
          PROVE  d[i] < d[j]
      <4>1. i \in 1..n
        BY <3>6
      <4>2. CASE j = n + 1
        BY <3>2, <3>3, <3>4, <4>1, <4>2
      <4>3. CASE j \in 1..n
        BY <3>1, <3>3, <3>6, <4>1, <4>3
      <4> QED
        BY <3>4, <4>2, <4>3
    <3>7. T = {d[i] : i \in 1..(n + 1)}
      <4>1. ASSUME NEW x \in T
            PROVE  \E i \in 1..(n + 1) : x = d[i]
        <5>1. CASE x = m + 1
          BY <3>4, <5>1
        <5>2. CASE x # m + 1
          <6>1. x \in front
            BY <5>2
          <6> QED
            BY <3>1, <3>3, <6>1
        <5> QED
          BY <5>1, <5>2
      <4>2. \A i \in 1..(n + 1) : d[i] \in T
        BY <2>4, <3>2, <3>3, <3>4
      <4> QED
        BY <4>1, <4>2
    <3> QED
      BY <3>5, <3>6, <3>7 DEF Ascending
  <2> QED
    BY <2>3, <2>4
<1> HIDE DEF Good
<1>3. \A m \in Nat : m \in Good
  BY <1>1, <1>2, Induction
<1> QED
  BY <1>3 DEF Good

\* The places of a set of numbers up to N.
LEMMA NthTyped ==
  ASSUME NEW N \in Nat, NEW S \in SUBSET (1..N)
  PROVE  /\ IsFiniteSet(S) /\ Cardinality(S) \in Nat
         /\ \A k \in 1..Cardinality(S) : Nth(S, k) \in S
         /\ \A j, k \in 1..Cardinality(S) : j < k => Nth(S, j) < Nth(S, k)
<1>0. PICK n \in Nat : \E e : Ascending(e, n, S)
  BY OrderExists
<1>1. PICK e : Ascending(e, n, S)
  BY <1>0
<1>2. /\ IsFiniteSet(S) /\ Cardinality(S) = n
      /\ \A k \in 1..n : Nth(S, k) = e[k]
  BY <1>1, NthFacts
<1>3. \A k \in 1..n : e[k] \in S
  BY <1>1 DEF Ascending
<1>4. \A j, k \in 1..n : j < k => e[j] < e[k]
  BY <1>1 DEF Ascending
<1> QED
  BY <1>2, <1>3, <1>4

----------------------------------------------------------------------------
(* Line ends.                                                              *)

\* The separators are pieces, and a line holds neither half of a line end.
LEMMA PieceFacts ==
  /\ "\r" \in Piece /\ "\n" \in Piece /\ ":" \in Piece /\ " " \in Piece
  /\ "=" \in Piece /\ "&" \in Piece /\ "?" \in Piece /\ "#" \in Piece
  /\ "\r" # "\n" /\ \A x \in Lineless : x \in Piece /\ x # "\r" /\ x # "\n"
BY DEF Piece, Lineless

\* The two pieces of a line end.
LEMMA CRLFFacts ==
  CRLF \in Seq(Piece) /\ Len(CRLF) = 2 /\ CRLF[1] = "\r" /\ CRLF[2] = "\n"
<1> DEFINE r == "\r"
           n == "\n"
<1>1. r \in Piece /\ n \in Piece
  BY PieceFacts
<1> HIDE DEF r, n
<1>2. <<r, n>> \in Seq(Piece) /\ Len(<<r, n>>) = 2 /\ <<r, n>>[1] = r /\ <<r, n>>[2] = n
  BY <1>1
<1> QED
  BY <1>2 DEF CRLF, r, n

\* Two of them.
LEMMA BlankLine == CRLF \o CRLF = <<"\r", "\n", "\r", "\n">>
<1> DEFINE r == "\r"
           n == "\n"
           p == <<r, n>>
           q == <<r, n, r, n>>
<1>1. r \in Piece /\ n \in Piece
  BY PieceFacts
<1> HIDE DEF r, n
<1>2. /\ p \in Seq(Piece) /\ Len(p) = 2 /\ p[1] = r /\ p[2] = n
      /\ q \in Seq(Piece) /\ Len(q) = 4 /\ q[1] = r /\ q[2] = n /\ q[3] = r /\ q[4] = n
  BY <1>1
<1> HIDE DEF p, q
<1>3. /\ p \o p \in Seq(Piece) /\ Len(p \o p) = Len(p) + Len(p)
      /\ \A i \in 1..(Len(p) + Len(p)) : (p \o p)[i] = IF i <= Len(p) THEN p[i] ELSE p[i - Len(p)]
  BY <1>2, ConcatProperties
<1>4. \A i \in 1..4 : i = 1 \/ i = 2 \/ i = 3 \/ i = 4
  OBVIOUS
<1>5. \A i \in 1..4 : (p \o p)[i] = q[i]
  BY <1>2, <1>3, <1>4
<1>6. p \o p = q
  BY <1>2, <1>3, <1>5, SeqEqual
<1> QED
  BY <1>6 DEF p, q, r, n, CRLF

\* Where s has a "\r"; each has its "\n".
Ends(s) == {i \in 1..Len(s) : s[i] = "\r"}
Sane(s) == \A i \in Ends(s) : i + 1 <= Len(s) /\ s[i + 1] = "\n"

\* Where line ends are in a text that is sane.
LEMMA EndsOccur ==
  ASSUME NEW s \in Seq(Piece), Sane(s)
  PROVE  /\ Occurrences(CRLF, s) = Ends(s)
         /\ \A i : i \in Occurrences(CRLF \o CRLF, s) <=> i \in Ends(s) /\ i + 2 \in Ends(s)
<1>1. \A i : i \in Occurrences(<<"\r", "\n">>, s) <=>
               i \in 1..(Len(s) - 1) /\ s[i] = "\r" /\ s[i + 1] = "\n"
  BY PieceFacts, OccursTwo
<1>2. Len(s) \in Nat
  BY LenProperties
<1>3. Occurrences(CRLF, s) = Ends(s)
  BY <1>1, <1>2 DEF CRLF, Sane, Ends
<1>4. CRLF \o CRLF = <<"\r", "\n", "\r", "\n">>
  BY BlankLine
<1>5. \A i : i \in Occurrences(<<"\r", "\n", "\r", "\n">>, s) <=>
               i \in 1..(Len(s) - 3) /\ s[i] = "\r" /\ s[i + 1] = "\n"
                 /\ s[i + 2] = "\r" /\ s[i + 3] = "\n"
  <2> DEFINE r == "\r"
             n == "\n"
  <2>1. r \in Piece /\ n \in Piece
    BY PieceFacts
  <2> HIDE DEF r, n
  <2>2. \A i : i \in Occurrences(<<r, n, r, n>>, s) <=>
               i \in 1..(Len(s) - 3) /\ s[i] = r /\ s[i + 1] = n
                 /\ s[i + 2] = r /\ s[i + 3] = n
    BY <2>1, OccursFour
  <2> QED
    BY <2>2 DEF r, n
<1>6. ASSUME NEW i
      PROVE  i \in Occurrences(CRLF \o CRLF, s) <=> i \in Ends(s) /\ i + 2 \in Ends(s)
  <2>1. ASSUME i \in Ends(s), i + 2 \in Ends(s)
        PROVE  i \in 1..(Len(s) - 3) /\ s[i] = "\r" /\ s[i + 1] = "\n"
                 /\ s[i + 2] = "\r" /\ s[i + 3] = "\n"
    <3>1. s[i] = "\r" /\ s[i + 2] = "\r" /\ i \in Nat /\ i >= 1
      BY <1>2, <2>1 DEF Ends
    <3>2. s[i + 1] = "\n" /\ (i + 2) + 1 <= Len(s) /\ s[(i + 2) + 1] = "\n"
      BY <2>1 DEF Sane
    <3>3. (i + 2) + 1 = i + 3
      BY <3>1
    <3> QED
      BY <1>2, <3>1, <3>2, <3>3
  <2>2. ASSUME i \in 1..(Len(s) - 3), s[i] = "\r", s[i + 2] = "\r"
        PROVE  i \in Ends(s) /\ i + 2 \in Ends(s)
    BY <1>2, <2>2 DEF Ends
  <2> QED
    BY <1>4, <1>5, <2>1, <2>2
<1> QED
  BY <1>3, <1>6

\* A line more.
LEMMA LineAdded ==
  ASSUME NEW s \in Seq(Piece), Sane(s), NEW c \in Seq(Lineless)
  PROVE  /\ s \o (c \o CRLF) \in Seq(Piece) /\ Sane(s \o (c \o CRLF))
         /\ Len(s \o (c \o CRLF)) = Len(s) + Len(c) + 2
         /\ Ends(s \o (c \o CRLF)) = Ends(s) \cup {Len(s) + Len(c) + 1}
         /\ \A i \in 1..Len(s) : (s \o (c \o CRLF))[i] = s[i]
         /\ \A i \in 1..Len(c) : (s \o (c \o CRLF))[Len(s) + i] = c[i]
<1> DEFINE l == c \o CRLF
           t == s \o l
<1>1. c \in Seq(Piece) /\ Len(c) \in Nat /\ Len(s) \in Nat /\ \A i \in 1..Len(c) : c[i] \in Lineless
  <2>1. c \in Seq(Piece)
    BY PieceFacts, SeqMonotonic DEF Lineless
  <2> QED
    BY <2>1, LenProperties, ElementOfSeq
<1>2. /\ l \in Seq(Piece) /\ Len(l) = Len(c) + 2
      /\ \A i \in 1..Len(c) : l[i] = c[i]
      /\ l[Len(c) + 1] = "\r" /\ l[Len(c) + 2] = "\n"
  <2> DEFINE w == CRLF
  <2>1. w \in Seq(Piece) /\ Len(w) = 2 /\ w[1] = "\r" /\ w[2] = "\n"
    BY CRLFFacts
  <2> HIDE DEF w
  <2>2. /\ c \o w \in Seq(Piece) /\ Len(c \o w) = Len(c) + Len(w)
        /\ \A i \in 1..(Len(c) + Len(w)) : (c \o w)[i] = IF i <= Len(c) THEN c[i] ELSE w[i - Len(c)]
    BY <1>1, <2>1, ConcatProperties
  <2> QED
    BY <1>1, <2>1, <2>2 DEF w
<1> HIDE DEF l
<1>3. /\ t \in Seq(Piece) /\ Len(t) = Len(s) + Len(l)
      /\ \A i \in 1..(Len(s) + Len(l)) : t[i] = IF i <= Len(s) THEN s[i] ELSE l[i - Len(s)]
  BY <1>2, ConcatProperties
<1> HIDE DEF t
<1>4. /\ Len(t) = Len(s) + Len(c) + 2
      /\ \A i \in 1..Len(s) : t[i] = s[i]
      /\ \A i \in 1..Len(c) : t[Len(s) + i] = c[i]
      /\ t[Len(s) + Len(c) + 1] = "\r" /\ t[Len(s) + Len(c) + 2] = "\n"
  <2>1. Len(t) = Len(s) + Len(c) + 2
    BY <1>1, <1>2, <1>3
  <2>2. \A i \in 1..Len(s) : t[i] = s[i]
    BY <1>1, <1>2, <1>3
  <2>3. ASSUME NEW i \in 1..(Len(c) + 2)
        PROVE  t[Len(s) + i] = l[i]
    <3>1. Len(s) + i \in 1..(Len(s) + Len(l)) /\ ~(Len(s) + i <= Len(s)) /\ (Len(s) + i) - Len(s) = i
      BY <1>1, <1>2
    <3> QED
      BY <1>3, <3>1
  <2>4. \A i \in 1..Len(c) : t[Len(s) + i] = c[i]
    BY <1>1, <1>2, <2>3
  <2>5. t[Len(s) + (Len(c) + 1)] = "\r" /\ t[Len(s) + (Len(c) + 2)] = "\n"
    BY <1>1, <1>2, <2>3
  <2>6. Len(s) + (Len(c) + 1) = Len(s) + Len(c) + 1 /\ Len(s) + (Len(c) + 2) = Len(s) + Len(c) + 2
    BY <1>1
  <2> QED
    BY <2>1, <2>2, <2>4, <2>5, <2>6
<1>5. ASSUME NEW i \in 1..Len(t)
      PROVE  t[i] = "\r" <=> i \in Ends(s) \/ i = Len(s) + Len(c) + 1
  <2>1. CASE i \in 1..Len(s)
    BY <1>1, <1>4, <2>1 DEF Ends
  <2>2. CASE i \in (Len(s) + 1)..(Len(s) + Len(c))
    <3>1. i - Len(s) \in 1..Len(c) /\ Len(s) + (i - Len(s)) = i
      BY <1>1, <2>2
    <3>2. t[i] = c[i - Len(s)]
      BY <1>4, <3>1
    <3>3. t[i] # "\r"
      BY <1>1, <3>1, <3>2, PieceFacts
    <3> QED
      BY <1>1, <2>2, <3>3 DEF Ends
  <2>3. CASE i = Len(s) + Len(c) + 1
    BY <1>4, <2>3
  <2>4. CASE i = Len(s) + Len(c) + 2
    <3>1. t[i] = "\n" /\ "\n" # "\r"
      BY <1>4, <2>4, PieceFacts
    <3> QED
      BY <1>1, <2>4, <3>1 DEF Ends
  <2> QED
    BY <1>1, <1>4, <2>1, <2>2, <2>3, <2>4, SMTT(60)
<1>6. Ends(t) = Ends(s) \cup {Len(s) + Len(c) + 1}
  <2>1. Ends(s) \subseteq 1..Len(t) /\ Len(s) + Len(c) + 1 \in 1..Len(t)
    BY <1>1, <1>4 DEF Ends
  <2>2. \A i : i \in Ends(t) <=> i \in 1..Len(t) /\ t[i] = "\r"
    BY DEF Ends
  <2> QED
    BY <1>5, <2>1, <2>2
<1>7. Sane(t)
  <2> SUFFICES ASSUME NEW i \in Ends(t) PROVE i + 1 <= Len(t) /\ t[i + 1] = "\n"
    BY DEF Sane
  <2>1. CASE i \in Ends(s)
    <3>1. i + 1 <= Len(s) /\ s[i + 1] = "\n" /\ i \in 1..Len(s)
      BY <2>1 DEF Sane, Ends
    <3>2. i + 1 \in 1..Len(s)
      BY <1>1, <3>1
    <3> QED
      BY <1>1, <1>4, <3>1, <3>2
  <2>2. CASE i = Len(s) + Len(c) + 1
    <3>1. i + 1 = Len(s) + Len(c) + 2
      BY <1>1, <2>2
    <3> QED
      BY <1>1, <1>4, <3>1
  <2> QED
    BY <1>6, <2>1, <2>2
<1> QED
  BY <1>3, <1>4, <1>6, <1>7 DEF t, l

----------------------------------------------------------------------------
(* The head a client writes, line by line.                                 *)

\* No line of a head has a line end in it, and no header is empty.
Unbroken(it) ==
  /\ LineOf(it) \in Seq(Lineless)
  /\ \A k \in DOMAIN it.fields :
       ContentOf(it.fields[k]) \in Seq(Lineless) /\ ContentOf(it.fields[k]) # <<>>

\* Its lines, of the fields alone.
LinesOf(it) == [k \in DOMAIN it.fields |-> FieldLine(it.fields[k])]

\* The head up to its k-th field.
Upto(it, k) == (LineOf(it) \o CRLF) \o FlattenSeq(SubSeq(LinesOf(it), 1, k))

\* A head is its request line, its fields and an empty line, each with a line end.
LEMMA HeadParts ==
  ASSUME NEW it
  PROVE  /\ HeadOf(it) = ((LineOf(it) \o CRLF) \o FlattenSeq(LinesOf(it))) \o CRLF
         /\ \A f : FieldLine(f) = ContentOf(f) \o CRLF
BY DEF HeadOf, LineOf, FieldLine, ContentOf, LinesOf

\* The lines of the fields.
LEMMA LinesTyped ==
  ASSUME NEW it \in Intent, Unbroken(it)
  PROVE  /\ Len(it.fields) \in Nat /\ DOMAIN it.fields = 1..Len(it.fields)
         /\ LinesOf(it) \in Seq(Seq(Piece)) /\ Len(LinesOf(it)) = Len(it.fields)
         /\ \A k \in 1..Len(it.fields) :
              /\ LinesOf(it)[k] = ContentOf(it.fields[k]) \o CRLF
              /\ ContentOf(it.fields[k]) \in Seq(Lineless)
              /\ ContentOf(it.fields[k]) \in Seq(Piece)
              /\ Len(ContentOf(it.fields[k])) \in Nat /\ Len(ContentOf(it.fields[k])) >= 1
<1>1. it.fields \in Seq(Field)
  BY DEF Intent
<1>2. Len(it.fields) \in Nat /\ DOMAIN it.fields = 1..Len(it.fields)
  BY <1>1, LenProperties
<1>3. ASSUME NEW k \in 1..Len(it.fields)
      PROVE  /\ LinesOf(it)[k] = ContentOf(it.fields[k]) \o CRLF
             /\ LinesOf(it)[k] \in Seq(Piece)
             /\ ContentOf(it.fields[k]) \in Seq(Lineless)
             /\ ContentOf(it.fields[k]) \in Seq(Piece)
             /\ Len(ContentOf(it.fields[k])) \in Nat /\ Len(ContentOf(it.fields[k])) >= 1
  <2> DEFINE c == ContentOf(it.fields[k])
  <2>1. c \in Seq(Lineless) /\ c # <<>>
    BY <1>2 DEF Unbroken
  <2>2. LinesOf(it)[k] = c \o CRLF
    BY <1>2, HeadParts DEF LinesOf
  <2> HIDE DEF c
  <2>3. c \in Seq(Piece)
    BY <2>1, PieceFacts, SeqMonotonic DEF Lineless
  <2>4. Len(c) \in Nat /\ Len(c) >= 1
    <3>1. Len(c) \in Nat /\ (c = <<>> <=> Len(c) = 0)
      BY <2>1, LenProperties, EmptySeq
    <3> QED
      BY <2>1, <3>1
  <2>5. c \o CRLF \in Seq(Piece)
    BY <2>3, CRLFFacts, ConcatProperties
  <2> QED
    BY <2>1, <2>2, <2>3, <2>4, <2>5 DEF c
<1>4. LinesOf(it) \in Seq(Seq(Piece)) /\ Len(LinesOf(it)) = Len(it.fields)
  <2> DEFINE ls == LinesOf(it)
             n == Len(it.fields)
  <2>1. ls = [k \in 1..n |-> ls[k]]
    BY <1>2 DEF LinesOf
  <2>2. \A k \in 1..n : ls[k] \in Seq(Piece)
    BY <1>3
  <2> HIDE DEF ls
  <2>3. ls \in [1..n -> Seq(Piece)]
    BY <2>1, <2>2
  <2>4. n \in Nat
    BY <1>2
  <2> HIDE DEF n
  <2>5. ls \in Seq(Seq(Piece)) /\ Len(ls) = n
    BY <2>3, <2>4
  <2> QED
    BY <2>5 DEF ls, n
<1> QED
  BY <1>2, <1>3, <1>4

\* The head grows by its lines.
LEMMA UptoGrows ==
  ASSUME NEW it \in Intent, Unbroken(it)
  PROVE  /\ Upto(it, 0) = <<>> \o (LineOf(it) \o CRLF)
         /\ \A k \in Nat : k < Len(it.fields) =>
              Upto(it, k + 1) = Upto(it, k) \o (ContentOf(it.fields[k + 1]) \o CRLF)
         /\ HeadOf(it) = Upto(it, Len(it.fields)) \o (<<>> \o CRLF)
         /\ LineOf(it) \in Seq(Lineless) /\ LineOf(it) \in Seq(Piece)
         /\ LineOf(it) \o CRLF \in Seq(Piece)
<1> DEFINE ls == LinesOf(it)
           n == Len(it.fields)
           l == LineOf(it)
           base == l \o CRLF
<1>1. /\ n \in Nat /\ ls \in Seq(Seq(Piece)) /\ Len(ls) = n
      /\ \A k \in 1..n : ls[k] = ContentOf(it.fields[k]) \o CRLF
  BY LinesTyped
<1>2. l \in Seq(Lineless) /\ l \in Seq(Piece)
  <2>1. l \in Seq(Lineless)
    BY DEF Unbroken
  <2> HIDE DEF l
  <2>2. l \in Seq(Piece)
    BY <2>1, PieceFacts, SeqMonotonic DEF Lineless
  <2> QED
    BY <2>1, <2>2
<1>3. base \in Seq(Piece) /\ <<>> \o base = base /\ base \o <<>> = base
  <2>1. l \o CRLF \in Seq(Piece)
    <3> HIDE DEF l
    <3> QED
      BY <1>2, CRLFFacts, ConcatProperties
  <2>2. base \in Seq(Piece)
    BY <2>1
  <2> HIDE DEF base
  <2> QED
    BY <2>2, ConcatEmptySeq
<1>4. \A k : Upto(it, k) = base \o FlattenSeq(SubSeq(ls, 1, k))
  BY DEF Upto
<1>5. HeadOf(it) = (base \o FlattenSeq(ls)) \o CRLF
  BY HeadParts
<1>6. \A k \in 1..n : ls[k] \in Seq(Piece)
  BY <1>1, ElementOfSeq
<1>7. /\ <<>> \o (LineOf(it) \o CRLF) = base
      /\ <<>> \o CRLF = CRLF
  <2>1. <<>> \o CRLF = CRLF
    BY CRLFFacts, ConcatEmptySeq
  <2> QED
    BY <1>3, <2>1
<1>8. LineOf(it) \o CRLF = base
  OBVIOUS
<1>11. LineOf(it) \in Seq(Lineless) /\ LineOf(it) \in Seq(Piece)
  BY <1>2
<1> HIDE DEF ls, base, l
<1>9. /\ SubSeq(ls, 1, 0) = <<>> /\ SubSeq(ls, 1, n) = ls
      /\ \A k \in Nat : k < n => /\ SubSeq(ls, 1, k) \in Seq(Seq(Piece))
                                 /\ SubSeq(ls, 1, k + 1) = Append(SubSeq(ls, 1, k), ls[k + 1])
  <2> DEFINE S == Seq(Piece)
  <2>1. ls \in Seq(S)
    BY <1>1
  <2> HIDE DEF S
  <2>2. SubSeq(ls, 1, 0) = <<>>
    BY SubSeqEmpty
  <2>3. SubSeq(ls, 1, n) = ls
    BY <1>1, <2>1
  <2>4. ASSUME NEW k \in Nat, k < n
        PROVE  /\ SubSeq(ls, 1, k) \in Seq(S)
               /\ SubSeq(ls, 1, k + 1) = Append(SubSeq(ls, 1, k), ls[k + 1])
    <3> DEFINE u == SubSeq(ls, 1, k)
               v == SubSeq(ls, 1, k + 1)
    <3>1. u \in Seq(S) /\ Len(u) = k /\ \A i \in 1..k : u[i] = ls[i]
      BY <1>1, <2>1, <2>4, SubSeqFacts
    <3>2. v \in Seq(S) /\ Len(v) = k + 1 /\ \A i \in 1..(k + 1) : v[i] = ls[i]
      BY <1>1, <2>1, <2>4, SubSeqFacts
    <3>3. ls[k + 1] \in S
      BY <1>1, <2>1, <2>4, ElementOfSeq
    <3> HIDE DEF u, v
    <3> DEFINE x == ls[k + 1]
               w == Append(u, x)
    <3>4. w \in Seq(S) /\ Len(w) = k + 1 /\ w[k + 1] = x /\ \A i \in 1..k : w[i] = u[i]
      <4> HIDE DEF x
      <4> QED
        BY <3>1, <3>3, AppendProperties DEF x
    <3> HIDE DEF w
    <3>5. \A i \in 1..(k + 1) : v[i] = w[i]
      BY <3>1, <3>2, <3>4
    <3>6. v = w
      BY <3>2, <3>4, <3>5, SeqEqual
    <3> QED
      BY <3>1, <3>6 DEF u, v, w, x
  <2> QED
    BY <2>2, <2>3, <2>4 DEF S
<1>10. ASSUME NEW k \in Nat, k < n
       PROVE  Upto(it, k + 1) = Upto(it, k) \o (ContentOf(it.fields[k + 1]) \o CRLF)
  <2> DEFINE x == ls[k + 1]
             u == SubSeq(ls, 1, k)
  <2>1. x \in Seq(Piece) /\ x = ContentOf(it.fields[k + 1]) \o CRLF /\ u \in Seq(Seq(Piece))
    BY <1>1, <1>6, <1>9, <1>10
  <2>2. FlattenSeq(Append(u, x)) = FlattenSeq(u) \o x /\ FlattenSeq(u) \in Seq(Piece)
    <3> HIDE DEF x, u
    <3> QED
      BY <2>1, FlattenFacts
  <2>3. base \o (FlattenSeq(u) \o x) = (base \o FlattenSeq(u)) \o x
    <3> DEFINE v == FlattenSeq(u)
    <3>1. v \in Seq(Piece) /\ base \in Seq(Piece) /\ x \in Seq(Piece)
      BY <1>3, <2>1, <2>2
    <3> HIDE DEF x, u, v
    <3>2. base \o (v \o x) = (base \o v) \o x
      BY <3>1, ConcatAssociative
    <3> QED
      BY <3>2 DEF v
  <2>4. SubSeq(ls, 1, k + 1) = Append(u, x)
    BY <1>9, <1>10
  <2> QED
    BY <1>4, <2>1, <2>2, <2>3, <2>4
<1>12. Upto(it, 0) = base
  <2>1. <<>> \in Seq(Seq(Piece))
    BY EmptySeq
  <2>2. FlattenSeq(<<>>) = <<>>
    BY DEF FlattenSeq
  <2> QED
    BY <1>3, <1>4, <1>9, <2>2
<1>13. HeadOf(it) = Upto(it, n) \o (<<>> \o CRLF)
  BY <1>4, <1>5, <1>7, <1>9
<1>14. base \in Seq(Piece)
  BY <1>3
<1> QED
  BY <1>7, <1>8, <1>10, <1>11, <1>12, <1>13, <1>14

\* A blank line is four pieces.
LEMMA CRLFSeq == CRLF \o CRLF \in Seq(Piece) /\ Len(CRLF \o CRLF) = 4
<1>1. CRLF \in Seq(Piece) /\ Len(CRLF) = 2
  BY CRLFFacts
<1> DEFINE p == CRLF
<1>2. p \in Seq(Piece) /\ Len(p) = 2
  BY <1>1
<1> HIDE DEF p
<1>3. p \o p \in Seq(Piece) /\ Len(p \o p) = Len(p) + Len(p)
  BY <1>2, ConcatProperties
<1> QED
  BY <1>2, <1>3 DEF p

\* Line ends of a head are where its lines end, at least three pieces apart.
LEMMA HeadShape ==
  ASSUME NEW it \in Intent, Unbroken(it)
  PROVE  \A k \in 0..Len(it.fields) :
           /\ Upto(it, k) \in Seq(Piece) /\ Sane(Upto(it, k))
           /\ Len(Upto(it, k)) \in Nat /\ Len(Upto(it, k)) >= 2
           /\ Ends(Upto(it, k)) = {Len(Upto(it, j)) - 1 : j \in 0..k}
           /\ \A j \in 0..k :
                /\ j < k => Len(Upto(it, j)) + 3 <= Len(Upto(it, k))
                /\ \A i \in 1..Len(Upto(it, j)) : Upto(it, k)[i] = Upto(it, j)[i]
<1> DEFINE n == Len(it.fields)
           U(k) == Upto(it, k)
           c(k) == ContentOf(it.fields[k])
<1>1. /\ n \in Nat
      /\ \A k \in 1..n : c(k) \in Seq(Lineless) /\ c(k) \in Seq(Piece)
                         /\ Len(c(k)) \in Nat /\ Len(c(k)) >= 1
  BY LinesTyped
<1>2. /\ U(0) = <<>> \o (LineOf(it) \o CRLF)
      /\ \A k \in Nat : k < n => U(k + 1) = U(k) \o (c(k + 1) \o CRLF)
      /\ LineOf(it) \in Seq(Lineless)
  BY UptoGrows
<1> HIDE DEF n, U, c
<1> DEFINE P(k) ==
             /\ U(k) \in Seq(Piece) /\ Sane(U(k))
             /\ Len(U(k)) \in Nat /\ Len(U(k)) >= 2
             /\ Ends(U(k)) = {Len(U(j)) - 1 : j \in 0..k}
             /\ \A j \in 0..k :
                  /\ j < k => Len(U(j)) + 3 <= Len(U(k))
                  /\ Len(U(j)) \in Nat /\ Len(U(j)) <= Len(U(k))
                  /\ \A i \in 1..Len(U(j)) : U(k)[i] = U(j)[i]
           Good == {k \in Nat : k <= n => P(k)}
<1>3. 0 \in Good
  <2> DEFINE e == <<>>
             l == LineOf(it)
             u == e \o (l \o CRLF)
  <2>1. e \in Seq(Piece) /\ Len(e) = 0
    BY EmptySeq
  <2>2. Sane(e) /\ Ends(e) = {}
    BY <2>1 DEF Sane, Ends
  <2>3. l \in Seq(Lineless)
    BY <1>2
  <2> HIDE DEF e, l
  <2>4. /\ u \in Seq(Piece) /\ Sane(u)
        /\ Len(u) = Len(e) + Len(l) + 2
        /\ Ends(u) = Ends(e) \cup {Len(e) + Len(l) + 1}
    BY <2>1, <2>2, <2>3, LineAdded
  <2>5. Len(l) \in Nat
    BY <2>3, LenProperties
  <2>6. U(0) = u
    BY <1>2 DEF e, l
  <2> HIDE DEF u
  <2>7. Len(u) \in Nat /\ Len(u) >= 2 /\ Ends(u) = {Len(u) - 1}
    BY <2>1, <2>2, <2>4, <2>5
  <2>8. \A j : j \in 0..0 <=> j = 0
    OBVIOUS
  <2>9. {Len(U(j)) - 1 : j \in 0..0} = {Len(u) - 1}
    BY <2>6, <2>8
  <2> QED
    BY <2>4, <2>6, <2>7, <2>8, <2>9
<1>4. ASSUME NEW k \in Nat, k \in Good
      PROVE  k + 1 \in Good
  <2> SUFFICES ASSUME k + 1 <= n
               PROVE  P(k + 1)
    OBVIOUS
  <2>1. P(k) /\ k \in Nat /\ k < n /\ k + 1 \in 1..n
    BY <1>1, <1>4
  <2> DEFINE x == c(k + 1)
             s == U(k)
             t == s \o (x \o CRLF)
  <2>2. x \in Seq(Lineless) /\ Len(x) \in Nat /\ Len(x) >= 1
    BY <1>1, <2>1
  <2>3. s \in Seq(Piece) /\ Sane(s) /\ Len(s) \in Nat
    BY <2>1
  <2>4. U(k + 1) = t
    BY <1>2, <2>1
  <2> HIDE DEF x, s
  <2>5. /\ t \in Seq(Piece) /\ Sane(t)
        /\ Len(t) = Len(s) + Len(x) + 2
        /\ Ends(t) = Ends(s) \cup {Len(s) + Len(x) + 1}
        /\ \A i \in 1..Len(s) : t[i] = s[i]
    BY <2>2, <2>3, LineAdded
  <2> HIDE DEF t
  <2>6. Len(t) \in Nat /\ Len(t) >= Len(s) + 3 /\ Len(s) + Len(x) + 1 = Len(t) - 1
    BY <2>2, <2>3, <2>5
  <2>7. Ends(s) = {Len(U(j)) - 1 : j \in 0..k}
    BY <2>1 DEF s
  <2>8. \A j : j \in 0..(k + 1) <=> j \in 0..k \/ j = k + 1
    BY <2>1
  <2>9. {Len(U(j)) - 1 : j \in 0..(k + 1)} = {Len(U(j)) - 1 : j \in 0..k} \cup {Len(t) - 1}
    BY <2>4, <2>8
  <2>10. Ends(t) = {Len(U(j)) - 1 : j \in 0..(k + 1)}
    BY <2>5, <2>6, <2>7, <2>9
  <2>11. \A j \in 0..k : /\ Len(U(j)) \in Nat /\ Len(U(j)) <= Len(s)
                         /\ \A i \in 1..Len(U(j)) : s[i] = U(j)[i]
    BY <2>1 DEF s
  <2>12. ASSUME NEW j \in 0..k
         PROVE  /\ Len(U(j)) + 3 <= Len(t) /\ Len(U(j)) \in Nat /\ Len(U(j)) <= Len(t)
                /\ \A i \in 1..Len(U(j)) : t[i] = U(j)[i]
    <3>1. Len(U(j)) \in Nat /\ Len(U(j)) <= Len(s) /\ \A i \in 1..Len(U(j)) : s[i] = U(j)[i]
      BY <2>11
    <3>2. \A i \in 1..Len(U(j)) : i \in 1..Len(s)
      BY <2>3, <3>1
    <3> QED
      BY <2>3, <2>5, <2>6, <3>1, <3>2
  <2>13. Len(s) >= 2
    BY <2>1 DEF s
  <2>14. Len(t) >= 2
    BY <2>3, <2>6, <2>13
  <2>15. ~(k + 1 < k + 1) /\ Len(t) <= Len(t)
    BY <2>1, <2>6
  <2>16. ASSUME NEW j \in 0..(k + 1)
         PROVE  /\ j < k + 1 => Len(U(j)) + 3 <= Len(t)
                /\ Len(U(j)) \in Nat /\ Len(U(j)) <= Len(t)
                /\ \A i \in 1..Len(U(j)) : t[i] = U(j)[i]
    <3>1. CASE j \in 0..k
      BY <2>12, <3>1
    <3>2. CASE j = k + 1
      BY <2>4, <2>6, <2>15, <3>2
    <3> QED
      BY <2>8, <3>1, <3>2
  <2> QED
    BY <2>4, <2>5, <2>6, <2>10, <2>14, <2>16
<1>5. \A k \in Nat : k \in Good
  <2> HIDE DEF Good
  <2> QED
    BY <1>3, <1>4, Induction
<1>6. \A k \in 0..n : P(k)
  BY <1>1, <1>5
<1> QED
  BY <1>6 DEF U, n

\* The whole head: its last line is empty, and no other is.
LEMMA WholeHead ==
  ASSUME NEW it \in Intent, Unbroken(it)
  PROVE  /\ HeadOf(it) \in Seq(Piece) /\ Sane(HeadOf(it)) /\ Len(HeadOf(it)) \in Nat
         /\ Len(HeadOf(it)) = Len(Upto(it, Len(it.fields))) + 2
         /\ Len(HeadOf(it)) >= 4
         /\ Ends(HeadOf(it)) = {Len(Upto(it, j)) - 1 : j \in 0..Len(it.fields)}
                                 \cup {Len(HeadOf(it)) - 1}
         /\ \A j \in 0..Len(it.fields) : \A i \in 1..Len(Upto(it, j)) :
              HeadOf(it)[i] = Upto(it, j)[i]
         /\ Occurrences(CRLF \o CRLF, HeadOf(it)) = {Len(HeadOf(it)) - 3}
<1> DEFINE n == Len(it.fields)
           U(k) == Upto(it, k)
           e == <<>>
           s == U(n)
           h == HeadOf(it)
<1>1. n \in Nat
  BY LinesTyped
<1>2. \A k \in 0..n : /\ U(k) \in Seq(Piece) /\ Sane(U(k)) /\ Len(U(k)) \in Nat /\ Len(U(k)) >= 2
                      /\ Ends(U(k)) = {Len(U(j)) - 1 : j \in 0..k}
                      /\ \A j \in 0..k :
                          /\ j < k => Len(U(j)) + 3 <= Len(U(k))
                          /\ \A i \in 1..Len(U(j)) : U(k)[i] = U(j)[i]
  BY HeadShape
<1>3. h = s \o (e \o CRLF)
  BY UptoGrows
<1>4. e \in Seq(Lineless) /\ Len(e) = 0
  BY EmptySeq
<1> HIDE DEF U, h, e, n
<1>5. n \in 0..n
  BY <1>1
<1>6. /\ s \in Seq(Piece) /\ Sane(s) /\ Len(s) \in Nat /\ Len(s) >= 2
      /\ Ends(s) = {Len(U(j)) - 1 : j \in 0..n}
      /\ \A j \in 0..n :
           /\ j < n => Len(U(j)) + 3 <= Len(s)
           /\ \A i \in 1..Len(U(j)) : s[i] = U(j)[i]
  BY <1>2, <1>5
<1>7. s = U(n)
  OBVIOUS
<1> HIDE DEF s
<1>8. /\ h \in Seq(Piece) /\ Sane(h) /\ Len(h) = Len(s) + Len(e) + 2
      /\ Ends(h) = Ends(s) \cup {Len(s) + Len(e) + 1}
      /\ \A i \in 1..Len(s) : h[i] = s[i]
  <2> DEFINE t == s \o (e \o CRLF)
  <2>1. /\ t \in Seq(Piece) /\ Sane(t) /\ Len(t) = Len(s) + Len(e) + 2
        /\ Ends(t) = Ends(s) \cup {Len(s) + Len(e) + 1}
        /\ \A i \in 1..Len(s) : t[i] = s[i]
    BY <1>4, <1>6, LineAdded
  <2>2. h = t
    BY <1>3
  <2> HIDE DEF t
  <2> QED
    BY <2>1, <2>2
<1>9. Len(h) = Len(s) + 2 /\ Len(h) \in Nat /\ Len(h) >= 4 /\ Len(s) + Len(e) + 1 = Len(h) - 1
  BY <1>4, <1>6, <1>8
<1>10. Ends(h) = {Len(U(j)) - 1 : j \in 0..n} \cup {Len(h) - 1}
  BY <1>6, <1>8, <1>9
<1>11. \A j \in 0..n : Len(U(j)) \in Nat /\ Len(U(j)) <= Len(s) /\ Len(U(j)) >= 2
                       /\ (j # n => Len(U(j)) + 3 <= Len(s))
  <2> SUFFICES ASSUME NEW j \in 0..n
               PROVE  Len(U(j)) \in Nat /\ Len(U(j)) <= Len(s) /\ Len(U(j)) >= 2
                       /\ (j # n => Len(U(j)) + 3 <= Len(s))
    OBVIOUS
  <2>1. Len(U(j)) \in Nat /\ Len(U(j)) >= 2
    BY <1>2
  <2>2. CASE j = n
    BY <1>6, <1>7, <2>1, <2>2
  <2>3. CASE j # n
    <3>1. j < n
      BY <1>1, <2>3
    <3>2. Len(U(j)) + 3 <= Len(s)
      BY <1>6, <3>1
    <3> QED
      BY <1>6, <2>1, <3>2
  <2> QED
    BY <2>2, <2>3
<1>12. \A j \in 0..n : \A i \in 1..Len(U(j)) : h[i] = U(j)[i]
  <2> SUFFICES ASSUME NEW j \in 0..n, NEW i \in 1..Len(U(j))
               PROVE  h[i] = U(j)[i]
    OBVIOUS
  <2>1. i \in 1..Len(s)
    BY <1>6, <1>11
  <2> QED
    BY <1>6, <1>8, <2>1
<1>13. \A i : i \in Occurrences(CRLF \o CRLF, h) <=> i \in Ends(h) /\ i + 2 \in Ends(h)
  BY <1>8, EndsOccur
<1>14. Len(h) - 3 \in Ends(h) /\ (Len(h) - 3) + 2 \in Ends(h)
  <2>1. Len(h) - 3 = Len(U(n)) - 1 /\ (Len(h) - 3) + 2 = Len(h) - 1
    BY <1>6, <1>7, <1>9
  <2> QED
    BY <1>5, <1>10, <2>1
<1>15. ASSUME NEW i \in Ends(h), i + 2 \in Ends(h)
       PROVE  i = Len(h) - 3
  <2>1. ASSUME NEW j \in 0..n, NEW m \in 0..n, i = Len(U(j)) - 1, i + 2 = Len(U(m)) - 1
        PROVE  FALSE
    <3>1. /\ Len(U(j)) \in Nat /\ Len(U(m)) \in Nat
          /\ j < m => Len(U(j)) + 3 <= Len(U(m))
          /\ m < j => Len(U(m)) + 3 <= Len(U(j))
      <4>1. j \in 0..n /\ m \in 0..n /\ (j < m => j \in 0..m) /\ (m < j => m \in 0..j)
        BY <1>1
      <4> QED
        BY <1>2, <4>1
    <3>2. j < m \/ m < j \/ j = m
      BY <1>1
    <3>3. Len(U(m)) = Len(U(j)) + 2
      BY <2>1, <3>1
    <3> QED
      BY <3>1, <3>2, <3>3
  <2>2. ASSUME NEW m \in 0..n, i = Len(h) - 1, i + 2 = Len(U(m)) - 1
        PROVE  FALSE
    BY <1>9, <1>6, <1>11, <2>2
  <2>3. ASSUME i = Len(h) - 1, i + 2 = Len(h) - 1
        PROVE  FALSE
    BY <1>9, <2>3
  <2>4. ASSUME NEW j \in 0..n, i = Len(U(j)) - 1, i + 2 = Len(h) - 1
        PROVE  i = Len(h) - 3
    BY <1>9, <1>11, <2>4
  <2>5. (\E j \in 0..n : i = Len(U(j)) - 1) \/ i = Len(h) - 1
    BY <1>10
  <2>6. (\E j \in 0..n : i + 2 = Len(U(j)) - 1) \/ i + 2 = Len(h) - 1
    BY <1>10, <1>15
  <2> QED
    BY <2>1, <2>2, <2>3, <2>4, <2>5, <2>6
<1>16. Occurrences(CRLF \o CRLF, h) = {Len(h) - 3}
  BY <1>13, <1>14, <1>15
<1> QED
  BY <1>7, <1>8, <1>9, <1>10, <1>12, <1>16 DEF U, h, n

\* The blank line is in what was received as soon as the head is.
LEMMA BlankLineFound ==
  ASSUME NEW it \in Intent, Unbroken(it), NEW t \in 0..Len(HeadOf(it) \o it.body)
  PROVE  LET s == SubSeq(HeadOf(it) \o it.body, 1, t) IN
         /\ HeadOf(it) \o it.body \in Seq(Piece)
         /\ Len(HeadOf(it) \o it.body) = Len(HeadOf(it)) + Len(it.body)
         /\ s \in Seq(Piece) /\ Len(s) = t
         /\ Found(CRLF \o CRLF, s) <=> t >= Len(HeadOf(it))
         /\ Found(CRLF \o CRLF, s) => /\ Find(CRLF \o CRLF, s) = Len(HeadOf(it)) - 3
                                      /\ SubSeq(s, 1, Len(HeadOf(it))) = HeadOf(it)
<1> DEFINE h == HeadOf(it)
           b == it.body
           m == h \o b
           s == SubSeq(m, 1, t)
           p == CRLF \o CRLF
<1>1. h \in Seq(Piece) /\ Len(h) \in Nat /\ Len(h) >= 4 /\ Occurrences(p, h) = {Len(h) - 3}
  BY WholeHead
<1>2. b \in Seq(Piece)
  BY DEF Intent, Texts
<1>3. p \in Seq(Piece) /\ Len(p) = 4
  BY CRLFSeq
<1>4. t \in 0..Len(m)
  OBVIOUS
<1> HIDE DEF h, b, p
<1>5. /\ m \in Seq(Piece) /\ Len(m) = Len(h) + Len(b) /\ SubSeq(m, 1, Len(h)) = h
  BY <1>1, <1>2, FrontOfConcat
<1>6. Len(b) \in Nat /\ Len(m) \in Nat /\ t \in Nat
  BY <1>2, <1>4, <1>5, LenProperties
<1> HIDE DEF m
<1>7. s \in Seq(Piece) /\ Len(s) = t /\ \A i \in 1..t : s[i] = m[i]
  <2> DEFINE one == 1
  <2>1. /\ SubSeq(m, 1, t) \in Seq(Piece)
        /\ Len(SubSeq(m, 1, t)) = IF 1 <= t THEN t - 1 + 1 ELSE 0
        /\ \A i \in 1..(t - 1 + 1) : SubSeq(m, 1, t)[i] = m[1 + i - 1]
    BY <1>4, <1>5, <1>6, SubSeqFacts
  <2> QED
    BY <1>6, <2>1
<1>8. \A i \in 1..Len(h) : i \in 1..Len(m) /\ h[i] = m[i]
  <2> DEFINE g == SubSeq(m, 1, Len(h))
  <2>1. Len(h) <= Len(m) /\ 1 \in Nat /\ 1 >= 1
    BY <1>1, <1>5, <1>6
  <2>2. \A i \in 1..(Len(h) - 1 + 1) : g[i] = m[1 + i - 1]
    BY <1>1, <1>5, <2>1, SubSeqFacts
  <2>3. g = h
    BY <1>5
  <2> HIDE DEF g
  <2> QED
    BY <1>1, <2>1, <2>2, <2>3
<1> HIDE DEF s
<1>9. \A i : i \in Occurrences(p, h) <=>
              /\ i \in Nat /\ 1 <= i /\ i + 4 <= Len(h) + 1
              /\ \A k \in 1..4 : h[i + k - 1] = p[k]
  <2>1. \A i : i \in Occurrences(p, h) <=>
              /\ i \in Nat /\ 1 <= i /\ i + Len(p) <= Len(h) + 1
              /\ \A k \in 1..Len(p) : h[i + k - 1] = p[k]
    BY <1>1, <1>3, OccurrenceFacts
  <2> QED
    BY <1>3, <2>1
<1>10. \A i : i \in Occurrences(p, s) <=>
              /\ i \in Nat /\ 1 <= i /\ i + 4 <= t + 1
              /\ \A k \in 1..4 : s[i + k - 1] = p[k]
  <2>1. \A i : i \in Occurrences(p, s) <=>
              /\ i \in Nat /\ 1 <= i /\ i + Len(p) <= Len(s) + 1
              /\ \A k \in 1..Len(p) : s[i + k - 1] = p[k]
    <3>1. p \in Seq(Piece) /\ s \in Seq(Piece)
      BY <1>3, <1>7
    <3> QED
      BY ONLY <3>1, OccurrenceFacts
  <2> QED
    BY <1>3, <1>7, <2>1
<1>11. ASSUME NEW i \in Nat, 1 <= i, i + 4 <= Len(h) + 1, i + 4 <= t + 1
       PROVE  i \in Occurrences(p, s) <=> i \in Occurrences(p, h)
  <2>1. ASSUME NEW k \in 1..4
        PROVE  s[i + k - 1] = h[i + k - 1]
    <3>1. i + k - 1 \in 1..Len(h) /\ i + k - 1 \in 1..t
      BY <1>1, <1>6, <1>11
    <3> QED
      BY <1>7, <1>8, <3>1
  <2> QED
    BY <1>9, <1>10, <1>11, <2>1
<1>12. ASSUME NEW i \in Occurrences(p, s)
       PROVE  i \in Nat /\ i >= Len(h) - 3 /\ t >= Len(h)
  <2>1. i \in Nat /\ 1 <= i /\ i + 4 <= t + 1
    BY <1>10
  <2>2. CASE i + 4 <= Len(h) + 1
    <3>1. i \in Occurrences(p, h)
      BY <1>11, <2>1, <2>2
    <3>2. i = Len(h) - 3
      BY <1>1, <3>1
    <3> QED
      BY <1>1, <1>6, <2>1, <3>2
  <2>3. CASE ~(i + 4 <= Len(h) + 1)
    BY <1>1, <1>6, <2>1, <2>3
  <2> QED
    BY <2>2, <2>3
<1>13. ASSUME t >= Len(h)
       PROVE  Len(h) - 3 \in Occurrences(p, s)
  <2>1. Len(h) - 3 \in Nat /\ 1 <= Len(h) - 3 /\ (Len(h) - 3) + 4 <= Len(h) + 1 /\ (Len(h) - 3) + 4 <= t + 1
    BY <1>1, <1>6, <1>13
  <2>2. Len(h) - 3 \in Occurrences(p, h)
    BY <1>1
  <2> QED
    BY <1>11, <2>1, <2>2
<1>14. ASSUME t >= Len(h)
       PROVE  Found(p, s) /\ Find(p, s) = Len(h) - 3
  <2>1. Len(h) - 3 \in Occurrences(p, s)
    BY <1>13, <1>14
  <2>2. \A i \in Occurrences(p, s) : Len(h) - 3 <= i
    BY <1>1, <1>12
  <2> QED
    BY <1>3, <1>7, <2>1, <2>2, FoundAt
<1>15. Found(p, s) <=> t >= Len(h)
  BY <1>12, <1>14 DEF Found
<1>16. ASSUME t >= Len(h)
       PROVE  SubSeq(s, 1, Len(h)) = h
  <2>1. Len(h) \in 0..t
    BY <1>1, <1>6, <1>16
  <2>2. SubSeq(SubSeq(m, 1, t), 1, Len(h)) = SubSeq(m, 1, Len(h))
    BY <1>4, <1>5, <2>1, FrontOfFront
  <2> QED
    BY <1>5, <2>2 DEF s
<1> QED
  BY <1>5, <1>7, <1>14, <1>15, <1>16 DEF s, m, h, b, p

----------------------------------------------------------------------------
(* Folds of the parser, and its maps.                                      *)

\* The first i places, without the last of them.
LEMMA FirstPlaces ==
  ASSUME NEW n \in Nat
  PROVE  \A i \in 1..n : /\ 1..i \in SUBSET (1..n) /\ 1..i # {} /\ Max(1..i) = i
                         /\ (1..i) \ {i} = 1..(i - 1)
<1> SUFFICES ASSUME NEW i \in 1..n
             PROVE  /\ 1..i \in SUBSET (1..n) /\ 1..i # {} /\ Max(1..i) = i
                    /\ (1..i) \ {i} = 1..(i - 1)
  OBVIOUS
<1>1. i - 1 \in Nat /\ (i - 1) + 1 = i /\ i \in 1..i
  OBVIOUS
<1> DEFINE p == i - 1
<1>2. p \in Nat /\ p + 1 = i
  BY <1>1
<1> HIDE DEF p
<1>3. \A s \in SUBSET (1..(p + 1)) : p + 1 \in s => Max(s) = p + 1
  BY <1>2, MaxOfPlaces
<1>4. Max(1..i) = i
  BY <1>1, <1>2, <1>3
<1> QED
  BY <1>1, <1>4

\* What starts in K and stays in it step by step.
LEMMA StepsStay ==
  ASSUME NEW K, NEW n \in Nat, NEW g, g[0] \in K,
         \A i \in 1..n : g[i - 1] \in K => g[i] \in K
  PROVE  \A i \in 0..n : g[i] \in K
<1> DEFINE Good == {i \in Nat : i <= n => g[i] \in K}
<1>1. 0 \in Good
  OBVIOUS
<1>2. ASSUME NEW i \in Nat, i \in Good
      PROVE  i + 1 \in Good
  <2> SUFFICES ASSUME i + 1 <= n PROVE g[i + 1] \in K
    OBVIOUS
  <2>1. g[i] \in K /\ i + 1 \in 1..n /\ (i + 1) - 1 = i
    BY <1>2
  <2> QED
    BY <2>1
<1> HIDE DEF Good
<1>3. \A i \in Nat : i \in Good
  BY <1>1, <1>2, Induction
<1> QED
  BY <1>3 DEF Good

\* The steps of a fold, one for each member.
HeaderSteps(g, base, t) ==
  /\ g[0] = base
  /\ \A i \in 1..Len(t) : g[i] = ParseHeader(g[i - 1], t[i])
  /\ g[Len(t)] = FoldLeft(ParseHeader, base, t)
QuerySteps(g, base, t) ==
  /\ g[0] = base
  /\ \A i \in 1..Len(t) : g[i] = PutQuery(g[i - 1], t[i])
  /\ g[Len(t)] = FoldLeft(PutQuery, base, t)
EntrySteps(g, base, t) ==
  /\ g[0] = base
  /\ \A i \in 1..Len(t) : g[i] = PutEntry(g[i - 1], t[i])
  /\ g[Len(t)] = FoldLeft(PutEntry, base, t)

\* Folding with ParseHeader stays in K if each step does, and goes header by header.
LEMMA HeaderFolds ==
  ASSUME NEW K, NEW E, NEW base \in K, NEW t \in Seq(E), \A k \in K, x \in E : ParseHeader(k, x) \in K
  PROVE  \E g : HeaderSteps(g, base, t)
<1> DEFINE F == [p \in K \X E |-> ParseHeader(p[1], p[2])]
           D == SUBSET (DOMAIN t)
           Over(u) == u = [s \in SUBSET (DOMAIN t) |->
                             IF s = {} THEN base ELSE ParseHeader(u[s \ {Max(s)}], t[Max(s)])]
           f == CHOOSE u : Over(u)
           g == [i \in 0..Len(t) |-> f[1..i]]
<1>1. FoldLeft(ParseHeader, base, t) = f[DOMAIN t]
  BY DEF FoldLeft, MapThenFoldSet
<1>2. FoldsInto(F, K, E) /\ \A k \in K, x \in E : F[<<k, x>>] = ParseHeader(k, x)
  BY DEF FoldsInto
<1> HIDE DEF F
<1>3. Len(t) \in Nat /\ DOMAIN t = 1..Len(t) /\ \A i \in 1..Len(t) : t[i] \in E
  BY LenProperties, ElementOfSeq
<1>4. PICK h \in [D -> K] : FoldsOver(h, F, base, t, DOMAIN t)
  BY <1>2, FoldExists
<1>5. \A s \in D : s # {} => Max(s) \in DOMAIN t /\ s \ {Max(s)} \in D /\ t[Max(s)] \in E
  BY <1>3, MaxOfPlaces
<1>6. ASSUME NEW s \in D
      PROVE  h[s] = IF s = {} THEN base ELSE ParseHeader(h[s \ {Max(s)}], t[Max(s)])
  <2>1. h[s] = IF s = {} THEN base ELSE F[<<h[s \ {Max(s)}], t[Max(s)]>>]
    BY <1>4 DEF FoldsOver
  <2> QED
    BY <1>2, <1>4, <1>5, <2>1
<1>7. Over(h)
  <2>1. h = [s \in D |-> h[s]]
    BY <1>4
  <2> QED
    BY <1>6, <2>1
<1>8. Over(f)
  BY <1>7
<1> HIDE DEF f
<1>9. \A s \in D : f[s] = IF s = {} THEN base ELSE ParseHeader(f[s \ {Max(s)}], t[Max(s)])
  BY <1>8
<1>10. g[0] = base
  <2>1. 1..0 = {} /\ {} \in D /\ 0 \in 0..Len(t)
    BY <1>3
  <2> QED
    BY <1>9, <2>1
<1>11. ASSUME NEW i \in 1..Len(t)
       PROVE  g[i] = ParseHeader(g[i - 1], t[i])
  <2>1. /\ 1..i \in D /\ 1..i # {} /\ Max(1..i) = i /\ (1..i) \ {i} = 1..(i - 1)
        /\ i \in 0..Len(t) /\ i - 1 \in 0..Len(t)
    BY <1>3, FirstPlaces
  <2>2. g[i] = f[1..i] /\ g[i - 1] = f[1..(i - 1)]
    BY <2>1
  <2>3. f[1..i] = ParseHeader(f[(1..i) \ {Max(1..i)}], t[Max(1..i)])
    BY <1>9, <2>1
  <2> HIDE DEF g
  <2> QED
    BY <2>1, <2>2, <2>3
<1>12. g[Len(t)] = FoldLeft(ParseHeader, base, t)
  BY <1>1, <1>3
<1> HIDE DEF g
<1> QED
  BY <1>10, <1>11, <1>12 DEF HeaderSteps

\* Folding with PutQuery does the same, pair by pair.
LEMMA QueryFolds ==
  ASSUME NEW K, NEW E, NEW base \in K, NEW t \in Seq(E), \A k \in K, x \in E : PutQuery(k, x) \in K
  PROVE  \E g : QuerySteps(g, base, t)
<1> DEFINE F == [p \in K \X E |-> PutQuery(p[1], p[2])]
           D == SUBSET (DOMAIN t)
           Over(u) == u = [s \in SUBSET (DOMAIN t) |->
                             IF s = {} THEN base ELSE PutQuery(u[s \ {Max(s)}], t[Max(s)])]
           f == CHOOSE u : Over(u)
           g == [i \in 0..Len(t) |-> f[1..i]]
<1>1. FoldLeft(PutQuery, base, t) = f[DOMAIN t]
  BY DEF FoldLeft, MapThenFoldSet
<1>2. FoldsInto(F, K, E) /\ \A k \in K, x \in E : F[<<k, x>>] = PutQuery(k, x)
  BY DEF FoldsInto
<1> HIDE DEF F
<1>3. Len(t) \in Nat /\ DOMAIN t = 1..Len(t) /\ \A i \in 1..Len(t) : t[i] \in E
  BY LenProperties, ElementOfSeq
<1>4. PICK h \in [D -> K] : FoldsOver(h, F, base, t, DOMAIN t)
  BY <1>2, FoldExists
<1>5. \A s \in D : s # {} => Max(s) \in DOMAIN t /\ s \ {Max(s)} \in D /\ t[Max(s)] \in E
  BY <1>3, MaxOfPlaces
<1>6. ASSUME NEW s \in D
      PROVE  h[s] = IF s = {} THEN base ELSE PutQuery(h[s \ {Max(s)}], t[Max(s)])
  <2>1. h[s] = IF s = {} THEN base ELSE F[<<h[s \ {Max(s)}], t[Max(s)]>>]
    BY <1>4 DEF FoldsOver
  <2> QED
    BY <1>2, <1>4, <1>5, <2>1
<1>7. Over(h)
  <2>1. h = [s \in D |-> h[s]]
    BY <1>4
  <2> QED
    BY <1>6, <2>1
<1>8. Over(f)
  BY <1>7
<1> HIDE DEF f
<1>9. \A s \in D : f[s] = IF s = {} THEN base ELSE PutQuery(f[s \ {Max(s)}], t[Max(s)])
  BY <1>8
<1>10. g[0] = base
  <2>1. 1..0 = {} /\ {} \in D /\ 0 \in 0..Len(t)
    BY <1>3
  <2> QED
    BY <1>9, <2>1
<1>11. ASSUME NEW i \in 1..Len(t)
       PROVE  g[i] = PutQuery(g[i - 1], t[i])
  <2>1. /\ 1..i \in D /\ 1..i # {} /\ Max(1..i) = i /\ (1..i) \ {i} = 1..(i - 1)
        /\ i \in 0..Len(t) /\ i - 1 \in 0..Len(t)
    BY <1>3, FirstPlaces
  <2>2. g[i] = f[1..i] /\ g[i - 1] = f[1..(i - 1)]
    BY <2>1
  <2>3. f[1..i] = PutQuery(f[(1..i) \ {Max(1..i)}], t[Max(1..i)])
    BY <1>9, <2>1
  <2> HIDE DEF g
  <2> QED
    BY <2>1, <2>2, <2>3
<1>12. g[Len(t)] = FoldLeft(PutQuery, base, t)
  BY <1>1, <1>3
<1> HIDE DEF g
<1> QED
  BY <1>10, <1>11, <1>12 DEF QuerySteps

\* Folding with PutEntry does the same, entry by entry.
LEMMA EntryFolds ==
  ASSUME NEW K, NEW E, NEW base \in K, NEW t \in Seq(E), \A k \in K, x \in E : PutEntry(k, x) \in K
  PROVE  \E g : EntrySteps(g, base, t)
<1> DEFINE F == [p \in K \X E |-> PutEntry(p[1], p[2])]
           D == SUBSET (DOMAIN t)
           Over(u) == u = [s \in SUBSET (DOMAIN t) |->
                             IF s = {} THEN base ELSE PutEntry(u[s \ {Max(s)}], t[Max(s)])]
           f == CHOOSE u : Over(u)
           g == [i \in 0..Len(t) |-> f[1..i]]
<1>1. FoldLeft(PutEntry, base, t) = f[DOMAIN t]
  BY DEF FoldLeft, MapThenFoldSet
<1>2. FoldsInto(F, K, E) /\ \A k \in K, x \in E : F[<<k, x>>] = PutEntry(k, x)
  BY DEF FoldsInto
<1> HIDE DEF F
<1>3. Len(t) \in Nat /\ DOMAIN t = 1..Len(t) /\ \A i \in 1..Len(t) : t[i] \in E
  BY LenProperties, ElementOfSeq
<1>4. PICK h \in [D -> K] : FoldsOver(h, F, base, t, DOMAIN t)
  BY <1>2, FoldExists
<1>5. \A s \in D : s # {} => Max(s) \in DOMAIN t /\ s \ {Max(s)} \in D /\ t[Max(s)] \in E
  BY <1>3, MaxOfPlaces
<1>6. ASSUME NEW s \in D
      PROVE  h[s] = IF s = {} THEN base ELSE PutEntry(h[s \ {Max(s)}], t[Max(s)])
  <2>1. h[s] = IF s = {} THEN base ELSE F[<<h[s \ {Max(s)}], t[Max(s)]>>]
    BY <1>4 DEF FoldsOver
  <2> QED
    BY <1>2, <1>4, <1>5, <2>1
<1>7. Over(h)
  <2>1. h = [s \in D |-> h[s]]
    BY <1>4
  <2> QED
    BY <1>6, <2>1
<1>8. Over(f)
  BY <1>7
<1> HIDE DEF f
<1>9. \A s \in D : f[s] = IF s = {} THEN base ELSE PutEntry(f[s \ {Max(s)}], t[Max(s)])
  BY <1>8
<1>10. g[0] = base
  <2>1. 1..0 = {} /\ {} \in D /\ 0 \in 0..Len(t)
    BY <1>3
  <2> QED
    BY <1>9, <2>1
<1>11. ASSUME NEW i \in 1..Len(t)
       PROVE  g[i] = PutEntry(g[i - 1], t[i])
  <2>1. /\ 1..i \in D /\ 1..i # {} /\ Max(1..i) = i /\ (1..i) \ {i} = 1..(i - 1)
        /\ i \in 0..Len(t) /\ i - 1 \in 0..Len(t)
    BY <1>3, FirstPlaces
  <2>2. g[i] = f[1..i] /\ g[i - 1] = f[1..(i - 1)]
    BY <2>1
  <2>3. f[1..i] = PutEntry(f[(1..i) \ {Max(1..i)}], t[Max(1..i)])
    BY <1>9, <2>1
  <2> HIDE DEF g
  <2> QED
    BY <2>1, <2>2, <2>3
<1>12. g[Len(t)] = FoldLeft(PutEntry, base, t)
  BY <1>1, <1>3
<1> HIDE DEF g
<1> QED
  BY <1>10, <1>11, <1>12 DEF EntrySteps

\* std::map from T to T.
MapsOf(T) == UNION {[D -> T] : D \in {X \in SUBSET T : IsFiniteSet(X)}}

\* map[k] = v: a map with k, which tells v of it, and of the others what it told.
LEMMA PutValues ==
  ASSUME NEW T, NEW m \in MapsOf(T), NEW k \in T, NEW v \in T
  PROVE  /\ Put(m, k, v) \in MapsOf(T)
         /\ DOMAIN Put(m, k, v) = DOMAIN m \cup {k}
         /\ Put(m, k, v)[k] = v
         /\ \A x \in DOMAIN m : x # k => Put(m, k, v)[x] = m[x]
<1> DEFINE Finite == {X \in SUBSET T : IsFiniteSet(X)}
<1>8. \A w : w \in MapsOf(T) <=> \E D \in Finite : w \in [D -> T]
  BY DEF MapsOf
<1>9. DOMAIN m \in Finite /\ m \in [DOMAIN m -> T]
  BY <1>8
<1> DEFINE D == DOMAIN m \cup {k}
           p == Put(m, k, v)
<1>1. DOMAIN m \in SUBSET T /\ IsFiniteSet(DOMAIN m) /\ \A x \in DOMAIN m : m[x] \in T
  BY <1>9
<1>2. D \in Finite
  BY <1>1, FS_AddElement
<1>3. p = [x \in D |-> IF x = k THEN v ELSE m[x]]
  BY DEF Put
<1>4. p \in [D -> T]
  BY <1>1, <1>3
<1>5. p[k] = v /\ \A x \in DOMAIN m : x # k => p[x] = m[x]
  BY <1>3
<1> HIDE DEF p, Finite
<1>6. p \in MapsOf(T)
  <2> HIDE DEF D
  <2> QED
    BY <1>8, <1>2, <1>4
<1>7. DOMAIN p = D
  BY <1>4
<1> QED
  BY <1>5, <1>6, <1>7 DEF p

\* A map stays one.
LEMMA PutFacts ==
  ASSUME NEW T, NEW m \in MapsOf(T), NEW k \in T, NEW v \in T
  PROVE  Put(m, k, v) \in MapsOf(T)
BY PutValues

\* What a map from T to T is, and that the empty one is.
LEMMA MapFacts ==
  ASSUME NEW T
  PROVE  /\ \A m \in MapsOf(T) : /\ DOMAIN m \in SUBSET T /\ IsFiniteSet(DOMAIN m)
                                 /\ \A k \in DOMAIN m : m[k] \in T
         /\ <<>> \in MapsOf(T)
<1> DEFINE Finite == {X \in SUBSET T : IsFiniteSet(X)}
<1>0. \A m : m \in MapsOf(T) <=> \E D \in Finite : m \in [D -> T]
  BY DEF MapsOf
<1>1. ASSUME NEW m \in MapsOf(T)
      PROVE  DOMAIN m \in Finite /\ m \in [DOMAIN m -> T]
  BY <1>0, <1>1
<1>2. <<>> \in MapsOf(T)
  <2>1. {} \in Finite
    BY FS_EmptySet
  <2>2. <<>> \in [{} -> T]
    OBVIOUS
  <2> HIDE DEF Finite
  <2> QED
    BY <1>0, <2>1, <2>2
<1> QED
  BY <1>1, <1>2

\* Texts stay texts: in lower or upper case, decoded, trimmed.
LEMMA ChangedTyped ==
  ASSUME NEW s \in Texts
  PROVE  /\ ToLowerCase(s) \in Texts /\ Len(ToLowerCase(s)) = Len(s)
         /\ \A i \in 1..Len(s) :
              ToLowerCase(s)[i] = IF s[i] \in DOMAIN LowerOf THEN LowerOf[s[i]] ELSE s[i]
         /\ Changed(s, UpperOf) \in Texts
         /\ DecodeUri(s, TRUE) \in Texts /\ DecodeUri(s, FALSE) \in Texts
<1>1. /\ Len(s) \in Nat /\ DOMAIN s = 1..Len(s) /\ \A i \in 1..Len(s) : s[i] \in Piece
  BY LenProperties, ElementOfSeq DEF Texts
<1>2. /\ \A c \in DOMAIN LowerOf : LowerOf[c] \in Piece
      /\ \A c \in DOMAIN UpperOf : UpperOf[c] \in Piece
      /\ \A c \in DOMAIN DecodedOf : DecodedOf[c] \in Piece
  BY TextAssumption
<1> DEFINE n == Len(s)
<1>3. n \in Nat /\ DOMAIN s = 1..n
  BY <1>1
<1>4. ASSUME NEW f \in [1..n -> Piece]
      PROVE  f \in Seq(Piece) /\ Len(f) = n
  <2> HIDE DEF n
  <2> QED
    BY <1>3
<1>5. ToLowerCase(s) \in [1..n -> Piece]
  BY <1>1, <1>2 DEF ToLowerCase, Changed
<1>6. Changed(s, UpperOf) \in [1..n -> Piece]
  BY <1>1, <1>2 DEF Changed
<1>7. DecodeUri(s, TRUE) \in [1..n -> Piece]
  <2>1. " " \in Piece
    BY PieceFacts
  <2> QED
    BY <1>1, <1>2, <2>1 DEF DecodeUri
<1>8. DecodeUri(s, FALSE) \in [1..n -> Piece]
  <2>1. " " \in Piece
    BY PieceFacts
  <2> QED
    BY <1>1, <1>2, <2>1 DEF DecodeUri
<1>9. \A i \in 1..Len(s) :
        ToLowerCase(s)[i] = IF s[i] \in DOMAIN LowerOf THEN LowerOf[s[i]] ELSE s[i]
  BY <1>1 DEF ToLowerCase, Changed
<1> QED
  BY <1>4, <1>5, <1>6, <1>7, <1>8, <1>9 DEF Texts

\* What is left of a text by trim is a text.
LEMMA TrimTyped ==
  ASSUME NEW S, NEW s \in Seq(S)
  PROVE  Trim(s) \in Seq(S)
<1> DEFINE inner == {k \in DOMAIN s : s[k] # " "}
<1>1. Len(s) \in Nat /\ DOMAIN s = 1..Len(s)
  BY LenProperties
<1>2. CASE inner = {}
  <2>1. Trim(s) = <<>>
    BY <1>2 DEF Trim
  <2> QED
    BY <2>1, EmptySeq
<1>3. CASE inner # {}
  <2>1. inner \subseteq 1..Len(s)
    BY <1>1
  <2>2. Trim(s) = SubSeq(s, Min(inner), Max(inner))
    BY <1>3 DEF Trim
  <2> HIDE DEF inner
  <2>3. Min(inner) \in inner
    BY <1>3, <2>1, MinFacts
  <2>6. inner \in SUBSET Nat /\ \A k \in inner : k <= Len(s) /\ k \in Nat /\ k >= 1
    BY <1>1, <2>1
  <2>4. Max(inner) \in inner
    BY <1>1, <1>3, <2>6, MaxFacts
  <2>5. Min(inner) \in Nat /\ Min(inner) >= 1 /\ Max(inner) \in Nat /\ Max(inner) <= Len(s)
    BY <2>3, <2>4, <2>6
  <2> QED
    BY <2>2, <2>5, SubSeqFacts
<1> QED
  BY <1>2, <1>3

\* What is before and behind a separator.
LEMMA CutTyped ==
  ASSUME NEW S, NEW p \in Seq(S), NEW s \in Seq(S), Found(p, s)
  PROVE  Before(p, s) \in Seq(S) /\ Behind(p, s) \in Seq(S)
<1>1. Before(p, s) \in Seq(S) /\ From(p, s) \in Seq(S)
  BY BeforeFrom
<1>2. Len(p) \in Nat
  BY LenProperties
<1>3. Drop(Len(p), From(p, s)) \in Seq(S)
  BY <1>1, <1>2, DropFacts
<1> QED
  BY <1>1, <1>3 DEF Behind

\* The parts of a text are texts.
LEMMA PartsTyped ==
  ASSUME NEW S, NEW s \in Seq(S), NEW separators
  PROVE  /\ Parts(s, separators) \in Seq(Seq(S))
         /\ Len(Parts(s, separators)) = Cardinality(Starts(s, separators))
<1> DEFINE b == Starts(s, separators)
           n == Cardinality(b)
<1>1. Len(s) \in Nat /\ DOMAIN s = 1..Len(s)
  BY LenProperties
<1>2. b \in SUBSET (1..Len(s)) /\ \A i \in b : s[i] \notin separators
  BY <1>1 DEF Starts
<1> HIDE DEF b
<1>3. n \in Nat /\ \A k \in 1..n : Nth(b, k) \in b
  BY <1>1, <1>2, NthTyped
<1>4. ASSUME NEW i \in b
      PROVE  SubSeq(s, i, PartEnd(s, separators, i)) \in Seq(S)
  <2> DEFINE T == {j \in i..Len(s) : \A m \in i..j : s[m] \notin separators}
  <2>1. i \in Nat /\ i >= 1 /\ i <= Len(s)
    BY <1>1, <1>2
  <2>2. i \in T
    BY <1>1, <1>2, <2>1
  <2>3. T \in SUBSET Nat /\ \A j \in T : j <= Len(s) /\ j \in Nat
    BY <1>1, <2>1
  <2>4. PartEnd(s, separators, i) = Max(T)
    BY DEF PartEnd
  <2> HIDE DEF T
  <2>5. Max(T) \in T
    BY <1>1, <2>2, <2>3, MaxFacts
  <2>6. Max(T) \in Nat /\ Max(T) <= Len(s)
    BY <2>3, <2>5
  <2> QED
    BY <2>1, <2>4, <2>6, SubSeqFacts
<1>5. Parts(s, separators) =
        [k \in 1..n |-> SubSeq(s, Nth(b, k), PartEnd(s, separators, Nth(b, k)))]
  BY DEF Parts, b
<1> DEFINE f == Parts(s, separators)
<1>6. f \in [1..n -> Seq(S)]
  <2>1. \A k \in 1..n : SubSeq(s, Nth(b, k), PartEnd(s, separators, Nth(b, k))) \in Seq(S)
    BY <1>3, <1>4
  <2> QED
    BY <1>5, <2>1
<1> HIDE DEF f, n
<1> DEFINE Q == Seq(S)
<1>7. f \in [1..n -> Q]
  BY <1>6
<1> HIDE DEF Q
<1>8. f \in Seq(Q) /\ Len(f) = n
  BY <1>3, <1>7
<1> QED
  BY <1>8 DEF f, n, b, Q

----------------------------------------------------------------------------
(* The types of what Request parses.                                       *)

Maps == MapsOf(Texts)
RequestType ==
  [error : BOOLEAN, statusCode : {400, 414}, method : Texts, path : Texts,
   protocol : Texts, queries : Maps, headers : Maps]

\* Single pieces, and nothing, are texts.
LEMMA ShortTexts ==
  /\ <<>> \in Texts /\ <<" ">> \in Texts /\ <<":">> \in Texts
  /\ <<"=">> \in Texts /\ Len(<<"=">>) = 1 /\ Len(<<":">>) = 1
<1> DEFINE a == " "
           b == ":"
           c == "="
<1>1. a \in Piece /\ b \in Piece /\ c \in Piece
  BY PieceFacts
<1> HIDE DEF a, b, c
<1>2. <<>> \in Seq(Piece) /\ <<a>> \in Seq(Piece) /\ <<b>> \in Seq(Piece) /\ <<c>> \in Seq(Piece)
  BY <1>1
<1>3. Len(<<b>>) = 1 /\ Len(<<c>>) = 1
  OBVIOUS
<1> QED
  BY <1>2, <1>3 DEF Texts, a, b, c

\* Before and behind a single piece that is found.
LEMMA TextCut ==
  ASSUME NEW x, <<x>> \in Texts, NEW s \in Texts
  PROVE  Found(<<x>>, s) => Before(<<x>>, s) \in Texts /\ Behind(<<x>>, s) \in Texts
<1> DEFINE p == <<x>>
<1>1. p \in Seq(Piece) /\ s \in Seq(Piece)
  BY DEF Texts
<1> HIDE DEF p
<1>2. Found(p, s) => Before(p, s) \in Seq(Piece) /\ Behind(p, s) \in Seq(Piece)
  BY <1>1, CutTyped
<1> QED
  BY <1>2 DEF p, Texts

\* The queries are a map of texts, whatever parseQuery is given.
LEMMA QueryTyped ==
  ASSUME NEW query \in Texts
  PROVE  ParseQuery(query) \in Maps
<1>1. ASSUME NEW x \in Texts
      PROVE  NameIn(x) \in Texts /\ ValueIn(x) \in Texts
  BY ShortTexts, TextCut DEF NameIn, ValueIn
<1>2. ASSUME NEW m \in Maps, NEW x \in Texts
      PROVE  PutQuery(m, x) \in Maps
  BY <1>1, MapFacts, PutFacts DEF PutQuery, Maps
<1> DEFINE t == Parts(query, {"&"})
<1>3. t \in Seq(Texts)
  <2>1. query \in Seq(Piece)
    BY DEF Texts
  <2> QED
    BY <2>1, PartsTyped DEF Texts
<1>4. Len(t) \in Nat /\ \A i \in 1..Len(t) : t[i] \in Texts
  BY <1>3, LenProperties, ElementOfSeq
<1>5. <<>> \in Maps
  BY MapFacts, PutFacts DEF Maps
<1>6. ParseQuery(query) = FoldLeft(PutQuery, <<>>, t)
  BY DEF ParseQuery
<1> DEFINE e == <<>>
<1> HIDE DEF t
<1>7. e \in Maps
  BY <1>5
<1> HIDE DEF e
<1>8. PICK g : QuerySteps(g, e, t)
  <2> DEFINE M == Maps
             T == Texts
  <2>1. e \in M /\ t \in Seq(T) /\ \A k \in M, x \in T : PutQuery(k, x) \in M
    BY <1>2, <1>3, <1>7
  <2> HIDE DEF M, T
  <2> QED
    BY <2>1, QueryFolds
<1>9. \A i \in 0..Len(t) : g[i] \in Maps
  <2>1. g[0] \in Maps
    BY <1>7, <1>8 DEF QuerySteps
  <2>2. \A i \in 1..Len(t) : g[i - 1] \in Maps => g[i] \in Maps
    BY <1>2, <1>4, <1>8 DEF QuerySteps
  <2> HIDE DEF Maps
  <2> QED
    BY <1>4, <2>1, <2>2, StepsStay
<1>10. g[Len(t)] \in Maps
  BY <1>4, <1>9
<1> QED
  BY <1>6, <1>8, <1>10 DEF QuerySteps, e

\* A Request starts without an error and without headers.
LEMMA NewTyped ==
  NewRequest \in RequestType /\ NewRequest.error = FALSE /\ NewRequest.headers = <<>>
<1> DEFINE e == <<>>
<1>1. e \in Maps /\ e \in Texts
  BY MapFacts, PutFacts, ShortTexts DEF Maps
<1>2. NewRequest = [error |-> FALSE, statusCode |-> 400, method |-> e, path |-> e,
                    protocol |-> e, queries |-> e, headers |-> e]
  BY DEF NewRequest
<1> HIDE DEF e, Maps
<1>3. NewRequest \in RequestType /\ NewRequest.error = FALSE /\ NewRequest.headers = e
  BY <1>1, <1>2 DEF RequestType
<1> QED
  BY <1>3 DEF e

\* When a target is accepted.
UriGood(uri) == uri # <<>> /\ Head(uri) = "/" /\ Len(uri) <= MaxUrlLength

\* parseUri fails for a target that is no path or too long, and only then; the
\* headers are not its matter.
LEMMA UriTyped ==
  ASSUME NEW r \in RequestType, NEW uri \in Texts
  PROVE  /\ ParseUri(r, uri) \in RequestType
         /\ ParseUri(r, uri).headers = r.headers
         /\ ParseUri(r, uri).method = r.method
         /\ ParseUri(r, uri).protocol = r.protocol
         /\ r.error = FALSE => (ParseUri(r, uri).error <=> ~UriGood(uri))
<1> DEFINE hash == <<"#">>
           ask == <<"?">>
           str == IF Found(hash, uri) THEN Before(hash, uri) ELSE uri
           split == Found(ask, str)
           path == DecodeUri(IF split THEN Before(ask, str) ELSE str, FALSE)
           queries == IF split THEN ParseQuery(DecodeUri(Behind(ask, str), TRUE)) ELSE <<>>
           p == ParseUri(r, uri)
<1>1. p = IF uri = <<>> \/ Head(uri) # "/" THEN Throw(r)
          ELSE IF Len(uri) > MaxUrlLength THEN Throw([r EXCEPT !.statusCode = 414])
          ELSE [r EXCEPT !.path = path, !.queries = queries]
  BY DEF ParseUri
<1>2. ASSUME NEW w, NEW s \in Texts, Found(<<w>>, s)
      PROVE  Before(<<w>>, s) \in Texts /\ Behind(<<w>>, s) \in Texts
  <2>2. Len(<<w>>) = 1
    OBVIOUS
  <2> DEFINE x == <<w>>
  <2>3. x \in Seq({w}) /\ s \in Seq(Piece) /\ Len(x) = 1
    BY DEF Texts
  <2>4. Found(x, s)
    BY <1>2
  <2> HIDE DEF x
  <2>5. Before(x, s) \in Seq(Piece) /\ From(x, s) \in Seq(Piece)
    BY <2>3, <2>4, BeforeFrom
  <2>6. Drop(1, From(x, s)) \in Seq(Piece)
    BY <2>5, DropFacts
  <2>7. Behind(x, s) = Drop(1, From(x, s))
    BY <2>3 DEF Behind
  <2> QED
    BY <2>5, <2>6, <2>7 DEF x, Texts
<1>3. str \in Texts
  BY <1>2
<1> HIDE DEF str
<1>4. split => Before(ask, str) \in Texts /\ Behind(ask, str) \in Texts
  BY <1>2, <1>3
<1> HIDE DEF split, ask
<1>5. path \in Texts
  <2> DEFINE in == IF split THEN Before(ask, str) ELSE str
  <2>1. in \in Texts
    BY <1>3, <1>4
  <2>2. path = DecodeUri(in, FALSE)
    OBVIOUS
  <2> HIDE DEF in, path
  <2> QED
    BY <2>1, <2>2, ChangedTyped
<1>6. queries \in Maps
  <2>1. CASE split
    <3>1. DecodeUri(Behind(ask, str), TRUE) \in Texts
      BY <1>4, <2>1, ChangedTyped
    <3> QED
      BY <2>1, <3>1, QueryTyped
  <2>2. CASE ~split
    BY <2>2, MapFacts, PutFacts DEF Maps
  <2> QED
    BY <2>1, <2>2
<1> HIDE DEF path, queries, p, Maps
<1>7. CASE uri = <<>> \/ Head(uri) # "/"
  <2>1. p = [r EXCEPT !.error = TRUE]
    BY <1>1, <1>7 DEF Throw
  <2> HIDE DEF p
  <2>2. p \in RequestType /\ p.headers = r.headers /\ p.error = TRUE
        /\ p.method = r.method /\ p.protocol = r.protocol
    BY <2>1, ZenonT(60) DEF RequestType
  <2> QED
    BY <1>7, <2>2 DEF UriGood, p
<1>8. CASE ~(uri = <<>> \/ Head(uri) # "/") /\ Len(uri) > MaxUrlLength
  <2>1. p = [[r EXCEPT !.statusCode = 414] EXCEPT !.error = TRUE]
    BY <1>1, <1>8 DEF Throw
  <2> DEFINE q == [r EXCEPT !.statusCode = 414]
  <2>4. q \in RequestType /\ q.headers = r.headers /\ q.method = r.method
        /\ q.protocol = r.protocol
    BY DEF RequestType
  <2>5. p = [q EXCEPT !.error = TRUE]
    BY <2>1
  <2> HIDE DEF q
  <2>2. p \in RequestType /\ p.headers = r.headers /\ p.error = TRUE
        /\ p.method = r.method /\ p.protocol = r.protocol
    BY <2>4, <2>5, ZenonT(60) DEF RequestType
  <2>3. ~(Len(uri) <= MaxUrlLength)
    BY <1>8, UrlAssumption, LenProperties DEF Texts
  <2> QED
    BY <1>8, <2>2, <2>3 DEF UriGood, p
<1>9. CASE ~(uri = <<>> \/ Head(uri) # "/") /\ ~(Len(uri) > MaxUrlLength)
  <2>1. p = [r EXCEPT !.path = path, !.queries = queries]
    BY <1>1, <1>9
  <2>2. p \in RequestType /\ p.headers = r.headers /\ p.error = r.error
        /\ p.method = r.method /\ p.protocol = r.protocol
    BY <1>5, <1>6, <2>1, ZenonT(60) DEF RequestType
  <2>3. Len(uri) <= MaxUrlLength
    BY <1>9, UrlAssumption, LenProperties DEF Texts
  <2>4. UriGood(uri)
    BY <1>9, <2>3 DEF UriGood
  <2> QED
    BY <2>2, <2>4 DEF p
<1> QED
  BY <1>7, <1>8, <1>9

\* The words of the request line.
Words(raw) == Parts(Before(CRLF, raw), {" ", "\r", "\n"})
WordOf(words, k) == IF k <= Len(words) THEN words[k] ELSE <<>>

\* parseLine fails for a method the server does not know, for a target parseUri
\* refuses and without a protocol, and only then.
LEMMA LineTyped ==
  ASSUME NEW raw \in Texts, Found(CRLF, raw)
  PROVE  /\ ParseLine(raw) \in RequestType
         /\ ParseLine(raw).headers = <<>>
         /\ ParseLine(raw).method = WordOf(Words(raw), 1)
         /\ ParseLine(raw).error <=>
              ~(/\ WordOf(Words(raw), 1) \in Methods /\ UriGood(WordOf(Words(raw), 2))
                /\ WordOf(Words(raw), 3) # <<>>)
<1> DEFINE words == Words(raw)
           W(k) == WordOf(words, k)
           read == [NewRequest EXCEPT !.method = W(1), !.protocol = W(3)]
           parsed == ParseUri(read, W(2))
           p == ParseLine(raw)
<1>1. p = IF W(1) \notin Methods THEN Throw(read)
          ELSE IF parsed.error THEN parsed
          ELSE IF W(3) = <<>> THEN Throw(parsed)
          ELSE parsed
  BY DEF ParseLine, Words, WordOf
<1>2. words \in Seq(Texts)
  <2>1. raw \in Seq(Piece) /\ CRLF \in Seq(Piece)
    BY CRLFFacts DEF Texts
  <2>2. Before(CRLF, raw) \in Seq(Piece)
    BY <2>1, CutTyped
  <2> QED
    BY <2>2, PartsTyped DEF Texts, Words
<1> HIDE DEF words, p
<1>3. Len(words) \in Nat /\ \A k \in 1..Len(words) : words[k] \in Texts
  BY <1>2, LenProperties, ElementOfSeq
<1>4. W(1) \in Texts /\ W(2) \in Texts /\ W(3) \in Texts
  <2>1. <<>> \in Texts
    BY ShortTexts
  <2>2. ASSUME NEW k \in {1, 2, 3}
        PROVE  W(k) \in Texts
    <3>1. CASE k <= Len(words)
      <4>1. k \in 1..Len(words)
        BY <1>3, <3>1
      <4> QED
        BY <1>3, <3>1, <4>1 DEF WordOf
    <3>2. CASE ~(k <= Len(words))
      BY <2>1, <3>2 DEF WordOf
    <3> QED
      BY <3>1, <3>2
  <2> QED
    BY <2>2
<1> HIDE DEF W
<1>5. read \in RequestType /\ read.error = FALSE /\ read.headers = <<>> /\ read.method = W(1)
  <2>1. NewRequest \in RequestType /\ NewRequest.error = FALSE /\ NewRequest.headers = <<>>
    BY NewTyped
  <2> HIDE DEF Maps
  <2> QED
    BY <1>4, <2>1, ZenonT(60) DEF RequestType
<1> HIDE DEF read
<1>6. /\ parsed \in RequestType /\ parsed.headers = <<>> /\ parsed.method = W(1)
      /\ parsed.error <=> ~UriGood(W(2))
  BY <1>4, <1>5, UriTyped
<1> HIDE DEF parsed
<1>7. ASSUME NEW r \in RequestType
      PROVE  /\ Throw(r) \in RequestType /\ Throw(r).headers = r.headers
             /\ Throw(r).error = TRUE /\ Throw(r).method = r.method
  BY ZenonT(60) DEF Throw, RequestType
<1>8. CASE W(1) \notin Methods
  BY <1>1, <1>5, <1>7, <1>8 DEF p, W, words
<1>9. CASE W(1) \in Methods /\ parsed.error
  BY <1>1, <1>6, <1>9 DEF p, W, words
<1>10. CASE W(1) \in Methods /\ ~parsed.error /\ W(3) = <<>>
  BY <1>1, <1>6, <1>7, <1>10 DEF p, W, words
<1>11. CASE W(1) \in Methods /\ ~parsed.error /\ W(3) # <<>>
  BY <1>1, <1>6, <1>11 DEF p, W, words
<1> QED
  BY <1>8, <1>9, <1>10, <1>11

\* Line ends of any text are places in it.
LEMMA EndPlaces ==
  ASSUME NEW raw \in Texts
  PROVE  /\ Len(raw) \in Nat /\ Occurrences(CRLF, raw) \in SUBSET (1..Len(raw))
         /\ \A i \in Occurrences(CRLF, raw) : i + 1 <= Len(raw)
<1>1. raw \in Seq(Piece) /\ CRLF \in Seq(Piece) /\ Len(CRLF) = 2
  BY CRLFFacts DEF Texts
<1>2. Len(raw) \in Nat
  BY <1>1, LenProperties
<1>3. \A i : i \in Occurrences(CRLF, raw) =>
               i \in Nat /\ 1 <= i /\ i + Len(CRLF) <= Len(raw) + 1
  <2> DEFINE p == CRLF
  <2>1. p \in Seq(Piece)
    BY <1>1
  <2> HIDE DEF p
  <2>2. \A i : i \in Occurrences(p, raw) =>
               i \in Nat /\ 1 <= i /\ i + Len(p) <= Len(raw) + 1
    BY <1>1, <2>1, OccurrenceFacts
  <2> QED
    BY <2>2 DEF p
<1> QED
  BY <1>1, <1>2, <1>3

\* The lines of headers are texts.
LEMMA HeaderLinesTyped ==
  ASSUME NEW raw \in Texts
  PROVE  HeaderLines(raw) \in Seq(Texts)
<1> DEFINE ends == Occurrences(CRLF, raw)
           n == Cardinality(ends) - 2
           f == HeaderLines(raw)
<1>1. /\ Len(raw) \in Nat /\ ends \in SUBSET (1..Len(raw))
      /\ \A i \in ends : i + 1 <= Len(raw)
  BY EndPlaces
<1>2. f = [k \in 1..n |-> SubSeq(raw, Nth(ends, k) + 2, Nth(ends, k + 1) - 1)]
  BY DEF HeaderLines
<1> HIDE DEF ends, f
<1>3. Cardinality(ends) \in Nat /\ \A k \in 1..Cardinality(ends) : Nth(ends, k) \in ends
  BY <1>1, NthTyped
<1>4. ASSUME NEW k \in 1..n
      PROVE  SubSeq(raw, Nth(ends, k) + 2, Nth(ends, k + 1) - 1) \in Texts
  <2>1. k \in 1..Cardinality(ends) /\ k + 1 \in 1..Cardinality(ends)
    BY <1>3
  <2>2. Nth(ends, k) \in 1..Len(raw) /\ Nth(ends, k + 1) \in 1..Len(raw)
    BY <1>1, <1>3, <2>1
  <2> DEFINE a == Nth(ends, k)
             b == Nth(ends, k + 1)
  <2>3. a \in Nat /\ b \in Nat /\ a >= 1 /\ b >= 1 /\ b <= Len(raw)
    BY <1>1, <2>2
  <2> HIDE DEF a, b
  <2>4. a + 2 \in Nat /\ a + 2 >= 1 /\ b - 1 \in Nat /\ b - 1 <= Len(raw)
    BY <1>1, <2>3
  <2>5. raw \in Seq(Piece)
    BY DEF Texts
  <2>6. SubSeq(raw, a + 2, b - 1) \in Seq(Piece)
    BY <2>4, <2>5, SubSeqFacts
  <2> QED
    BY <2>6 DEF a, b, Texts
<1>5. f \in [1..n -> Texts]
  BY <1>2, <1>4
<1> HIDE DEF n
<1>6. n \in Int
  BY <1>3 DEF n
<1>7. PICK m \in Nat : 1..n = 1..m
  <2>1. CASE n >= 0
    BY <1>6, <2>1
  <2>2. CASE n < 0
    <3>1. 1..n = 1..0
      BY <1>6, <2>2
    <3> QED
      BY <3>1
  <2> QED
    BY <1>6, <2>1, <2>2
<1>8. f \in Seq(Texts)
  <2> DEFINE T == Texts
  <2>1. f \in [1..m -> T]
    BY <1>5, <1>7
  <2> HIDE DEF T
  <2>2. f \in Seq(T)
    BY <2>1
  <2> QED
    BY <2>2 DEF T
<1> QED
  BY <1>8 DEF f

\* A header leaves a Request one, whatever its line; its name and value are texts.
LEMMA HeaderTyped ==
  ASSUME NEW r \in RequestType, NEW line \in Texts
  PROVE  /\ ParseHeader(r, line) \in RequestType
         /\ Found(<<":">>, line) => /\ Key(line) \in Texts /\ Value(line) \in Texts
                                    /\ Before(<<":">>, line) \in Texts
                                    /\ Behind(<<":">>, line) \in Texts
<1>1. ASSUME Found(<<":">>, line)
      PROVE  /\ Key(line) \in Texts /\ Value(line) \in Texts
             /\ Before(<<":">>, line) \in Texts
             /\ Behind(<<":">>, line) \in Texts
  <2>1. Before(<<":">>, line) \in Texts /\ Behind(<<":">>, line) \in Texts
    BY <1>1, ShortTexts, TextCut
  <2>2. Trim(Before(<<":">>, line)) \in Texts /\ Trim(Behind(<<":">>, line)) \in Texts
    BY <2>1, TrimTyped DEF Texts
  <2> QED
    BY <2>1, <2>2, ChangedTyped DEF Key, Value
<1>2. \A k, v \in Texts : Put(r.headers, k, v) \in Maps
  <2>1. r.headers \in Maps
    BY DEF RequestType
  <2> QED
    BY <2>1, MapFacts, PutFacts DEF Maps
<1> HIDE DEF Maps
<1>3. Throw(r) \in RequestType
  BY ZenonT(60) DEF Throw, RequestType
<1>4. CASE ~r.error /\ Found(<<":">>, line) /\ Key(line) # <<>>
  <2> DEFINE h == Put(r.headers, Key(line), Value(line))
  <2>1. h \in Maps
    BY <1>1, <1>2, <1>4
  <2>2. ParseHeader(r, line) = [r EXCEPT !.headers = h]
    BY <1>4 DEF ParseHeader
  <2> HIDE DEF h
  <2>3. ParseHeader(r, line) \in RequestType
    BY <2>1, <2>2 DEF RequestType
  <2> QED
    BY <1>1, <2>3
<1>5. CASE r.error \/ ~Found(<<":">>, line) \/ Key(line) = <<>>
  BY <1>1, <1>3, <1>5 DEF ParseHeader
<1> QED
  BY <1>4, <1>5

\* A Request comes out of every text with a line.
LEMMA RequestTyped ==
  ASSUME NEW raw \in Texts, Found(CRLF, raw)
  PROVE  ParseRequest(raw) \in RequestType
<1> DEFINE line == ParseLine(raw)
           t == HeaderLines(raw)
<1>1. line \in RequestType
  BY LineTyped
<1>2. t \in Seq(Texts)
  BY HeaderLinesTyped
<1>3. ParseRequest(raw) = IF line.error THEN line ELSE FoldLeft(ParseHeader, line, t)
  BY DEF ParseRequest
<1> HIDE DEF line, t
<1>4. Len(t) \in Nat /\ \A i \in 1..Len(t) : t[i] \in Texts
  BY <1>2, LenProperties, ElementOfSeq
<1>5. PICK g : HeaderSteps(g, line, t)
  <2> DEFINE R == RequestType
             T == Texts
  <2>1. line \in R /\ t \in Seq(T) /\ \A k \in R, x \in T : ParseHeader(k, x) \in R
    BY <1>1, <1>2, HeaderTyped
  <2> HIDE DEF R, T
  <2> QED
    BY <2>1, HeaderFolds
<1>6. \A i \in 0..Len(t) : g[i] \in RequestType
  <2>1. g[0] \in RequestType
    BY <1>1, <1>5 DEF HeaderSteps
  <2>2. \A i \in 1..Len(t) : g[i - 1] \in RequestType => g[i] \in RequestType
    BY <1>4, <1>5, HeaderTyped DEF HeaderSteps
  <2> HIDE DEF RequestType
  <2> QED
    BY <1>4, <2>1, <2>2, StepsStay
<1> QED
  BY <1>1, <1>3, <1>4, <1>5, <1>6 DEF HeaderSteps

\* A length is a number up to the largest int.
LEMMA LengthTyped ==
  ASSUME NEW r
  PROVE  GetContentLength(r) \subseteq 0..MaxInt
<1>1. MaxInt \in Nat
  BY NumberAssumption
<1>2. \A m \in Nat : Min({m, MaxInt}) \in 0..MaxInt
  <2> SUFFICES ASSUME NEW m \in Nat PROVE Min({m, MaxInt}) \in 0..MaxInt
    OBVIOUS
  <2> DEFINE T == {m, MaxInt}
  <2>1. T \in SUBSET Nat /\ T # {} /\ MaxInt \in T
    BY <1>1
  <2> HIDE DEF T
  <2>2. Min(T) \in T /\ Min(T) <= MaxInt
    BY <2>1, MinFacts
  <2>3. Min(T) \in Nat
    BY <2>1, <2>2
  <2> QED
    BY <1>1, <2>2, <2>3 DEF T
<1>3. ASSUME NEW s, NEW n \in StringToInt(s), n >= 0
      PROVE  n \in 0..MaxInt
  <2> DEFINE Digits(k) == IF k \in DOMAIN s /\ s[k] \in DOMAIN NumberOf
                          THEN Min({NumberOf[s[k]], MaxInt}) ELSE 0
  <2>1. Digits(1) \in 0..MaxInt /\ Digits(2) \in 0..MaxInt
    <3>1. \A k : Digits(k) \in 0..MaxInt
      BY <1>1, <1>2, NumberAssumption
    <3> QED
      BY <3>1
  <2>2. n \in (IF s = <<>> THEN -1 .. MaxInt
               ELSE {IF s[1] = "-" THEN -Digits(2) ELSE Digits(1)})
    BY <1>3 DEF StringToInt
  <2> HIDE DEF Digits
  <2>3. CASE s = <<>>
    BY <1>1, <1>3, <2>2, <2>3
  <2>4. CASE s # <<>> /\ s[1] = "-"
    <3>1. n = -Digits(2)
      BY <2>2, <2>4
    <3> QED
      BY <1>1, <1>3, <2>1, <3>1
  <2>5. CASE s # <<>> /\ s[1] # "-"
    BY <2>1, <2>2, <2>5
  <2> QED
    BY <2>3, <2>4, <2>5
<1>4. ASSUME NEW m \in GetContentLength(r)
      PROVE  m \in 0..MaxInt
  <2>1. CASE ContentLength \notin DOMAIN r.headers
    BY <1>1, <2>1 DEF GetContentLength
  <2>2. CASE ContentLength \in DOMAIN r.headers
    <3>1. PICK n \in StringToInt(r.headers[ContentLength]) : m = IF n >= 0 THEN n ELSE 0
      BY <2>2 DEF GetContentLength
    <3> QED
      BY <1>1, <1>3, <3>1
  <2> QED
    BY <2>1, <2>2
<1> QED
  BY <1>4

----------------------------------------------------------------------------
(* What a script is told.                                                  *)

\* The pieces an environment is made of.
Names == {"REQUEST_METHOD", "SERVER_PROTOCOL", "SCRIPT_NAME", "PATH_INFO", "QUERY_STRING",
          "SERVER_NAME", "SERVER_PORT", "CONTENT_TYPE", "CONTENT_LENGTH", "HTTP_",
          "localhost", "80", "0"}
EnvTexts == Seq(Piece \cup Names)

\* The members of a finite set, one after the other.
LEMMA InSomeOrder ==
  ASSUME NEW S, IsFiniteSet(S)
  PROVE  SetToSeq(S) \in Seq(S) /\ DOMAIN SetToSeq(S) = 1..Cardinality(S)
<1> DEFINE n == Cardinality(S)
<1>1. n \in Nat /\ ExistsBijection(1..n, S)
  BY FS_CardinalityType
<1>2. PICK f \in [1..n -> S] : IsInjective(f)
  BY <1>1 DEF ExistsBijection, Bijection, Injection
<1>3. SetToSeq(S) \in [1..n -> S]
  BY <1>2 DEF SetToSeq
<1> QED
  BY <1>1, <1>3

\* What a request says is text a script can be told.
LEMMA IntoEnv == Texts \subseteq EnvTexts
<1> SUFFICES ASSUME NEW s \in Texts PROVE s \in EnvTexts
  OBVIOUS
<1> QED
  BY Wider DEF Texts, EnvTexts

\* The texts that entries are made of.
LEMMA QueryStringTyped ==
  ASSUME NEW r \in RequestType
  PROVE  QueryString(r) \in Texts
<1> DEFINE D == DOMAIN r.queries
           names == SetToSeq(D)
           Part(k) == names[k] \o <<"=">> \o r.queries[names[k]] \o <<"&">>
           f == [k \in DOMAIN names |-> Part(k)]
<1>1. IsFiniteSet(D) /\ D \in SUBSET Texts /\ \A k \in D : r.queries[k] \in Texts
  <2>1. r.queries \in Maps
    BY DEF RequestType
  <2> QED
    BY <2>1, MapFacts DEF Maps
<1>2. names \in Seq(D) /\ DOMAIN names = 1..Cardinality(D)
  BY <1>1, InSomeOrder
<1> HIDE DEF names
<1>3. Cardinality(D) \in Nat /\ \A k \in DOMAIN names : names[k] \in D
  BY <1>1, <1>2, FS_CardinalityType, ElementOfSeq
<1>4. ASSUME NEW a \in Texts, NEW b \in Texts
      PROVE  a \o <<"=">> \o b \o <<"&">> \in Texts
  <2> DEFINE e == <<"=">>
             n == <<"&">>
  <2>1. e \in Seq(Piece) /\ n \in Seq(Piece)
    <3> DEFINE x == "="
               y == "&"
    <3>1. x \in Piece /\ y \in Piece
      BY PieceFacts
    <3> HIDE DEF x, y
    <3>2. <<x>> \in Seq(Piece) /\ <<y>> \in Seq(Piece)
      BY <3>1
    <3> QED
      BY <3>2 DEF x, y
  <2> HIDE DEF e, n
  <2>2. a \in Seq(Piece) /\ b \in Seq(Piece)
    BY DEF Texts
  <2>3. a \o e \in Seq(Piece)
    BY <2>1, <2>2, ConcatProperties
  <2>4. a \o e \o b \in Seq(Piece)
    BY <2>2, <2>3, ConcatProperties
  <2>5. a \o e \o b \o n \in Seq(Piece)
    BY <2>1, <2>4, ConcatProperties
  <2> QED
    BY <2>5 DEF e, n, Texts
<1>5. \A k \in DOMAIN names : Part(k) \in Texts
  BY <1>1, <1>3, <1>4
<1>6. QueryString(r) = FlattenSeq(f)
  BY DEF QueryString, names
<1>7. f \in [1..Cardinality(D) -> Texts]
  BY <1>2, <1>5
<1> HIDE DEF f
<1>8. f \in Seq(Seq(Piece))
  <2> DEFINE T == Texts
             n == Cardinality(D)
  <2>1. f \in [1..n -> T] /\ n \in Nat
    BY <1>3, <1>7
  <2> HIDE DEF T, n
  <2>2. f \in Seq(T)
    BY <2>1
  <2> QED
    BY <2>2 DEF T, Texts
<1> QED
  BY <1>6, <1>8, FlattenFacts DEF Texts

\* A header, or what stands for it, is text.
LEMMA HeaderOrTyped ==
  ASSUME NEW r \in RequestType, NEW name, NEW default \in EnvTexts
  PROVE  HeaderOr(r, name, default) \in EnvTexts
<1>1. r.headers \in Maps
  BY DEF RequestType
<1>2. name \in DOMAIN r.headers => r.headers[name] \in Texts
  BY <1>1, MapFacts DEF Maps
<1> QED
  BY <1>2, IntoEnv DEF HeaderOr

\* Every entry has its "=".
EnvEntry == {x \in EnvTexts : Found(<<"=">>, x)}

\* The nine variables of the server, and what is said under each.
Numbered ==
  <<"REQUEST_METHOD", "SERVER_PROTOCOL", "SCRIPT_NAME", "PATH_INFO", "QUERY_STRING",
    "SERVER_NAME", "SERVER_PORT", "CONTENT_TYPE", "CONTENT_LENGTH">>
HostOf(r) == HeaderOr(r, Host, <<"localhost">>)
QueryOf(r) == IF DOMAIN r.queries = {} THEN FromPath(r) ELSE QueryString(r)
NameOf(r) ==
  IF Found(<<":">>, HostOf(r)) THEN Before(<<":">>, HostOf(r)) ELSE HostOf(r)
PortOf(r) == IF Found(<<":">>, HostOf(r)) THEN Behind(<<":">>, HostOf(r)) ELSE <<"80">>
Said(r) ==
  <<r.method, r.protocol, r.path, PathInfo(r), QueryOf(r), NameOf(r), PortOf(r),
    HeaderOr(r, <<"content-type">>, <<>>), HeaderOr(r, ContentLength, <<"0">>)>>

\* They are nine, and headers have none of these names.
LEMMA NumberedFacts ==
  /\ \A i \in 1..9 : Numbered[i] \in Names /\ Numbered[i] # "HTTP_" /\ Numbered[i] # "="
  /\ \A i, j \in 1..9 : Numbered[i] = Numbered[j] => i = j
<1>1. \A i \in 1..9 : i = 1 \/ i = 2 \/ i = 3 \/ i = 4 \/ i = 5 \/ i = 6 \/ i = 7 \/ i = 8 \/ i = 9
  OBVIOUS
<1>2. \A i \in 1..9 : Numbered[i] \in Names /\ Numbered[i] # "HTTP_" /\ Numbered[i] # "="
  BY <1>1 DEF Numbered, Names
<1>3. ASSUME NEW i \in 1..9, NEW j \in 1..9, Numbered[i] = Numbered[j]
      PROVE  i = j
  BY <1>1, <1>3 DEF Numbered
<1> QED
  BY <1>2, <1>3

\* What is said is text a script can be told.
LEMMA SaidTyped ==
  ASSUME NEW r \in RequestType
  PROVE  \A i \in 1..9 : Said(r)[i] \in EnvTexts
<1> DEFINE v1 == r.method
           v2 == r.protocol
           v3 == r.path
           v4 == PathInfo(r)
           v5 == QueryOf(r)
           v6 == NameOf(r)
           v7 == PortOf(r)
           v8 == HeaderOr(r, <<"content-type">>, <<>>)
           v9 == HeaderOr(r, ContentLength, <<"0">>)
<1>1. <<>> \in EnvTexts /\ <<"localhost">> \in EnvTexts /\ <<"80">> \in EnvTexts
      /\ <<"0">> \in EnvTexts /\ <<":">> \in EnvTexts
  <2> DEFINE a == "localhost"
             b == "80"
             c == "0"
             d == ":"
             W == Piece \cup Names
  <2>1. a \in W /\ b \in W /\ c \in W /\ d \in W
    BY PieceFacts DEF Names
  <2> HIDE DEF a, b, c, d, W
  <2>2. <<a>> \in Seq(W) /\ <<b>> \in Seq(W) /\ <<c>> \in Seq(W) /\ <<d>> \in Seq(W)
    BY <2>1
  <2>3. <<>> \in Seq(W)
    OBVIOUS
  <2> QED
    BY <2>2, <2>3 DEF a, b, c, d, W, EnvTexts
<1>2. v1 \in EnvTexts /\ v2 \in EnvTexts /\ v3 \in EnvTexts
  BY IntoEnv DEF RequestType
<1>3. v4 \in EnvTexts /\ FromPath(r) \in EnvTexts
  <2> DEFINE ask == <<"?">>
  <2>1. r.path \in Texts
    BY DEF RequestType
  <2>2. Found(ask, r.path) => Before(ask, r.path) \in Texts /\ Behind(ask, r.path) \in Texts
    <3> DEFINE x == "?"
    <3>1. x \in Piece
      BY PieceFacts
    <3> HIDE DEF x
    <3>2. <<x>> \in Texts
      BY <3>1 DEF Texts
    <3>3. Found(<<x>>, r.path) => Before(<<x>>, r.path) \in Texts /\ Behind(<<x>>, r.path) \in Texts
      BY <2>1, <3>2, TextCut
    <3> QED
      BY <3>3 DEF x
  <2> QED
    BY <1>1, <2>2, IntoEnv DEF PathInfo, FromPath
<1>4. v5 \in EnvTexts
  BY <1>3, QueryStringTyped, IntoEnv DEF QueryOf
<1>5. HostOf(r) \in EnvTexts /\ v8 \in EnvTexts /\ v9 \in EnvTexts
  BY <1>1, HeaderOrTyped DEF HostOf
<1>6. v6 \in EnvTexts /\ v7 \in EnvTexts
  <2> DEFINE c == <<":">>
             host == HostOf(r)
  <2>1. c \in EnvTexts /\ host \in EnvTexts
    BY <1>1, <1>5
  <2> HIDE DEF c, host
  <2>2. Found(c, host) => Before(c, host) \in EnvTexts /\ Behind(c, host) \in EnvTexts
    BY <2>1, CutTyped DEF EnvTexts
  <2> QED
    BY <1>1, <2>1, <2>2 DEF c, host, NameOf, PortOf
<1>7. Said(r) = <<v1, v2, v3, v4, v5, v6, v7, v8, v9>>
  BY DEF Said
<1>8. \A i \in 1..9 : i = 1 \/ i = 2 \/ i = 3 \/ i = 4 \/ i = 5 \/ i = 6 \/ i = 7 \/ i = 8 \/ i = 9
  OBVIOUS
<1> HIDE DEF v1, v2, v3, v4, v5, v6, v7, v8, v9
<1> QED
  BY <1>2, <1>3, <1>4, <1>5, <1>6, <1>7, <1>8

\* The nine entries.
LEMMA ServerSays ==
  ASSUME NEW r
  PROVE  /\ ServerVariables(r) = [i \in 1..9 |-> <<Numbered[i], "=">> \o Said(r)[i]]
<1> DEFINE a1 == <<"REQUEST_METHOD", "=">> \o Said(r)[1]
           a2 == <<"SERVER_PROTOCOL", "=">> \o Said(r)[2]
           a3 == <<"SCRIPT_NAME", "=">> \o Said(r)[3]
           a4 == <<"PATH_INFO", "=">> \o Said(r)[4]
           a5 == <<"QUERY_STRING", "=">> \o Said(r)[5]
           a6 == <<"SERVER_NAME", "=">> \o Said(r)[6]
           a7 == <<"SERVER_PORT", "=">> \o Said(r)[7]
           a8 == <<"CONTENT_TYPE", "=">> \o Said(r)[8]
           a9 == <<"CONTENT_LENGTH", "=">> \o Said(r)[9]
           f == [i \in 1..9 |-> <<Numbered[i], "=">> \o Said(r)[i]]
           s == <<a1, a2, a3, a4, a5, a6, a7, a8, a9>>
<1>1. ServerVariables(r) = s
  BY DEF ServerVariables, Said, QueryOf, HostOf, NameOf, PortOf
<1>2. f[1] = a1 /\ f[2] = a2 /\ f[3] = a3 /\ f[4] = a4 /\ f[5] = a5 /\ f[6] = a6
      /\ f[7] = a7 /\ f[8] = a8 /\ f[9] = a9
  <2>1. /\ Numbered[1] = "REQUEST_METHOD" /\ Numbered[2] = "SERVER_PROTOCOL"
        /\ Numbered[3] = "SCRIPT_NAME" /\ Numbered[4] = "PATH_INFO"
        /\ Numbered[5] = "QUERY_STRING" /\ Numbered[6] = "SERVER_NAME"
        /\ Numbered[7] = "SERVER_PORT" /\ Numbered[8] = "CONTENT_TYPE"
        /\ Numbered[9] = "CONTENT_LENGTH"
    BY DEF Numbered
  <2>2. \A i \in 1..9 : f[i] = <<Numbered[i], "=">> \o Said(r)[i]
    OBVIOUS
  <2> DEFINE E(x, v) == <<x, "=">> \o v
  <2>3. \A i \in 1..9 : f[i] = E(Numbered[i], Said(r)[i])
    BY <2>2
  <2>4. /\ a1 = E("REQUEST_METHOD", Said(r)[1]) /\ a2 = E("SERVER_PROTOCOL", Said(r)[2])
        /\ a3 = E("SCRIPT_NAME", Said(r)[3]) /\ a4 = E("PATH_INFO", Said(r)[4])
        /\ a5 = E("QUERY_STRING", Said(r)[5]) /\ a6 = E("SERVER_NAME", Said(r)[6])
        /\ a7 = E("SERVER_PORT", Said(r)[7]) /\ a8 = E("CONTENT_TYPE", Said(r)[8])
        /\ a9 = E("CONTENT_LENGTH", Said(r)[9])
    OBVIOUS
  <2> HIDE DEF f, E, a1, a2, a3, a4, a5, a6, a7, a8, a9
  <2> QED
    BY <2>1, <2>3, <2>4
<1>3. f = [i \in 1..9 |-> f[i]]
  OBVIOUS
<1> HIDE DEF f, a1, a2, a3, a4, a5, a6, a7, a8, a9
<1>4. s = [i \in 1..9 |-> s[i]]
  OBVIOUS
<1>5. \A i \in 1..9 : i = 1 \/ i = 2 \/ i = 3 \/ i = 4 \/ i = 5 \/ i = 6 \/ i = 7 \/ i = 8 \/ i = 9
  OBVIOUS
<1>6. \A i \in 1..9 : s[i] = f[i]
  BY <1>2, <1>5
<1> HIDE DEF s
<1>7. s = f
  BY <1>3, <1>4, <1>6
<1> QED
  BY <1>1, <1>7 DEF f

\* An entry: a name, "=", a value, and it is taken apart into these.
LEMMA EntrySays ==
  ASSUME NEW x \in Names, x # "=", NEW v \in EnvTexts
  PROVE  /\ <<x, "=">> \o v \in EnvEntry
         /\ Before(<<"=">>, <<x, "=">> \o v) = <<x>>
         /\ Behind(<<"=">>, <<x, "=">> \o v) = v
<1> DEFINE W == Piece \cup Names
           e == "="
           a == <<x>>
           s == (a \o <<e>>) \o v
<1>1. e \in W /\ x \in W /\ x # e
  BY PieceFacts
<1>2. v \in Seq(W)
  BY DEF EnvTexts
<1> HIDE DEF W, e
<1>3. a \o <<e>> = <<x, e>>
  <2> DEFINE b == <<e>>
             c == <<x, e>>
  <2>1. /\ a \in Seq(W) /\ Len(a) = 1 /\ a[1] = x /\ b \in Seq(W) /\ Len(b) = 1 /\ b[1] = e
        /\ c \in Seq(W) /\ Len(c) = 2 /\ c[1] = x /\ c[2] = e
    BY <1>1
  <2> HIDE DEF a, b, c
  <2>2. a \o b \in Seq(W) /\ Concatenated(a \o b, a, b)
    BY <2>1, ConcatAt
  <2> DEFINE u == a \o b
  <2>3. Len(u) = 2 /\ u[1] = x /\ u[1 + 1] = e
    BY <2>1, <2>2 DEF Concatenated
  <2>4. u \in Seq(W)
    BY <2>2
  <2> HIDE DEF u
  <2>5. \A i \in 1..2 : u[i] = c[i]
    BY <2>1, <2>3
  <2>6. u = c
    BY <2>1, <2>3, <2>4, <2>5, SeqEqual
  <2> QED
    BY <2>6 DEF u, b, c
<1>4. a \in Seq(W) /\ Len(a) = 1 /\ a[1] = x /\ <<e>> \in Seq(W)
  BY <1>1
<1> HIDE DEF a
<1>5. a \o <<e>> \in Seq(W)
  BY <1>4, ConcatProperties
<1>6. s \in Seq(W)
  BY <1>2, <1>5, ConcatProperties
<1>7. \A i \in 1..Len(a) : a[i] # e
  BY <1>1, <1>4
<1>8. Found(<<e>>, s) /\ Before(<<e>>, s) = a /\ Behind(<<e>>, s) = v
  BY <1>1, <1>2, <1>4, <1>7, CutAt
<1> HIDE DEF s
<1>9. s = <<x, e>> \o v
  BY <1>3 DEF s
<1> QED
  BY <1>6, <1>8, <1>9 DEF W, e, a, EnvEntry, EnvTexts

\* What is told of a header is told under a name with a prefix.
HeaderEntry == {x \in EnvEntry : Before(<<"=">>, x)[1] = "HTTP_"}

\* The variable of a header.
LEMMA HeaderSays ==
  ASSUME NEW a \in Texts, NEW b \in Texts
  PROVE  MetaVarName(a) \o <<"=">> \o b \in HeaderEntry
<1> DEFINE W == Piece \cup Names
           h == "HTTP_"
           e == "="
           q == <<e>>
           u == Changed(a, UpperOf)
           m == <<h>> \o u
           s == m \o q
           t == s \o b
<1>1. h \in W /\ e \in W /\ h # e
  BY PieceFacts DEF Names
<1>2. u \in Seq(W) /\ b \in Seq(W)
  BY ChangedTyped, IntoEnv DEF EnvTexts
<1>3. MetaVarName(a) \o <<"=">> \o b = t
  BY DEF MetaVarName
<1> HIDE DEF h, e, W, u
<1>4. <<h>> \in Seq(W) /\ Len(<<h>>) = 1 /\ <<h>>[1] = h /\ q \in Seq(W) /\ Len(q) = 1 /\ q[1] = e
  BY <1>1
<1>5. m \in Seq(W) /\ Len(m) \in Nat /\ Len(m) >= 1 /\ m[1] = h
  <2> DEFINE p == <<h>>
  <2>1. p \in Seq(W) /\ Len(p) = 1 /\ p[1] = h
    BY <1>4
  <2> HIDE DEF p
  <2>2. p \o u \in Seq(W) /\ Concatenated(p \o u, p, u)
    BY <1>2, <2>1, ConcatAt
  <2>3. m = p \o u
    BY DEF p
  <2> HIDE DEF m
  <2> QED
    BY <2>1, <2>2, <2>3 DEF Concatenated
<1> HIDE DEF m, q
<1>6. /\ s \in Seq(W) /\ Len(s) = Len(m) + 1 /\ s[1] = h /\ s[Len(m) + 1] = e
  <2>1. m \o q \in Seq(W) /\ Concatenated(m \o q, m, q)
    BY <1>4, <1>5, ConcatAt
  <2> HIDE DEF s
  <2>2. s \in Seq(W) /\ Concatenated(s, m, q)
    BY <2>1 DEF s
  <2> QED
    BY <1>4, <1>5, <2>2 DEF Concatenated
<1> HIDE DEF s
<1>7. t \in Seq(W) /\ Len(t) \in Nat /\ Len(m) + 1 \in 1..Len(t) /\ t[1] = h /\ t[Len(m) + 1] = e
  <2>1. s \o b \in Seq(W) /\ Concatenated(s \o b, s, b)
    BY <1>2, <1>6, ConcatAt
  <2> HIDE DEF t
  <2>2. t \in Seq(W) /\ Concatenated(t, s, b)
    BY <2>1 DEF t
  <2> QED
    BY <1>5, <1>6, <2>2 DEF Concatenated
<1> HIDE DEF t
<1>8. \A i : i \in Occurrences(q, t) <=> i \in 1..Len(t) /\ t[i] = e
  BY <1>1, <1>7, OccursOne DEF q
<1>9. Len(m) + 1 \in Occurrences(q, t)
  BY <1>7, <1>8
<1>10. Found(q, t)
  BY <1>9 DEF Found
<1>11. Find(q, t) \in Occurrences(q, t)
  BY <1>4, <1>7, <1>10, FindFacts
<1> DEFINE n == Find(q, t)
<1>12. n \in Nat /\ n >= 2 /\ n <= Len(t)
  <2>1. n \in 1..Len(t) /\ t[n] = e
    BY <1>8, <1>11
  <2> HIDE DEF n
  <2> QED
    BY <1>1, <1>7, <2>1
<1>13. Before(q, t) = SubSeq(t, 1, n - 1)
  BY DEF Before
<1> HIDE DEF n
<1>14. SubSeq(t, 1, n - 1)[1] = t[1]
  BY <1>7, <1>12, SubSeqFacts
<1>15. t \in EnvEntry
  BY <1>7, <1>10 DEF EnvEntry, EnvTexts, W, q, e
<1> QED
  BY <1>3, <1>7, <1>13, <1>14, <1>15 DEF HeaderEntry, h, q, e

\* The variables made of headers are such entries.
LEMMA HeaderVariablesSay ==
  ASSUME NEW r \in RequestType
  PROVE  HeaderVariables(r) \in Seq(HeaderEntry)
<1> DEFINE D == DOMAIN r.headers \ Unlisted
           names == SetToSeq(D)
           f == [k \in DOMAIN names |-> MetaVarName(names[k]) \o <<"=">> \o r.headers[names[k]]]
<1>1. IsFiniteSet(D) /\ D \in SUBSET Texts /\ \A k \in D : r.headers[k] \in Texts
  <2>1. r.headers \in Maps
    BY DEF RequestType
  <2>2. /\ IsFiniteSet(DOMAIN r.headers) /\ DOMAIN r.headers \in SUBSET Texts
        /\ \A k \in DOMAIN r.headers : r.headers[k] \in Texts
    BY <2>1, MapFacts DEF Maps
  <2>3. D \in SUBSET DOMAIN r.headers
    OBVIOUS
  <2> HIDE DEF D
  <2> QED
    BY <2>2, <2>3, FS_Subset
<1> HIDE DEF D
<1>2. names \in Seq(D) /\ DOMAIN names = 1..Cardinality(D)
  BY <1>1, InSomeOrder
<1> HIDE DEF names
<1>3. Cardinality(D) \in Nat /\ \A k \in DOMAIN names : names[k] \in D
  BY <1>1, <1>2, FS_CardinalityType, ElementOfSeq
<1>5. \A k \in DOMAIN names : MetaVarName(names[k]) \o <<"=">> \o r.headers[names[k]] \in HeaderEntry
  BY <1>1, <1>3, HeaderSays
<1>6. HeaderVariables(r) = f
  BY DEF HeaderVariables, names, D
<1> DEFINE n == Cardinality(D)
           X == HeaderEntry
<1>7. f \in [1..n -> X] /\ n \in Nat
  BY <1>2, <1>3, <1>5
<1> HIDE DEF f, n, X
<1>8. f \in Seq(X)
  BY <1>7
<1> QED
  BY <1>6, <1>8 DEF X

\* The entries, the server's first.
LEMMA EntriesSay ==
  ASSUME NEW r \in RequestType
  PROVE  LET t == ServerVariables(r) \o HeaderVariables(r) IN
         /\ t \in Seq(EnvEntry) /\ Len(t) \in Nat /\ Len(t) >= 9
         /\ \A i \in 1..9 : /\ Before(<<"=">>, t[i]) = <<Numbered[i]>>
                            /\ Behind(<<"=">>, t[i]) = Said(r)[i]
         /\ \A i \in 10..Len(t), k \in 1..9 : Before(<<"=">>, t[i]) # <<Numbered[k]>>
<1> DEFINE X == EnvEntry
           q == <<"=">>
           a == ServerVariables(r)
           b == HeaderVariables(r)
           t == a \o b
<1>1. a = [i \in 1..9 |-> <<Numbered[i], "=">> \o Said(r)[i]]
  BY ServerSays
<1>2. ASSUME NEW i \in 1..9
      PROVE  a[i] \in X /\ Before(q, a[i]) = <<Numbered[i]>> /\ Behind(q, a[i]) = Said(r)[i]
  <2>1. a[i] = <<Numbered[i], "=">> \o Said(r)[i]
    BY <1>1
  <2>2. Numbered[i] \in Names /\ Numbered[i] # "=" /\ Said(r)[i] \in EnvTexts
    BY NumberedFacts, SaidTyped
  <2> HIDE DEF a
  <2> DEFINE x == Numbered[i]
             v == Said(r)[i]
  <2>3. x \in Names /\ x # "=" /\ v \in EnvTexts
    BY <2>2
  <2> HIDE DEF x, v
  <2>4. /\ <<x, "=">> \o v \in EnvEntry /\ Before(<<"=">>, <<x, "=">> \o v) = <<x>>
        /\ Behind(<<"=">>, <<x, "=">> \o v) = v
    BY <2>3, EntrySays
  <2> QED
    BY <2>1, <2>4 DEF x, v
<1>3. a \in Seq(X) /\ Len(a) = 9
  <2>1. \A i \in 1..9 : a[i] \in X
    BY <1>2
  <2>2. a = [i \in 1..9 |-> a[i]]
    BY <1>1
  <2> HIDE DEF a, X
  <2> DEFINE n == 9
  <2>3. a \in [1..n -> X] /\ n \in Nat
    BY <2>1, <2>2
  <2> HIDE DEF n
  <2>4. a \in Seq(X) /\ Len(a) = n
    BY <2>3
  <2> QED
    BY <2>4 DEF n
<1>4. b \in Seq(HeaderEntry)
  BY HeaderVariablesSay
<1>5. b \in Seq(X)
  <2>1. HeaderEntry \subseteq X
    BY DEF HeaderEntry
  <2> HIDE DEF b, X
  <2> QED
    BY <1>4, <2>1, SeqInto
<1>6. \A i \in 1..Len(b) : Before(q, b[i])[1] = "HTTP_"
  <2>1. \A i \in 1..Len(b) : b[i] \in HeaderEntry
    BY <1>4, ElementOfSeq
  <2> QED
    BY <2>1 DEF HeaderEntry
<1> HIDE DEF a, b, X, q
<1>7. t \in Seq(X) /\ Concatenated(t, a, b)
  BY <1>3, <1>5, ConcatAt
<1> HIDE DEF t
<1>8. /\ Len(t) = 9 + Len(b) /\ Len(b) \in Nat /\ Len(t) \in Nat
      /\ \A i \in 1..9 : t[i] = a[i]
      /\ \A i \in 1..Len(b) : t[9 + i] = b[i]
  BY <1>3, <1>7 DEF Concatenated
<1>9. ASSUME NEW i \in 10..Len(t), NEW k \in 1..9
      PROVE  Before(q, t[i]) # <<Numbered[k]>>
  <2>1. i - 9 \in 1..Len(b) /\ 9 + (i - 9) = i
    BY <1>8
  <2>2. t[i] = b[i - 9]
    BY <1>8, <2>1
  <2>3. Before(q, t[i])[1] = "HTTP_"
    BY <1>6, <2>1, <2>2
  <2>4. <<Numbered[k]>>[1] = Numbered[k]
    OBVIOUS
  <2>5. Numbered[k] # "HTTP_"
    BY NumberedFacts
  <2> QED
    BY <2>3, <2>4, <2>5
<1>10. \A i \in 1..9 : Before(q, t[i]) = <<Numbered[i]>> /\ Behind(q, t[i]) = Said(r)[i]
  BY <1>2, <1>8
<1>11. t \in Seq(X) /\ Len(t) \in Nat /\ Len(t) >= 9
  BY <1>7, <1>8
<1> QED
  BY <1>9, <1>10, <1>11 DEF X, q, t, a, b

\* Of each variable of the server a script is told what is said under it, and of no
\* header instead.
LEMMA ServerTold ==
  ASSUME NEW r \in RequestType
  PROVE  \A k \in 1..9 : /\ <<Numbered[k]>> \in DOMAIN EnvMap(r)
                         /\ EnvMap(r)[<<Numbered[k]>>] = Said(r)[k]
<1> DEFINE M == MapsOf(EnvTexts)
           X == EnvEntry
           t == ServerVariables(r) \o HeaderVariables(r)
           e == <<>>
           q == <<"=">>
           Name(i) == <<Numbered[i]>>
           V(i) == Said(r)[i]
<1>1. /\ t \in Seq(X) /\ Len(t) \in Nat /\ Len(t) >= 9
      /\ \A i \in 1..9 : Before(q, t[i]) = <<Numbered[i]>> /\ Behind(q, t[i]) = V(i)
      /\ \A i \in 10..Len(t), k \in 1..9 : Before(q, t[i]) # <<Numbered[k]>>
  BY EntriesSay
<1>2. EnvMap(r) = FoldLeft(PutEntry, e, t)
  BY DEF EnvMap
<1>3. e \in M
  BY MapFacts
<1>4. ASSUME NEW m \in M, NEW x \in X
      PROVE  /\ PutEntry(m, x) \in M
             /\ DOMAIN PutEntry(m, x) = DOMAIN m \cup {Before(q, x)}
             /\ PutEntry(m, x)[Before(q, x)] = Behind(q, x)
             /\ \A y \in DOMAIN m : y # Before(q, x) => PutEntry(m, x)[y] = m[y]
  <2>1. x \in EnvTexts /\ Found(q, x)
    BY DEF EnvEntry
  <2>2. q \in EnvTexts
    BY ShortTexts, IntoEnv
  <2> HIDE DEF q
  <2>3. Before(q, x) \in EnvTexts /\ Behind(q, x) \in EnvTexts
    BY <2>1, <2>2, CutTyped DEF EnvTexts
  <2> HIDE DEF X
  <2>4. PutEntry(m, x) = Put(m, Before(q, x), Behind(q, x))
    BY DEF PutEntry, q
  <2> DEFINE T == EnvTexts
             name == Before(q, x)
             value == Behind(q, x)
  <2>5. m \in MapsOf(T) /\ name \in T /\ value \in T
    BY <2>3
  <2> HIDE DEF T, name, value
  <2>6. /\ Put(m, name, value) \in MapsOf(T)
        /\ Put(m, name, value)[name] = value
        /\ \A y \in DOMAIN m : y # name => Put(m, name, value)[y] = m[y]
    <3> DEFINE p == Put(m, name, value)
    <3>1. p \in MapsOf(T)
      BY <2>5, PutFacts
    <3>2. p = [y \in DOMAIN m \cup {name} |-> IF y = name THEN value ELSE m[y]]
      BY DEF Put
    <3> HIDE DEF p
    <3>3. p[name] = value /\ \A y \in DOMAIN m : y # name => p[y] = m[y]
      BY <3>2
    <3> QED
      BY <3>1, <3>3 DEF p
  <2>7. DOMAIN Put(m, name, value) = DOMAIN m \cup {name}
    BY DEF Put
  <2> QED
    BY <2>4, <2>6, <2>7 DEF T, name, value
<1> HIDE DEF M, X, e, q, t, V
<1>5. \A i \in 1..Len(t) : t[i] \in X
  BY <1>1, ElementOfSeq
<1>6. PICK g : EntrySteps(g, e, t)
  BY <1>1, <1>3, <1>4, EntryFolds
<1>7. \A i \in 0..Len(t) : g[i] \in M
  <2>1. g[0] \in M
    BY <1>3, <1>6 DEF EntrySteps
  <2>2. \A i \in 1..Len(t) : g[i - 1] \in M => g[i] \in M
    BY <1>4, <1>5, <1>6 DEF EntrySteps
  <2> QED
    BY <1>1, <2>1, <2>2, StepsStay
<1>8. ASSUME NEW i \in 1..Len(t)
      PROVE  /\ DOMAIN g[i] = DOMAIN g[i - 1] \cup {Before(q, t[i])}
             /\ g[i][Before(q, t[i])] = Behind(q, t[i])
             /\ \A y \in DOMAIN g[i - 1] : y # Before(q, t[i]) => g[i][y] = g[i - 1][y]
  <2>1. i - 1 \in 0..Len(t)
    BY <1>1
  <2>2. g[i - 1] \in M /\ t[i] \in X /\ g[i] = PutEntry(g[i - 1], t[i])
    BY <1>5, <1>6, <1>7, <2>1 DEF EntrySteps
  <2> DEFINE m == g[i - 1]
             x == t[i]
  <2>3. m \in M /\ x \in X /\ g[i] = PutEntry(m, x)
    BY <2>2
  <2> HIDE DEF m, x
  <2>4. /\ DOMAIN PutEntry(m, x) = DOMAIN m \cup {Before(q, x)}
        /\ PutEntry(m, x)[Before(q, x)] = Behind(q, x)
        /\ \A y \in DOMAIN m : y # Before(q, x) => PutEntry(m, x)[y] = m[y]
    BY <1>4, <2>3
  <2>5. /\ DOMAIN g[i] = DOMAIN m \cup {Before(q, x)}
        /\ g[i][Before(q, x)] = Behind(q, x)
        /\ \A y \in DOMAIN m : y # Before(q, x) => g[i][y] = m[y]
    BY <2>3, <2>4
  <2> QED
    BY <2>5 DEF m, x
<1> SUFFICES ASSUME NEW k \in 1..9
             PROVE  Name(k) \in DOMAIN EnvMap(r) /\ EnvMap(r)[Name(k)] = V(k)
  BY DEF V
<1>9. \A i \in 1..Len(t) : i # k => Before(q, t[i]) # Name(k)
  <2> SUFFICES ASSUME NEW i \in 1..Len(t), i # k PROVE Before(q, t[i]) # Name(k)
    OBVIOUS
  <2>1. CASE i \in 1..9
    <3>1. Numbered[i] # Numbered[k]
      BY <2>1, NumberedFacts
    <3> DEFINE u == Numbered[i]
               v == Numbered[k]
    <3>2. u # v
      BY <3>1
    <3> HIDE DEF u, v
    <3>3. <<u>> # <<v>>
      BY <3>2
    <3> QED
      BY <1>1, <2>1, <3>3 DEF u, v
  <2>2. CASE i \in 10..Len(t)
    BY <1>1, <2>2
  <2> QED
    BY <1>1, <2>1, <2>2
<1>10. Before(q, t[k]) = Name(k) /\ Behind(q, t[k]) = V(k)
  BY <1>1
<1> HIDE DEF Name
<1> DEFINE Good == {i \in Nat : i <= Len(t) /\ i >= k => Name(k) \in DOMAIN g[i] /\ g[i][Name(k)] = V(k)}
<1>11. 0 \in Good
  OBVIOUS
<1>12. ASSUME NEW i \in Nat, i \in Good
       PROVE  i + 1 \in Good
  <2> SUFFICES ASSUME i + 1 <= Len(t), i + 1 >= k
               PROVE  Name(k) \in DOMAIN g[i + 1] /\ g[i + 1][Name(k)] = V(k)
    OBVIOUS
  <2>1. i + 1 \in 1..Len(t) /\ i + 1 - 1 = i /\ i <= Len(t)
    BY <1>1
  <2>2. /\ DOMAIN g[i + 1] = DOMAIN g[i] \cup {Before(q, t[i + 1])}
        /\ g[i + 1][Before(q, t[i + 1])] = Behind(q, t[i + 1])
        /\ \A y \in DOMAIN g[i] : y # Before(q, t[i + 1]) => g[i + 1][y] = g[i][y]
    BY <1>8, <2>1
  <2>3. CASE i + 1 = k
    BY <1>10, <2>2, <2>3
  <2>4. CASE i + 1 # k
    <3>1. i >= k
      BY <2>4
    <3>2. Name(k) \in DOMAIN g[i] /\ g[i][Name(k)] = V(k)
      BY <1>12, <2>1, <3>1
    <3>3. Before(q, t[i + 1]) # Name(k)
      BY <1>9, <2>1, <2>4
    <3> QED
      BY <2>2, <3>2, <3>3
  <2> QED
    BY <2>3, <2>4
<1> HIDE DEF Good
<1>13. Len(t) \in Good
  BY <1>1, <1>11, <1>12, Induction
<1>14. Name(k) \in DOMAIN g[Len(t)] /\ g[Len(t)][Name(k)] = V(k)
  BY <1>1, <1>13 DEF Good
<1> QED
  BY <1>2, <1>6, <1>14 DEF EntrySteps

\* A script is always told a query string.
LEMMA QueryTold ==
  ASSUME NEW r \in RequestType
  PROVE  <<"QUERY_STRING">> \in DOMAIN EnvMap(r)
<1>1. <<Numbered[5]>> \in DOMAIN EnvMap(r)
  BY ServerTold
<1> QED
  BY <1>1 DEF Numbered

----------------------------------------------------------------------------
(* What was received, segment by segment.                                  *)

\* What a client means to say is a text.
LEMMA MessageTyped ==
  ASSUME NEW it \in Intent
  PROVE  HeadOf(it) \in Texts /\ HeadOf(it) \o it.body \in Texts
<1> DEFINE sp == <<" ">>
           fs == it.fields
           ls == [k \in DOMAIN fs |-> FieldLine(fs[k])]
           m == it.method
           t == it.target
           p == it.protocol
           b == it.body
           crlf == CRLF
           colon == <<":">>
           e == <<>>
<1>1. /\ m \in Seq(Piece) /\ t \in Seq(Piece) /\ p \in Seq(Piece) /\ b \in Seq(Piece)
      /\ fs \in Seq(Field)
  BY DEF Intent, Texts
<1>2. sp \in Seq(Piece) /\ crlf \in Seq(Piece) /\ colon \in Seq(Piece) /\ e \in Seq(Piece)
  BY ShortTexts, CRLFFacts DEF Texts
<1>3. Len(fs) \in Nat /\ DOMAIN fs = 1..Len(fs) /\ \A k \in 1..Len(fs) : fs[k] \in Field
  BY <1>1, LenProperties, ElementOfSeq
<1> HIDE DEF fs, sp, crlf, m, t, p, b, colon, e
<1>4. ASSUME NEW k \in 1..Len(fs)
      PROVE  FieldLine(fs[k]) \in Seq(Piece)
  <2> DEFINE f == fs[k]
             n == f.name
             c == IF f.colon THEN colon ELSE e
             s == f.space
             v == f.value
  <2>1. n \in Seq(Piece) /\ s \in Seq(Piece) /\ v \in Seq(Piece)
    BY <1>3 DEF Field, Texts
  <2>2. c \in Seq(Piece)
    BY <1>2
  <2>3. FieldLine(f) = n \o c \o s \o v \o s \o crlf
    BY DEF FieldLine, ContentOf, crlf, colon, e
  <2> HIDE DEF f, n, c, s, v
  <2>4. n \o c \in Seq(Piece)
    BY <2>1, <2>2, ConcatProperties
  <2>5. n \o c \o s \in Seq(Piece)
    BY <2>1, <2>4, ConcatProperties
  <2>6. n \o c \o s \o v \in Seq(Piece)
    BY <2>1, <2>5, ConcatProperties
  <2>7. n \o c \o s \o v \o s \in Seq(Piece)
    BY <2>1, <2>6, ConcatProperties
  <2>8. n \o c \o s \o v \o s \o crlf \in Seq(Piece)
    BY <1>2, <2>7, ConcatProperties
  <2> QED
    BY <2>3, <2>8 DEF f
<1>5. ls \in [1..Len(fs) -> Seq(Piece)]
  BY <1>3, <1>4
<1>6. HeadOf(it) = m \o sp \o t \o sp \o p \o crlf \o FlattenSeq(ls) \o crlf
  BY DEF HeadOf, LineOf, m, t, p, sp, crlf, fs
<1> HIDE DEF ls
<1>7. ls \in Seq(Seq(Piece))
  <2> DEFINE Q == Seq(Piece)
             n == Len(fs)
  <2>1. ls \in [1..n -> Q] /\ n \in Nat
    BY <1>3, <1>5
  <2> HIDE DEF Q, n
  <2>2. ls \in Seq(Q)
    BY <2>1
  <2> QED
    BY <2>2 DEF Q
<1> DEFINE fl == FlattenSeq(ls)
<1>8. fl \in Seq(Piece)
  BY <1>7, FlattenFacts
<1> HIDE DEF fl
<1>9. m \o sp \in Seq(Piece)
  BY <1>1, <1>2, ConcatProperties
<1>10. m \o sp \o t \in Seq(Piece)
  BY <1>1, <1>9, ConcatProperties
<1>11. m \o sp \o t \o sp \in Seq(Piece)
  BY <1>2, <1>10, ConcatProperties
<1>12. m \o sp \o t \o sp \o p \in Seq(Piece)
  BY <1>1, <1>11, ConcatProperties
<1>13. m \o sp \o t \o sp \o p \o crlf \in Seq(Piece)
  BY <1>2, <1>12, ConcatProperties
<1>14. m \o sp \o t \o sp \o p \o crlf \o fl \in Seq(Piece)
  BY <1>8, <1>13, ConcatProperties
<1>15. m \o sp \o t \o sp \o p \o crlf \o fl \o crlf \in Seq(Piece)
  BY <1>2, <1>14, ConcatProperties
<1>16. HeadOf(it) \in Seq(Piece)
  BY <1>6, <1>15 DEF fl
<1> DEFINE h == HeadOf(it)
<1>17. h \in Seq(Piece)
  BY <1>16
<1> HIDE DEF h
<1>18. h \o b \in Seq(Piece)
  BY <1>1, <1>17, ConcatProperties
<1> QED
  BY <1>17, <1>18 DEF h, b, Texts

\* The front of a text.
LEMMA FrontFacts ==
  ASSUME NEW S, NEW s \in Seq(S), NEW n \in Nat, n <= Len(s)
  PROVE  /\ SubSeq(s, 1, n) \in Seq(S) /\ Len(SubSeq(s, 1, n)) = n
         /\ \A i \in 1..n : SubSeq(s, 1, n)[i] = s[i]
<1> DEFINE u == SubSeq(s, 1, n)
<1>1. 1 \in Nat /\ 1 >= 1
  OBVIOUS
<1>2. /\ u \in Seq(S) /\ Len(u) = IF 1 <= n THEN n - 1 + 1 ELSE 0
      /\ \A i \in 1..(n - 1 + 1) : u[i] = s[1 + i - 1]
  BY <1>1, SubSeqFacts
<1> HIDE DEF u
<1>3. u \in Seq(S) /\ Len(u) = n /\ \A i \in 1..n : u[i] = s[i]
  BY <1>2
<1> QED
  BY <1>3 DEF u

\* A segment more.
LEMMA SegmentJoins ==
  ASSUME NEW S, NEW s \in Seq(S), NEW a \in Nat, NEW n \in Nat, a + n <= Len(s)
  PROVE  SubSeq(s, 1, a) \o SubSeq(s, a + 1, a + n) = SubSeq(s, 1, a + n)
<1> DEFINE u == SubSeq(s, 1, a)
           v == SubSeq(s, a + 1, a + n)
           w == SubSeq(s, 1, a + n)
<1>1. Len(s) \in Nat
  BY LenProperties
<1>2. u \in Seq(S) /\ Len(u) = a /\ \A i \in 1..a : u[i] = s[i]
  <2>1. a <= Len(s)
    BY <1>1
  <2> QED
    BY <2>1, FrontFacts
<1>3. v \in Seq(S) /\ Len(v) = n /\ \A i \in 1..n : v[i] = s[a + i]
  <2>1. a + 1 \in Nat /\ a + 1 >= 1 /\ a + n \in Nat
    OBVIOUS
  <2>2. /\ v \in Seq(S) /\ Len(v) = IF a + 1 <= a + n THEN a + n - (a + 1) + 1 ELSE 0
        /\ \A i \in 1..(a + n - (a + 1) + 1) : v[i] = s[a + 1 + i - 1]
    BY <2>1, SubSeqFacts
  <2> HIDE DEF v
  <2>3. a + n - (a + 1) + 1 = n /\ (~(a + 1 <= a + n) => n = 0)
    OBVIOUS
  <2>4. v \in Seq(S) /\ Len(v) = n /\ \A i \in 1..n : v[i] = s[a + 1 + i - 1]
    BY <2>2, <2>3
  <2>5. \A i \in 1..n : a + 1 + i - 1 = a + i
    OBVIOUS
  <2> QED
    BY <2>4, <2>5
<1>4. w \in Seq(S) /\ Len(w) = a + n /\ \A i \in 1..(a + n) : w[i] = s[i]
  <2> DEFINE m == a + n
  <2>1. m \in Nat /\ m <= Len(s)
    OBVIOUS
  <2> HIDE DEF m
  <2>2. /\ SubSeq(s, 1, m) \in Seq(S) /\ Len(SubSeq(s, 1, m)) = m
        /\ \A i \in 1..m : SubSeq(s, 1, m)[i] = s[i]
    BY <2>1, FrontFacts
  <2> QED
    BY <2>2 DEF m
<1> HIDE DEF u, v, w
<1>5. /\ u \o v \in Seq(S) /\ Len(u \o v) = Len(u) + Len(v)
      /\ \A i \in 1..(Len(u) + Len(v)) : (u \o v)[i] = IF i <= Len(u) THEN u[i] ELSE v[i - Len(u)]
  BY <1>2, <1>3, ConcatProperties
<1> DEFINE x == u \o v
<1>6. /\ x \in Seq(S) /\ Len(x) = a + n
      /\ \A i \in 1..(a + n) : x[i] = IF i <= a THEN u[i] ELSE v[i - a]
  BY <1>2, <1>3, <1>5
<1> HIDE DEF x
<1>7. ASSUME NEW i \in 1..(a + n)
      PROVE  x[i] = w[i]
  <2>1. CASE i <= a
    <3>1. i \in 1..a
      BY <2>1
    <3>2. x[i] = u[i] /\ u[i] = s[i] /\ w[i] = s[i]
      BY <1>2, <1>4, <1>6, <2>1, <3>1
    <3> QED
      BY <3>2
  <2>2. CASE ~(i <= a)
    <3>1. i - a \in 1..n /\ a + (i - a) = i
      BY <2>2
    <3> QED
      BY <1>3, <1>4, <1>6, <2>2, <3>1
  <2> QED
    BY <2>1, <2>2
<1>8. x = w
  BY <1>4, <1>6, <1>7, SeqEqual
<1> QED
  BY <1>8 DEF x, u, v, w

\* The text up to a blank line that is found.
LEMMA BlankCut ==
  ASSUME NEW s \in Texts, Found(CRLF \o CRLF, s)
  PROVE  LET pos == Find(CRLF \o CRLF, s) + 3 IN
         /\ pos \in 0..Len(s) /\ SubSeq(s, 1, pos) \in Texts
         /\ Found(CRLF, SubSeq(s, 1, pos)) /\ Drop(pos, s) \in Texts
<1> DEFINE p == CRLF \o CRLF
           i == Find(p, s)
           raw == SubSeq(s, 1, i + 3)
<1>1. s \in Seq(Piece) /\ Len(s) \in Nat
  BY LenProperties DEF Texts
<1>2. p \in Seq(Piece) /\ Len(p) = 4 /\ Found(p, s)
  BY CRLFSeq
<1>3. p = <<"\r", "\n", "\r", "\n">>
  BY BlankLine
<1>4. i \in Occurrences(p, s) /\ i \in Nat
  <2> HIDE DEF p
  <2> QED
    BY <1>1, <1>2, FindFacts
<1> HIDE DEF i
<1>5. i \in 1..(Len(s) - 3) /\ s[i] = "\r" /\ s[i + 1] = "\n"
  <2> DEFINE r == "\r"
             n == "\n"
  <2>1. r \in Piece /\ n \in Piece
    BY PieceFacts
  <2>2. i \in Occurrences(<<r, n, r, n>>, s)
    BY <1>3, <1>4
  <2> HIDE DEF r, n
  <2>3. i \in 1..(Len(s) - 3) /\ s[i] = r /\ s[i + 1] = n
    BY <1>1, <2>1, <2>2, OccursFour
  <2> QED
    BY <2>3 DEF r, n
<1>6. i + 3 \in Nat /\ i + 3 <= Len(s) /\ i >= 1 /\ 1 \in Nat /\ 1 >= 1
  BY <1>1, <1>5
<1>7. raw \in Seq(Piece) /\ Len(raw) = i + 3 /\ \A k \in 1..(i + 3) : raw[k] = s[k]
  <2> DEFINE m == i + 3
  <2>1. m \in Nat /\ m <= Len(s)
    BY <1>6
  <2> HIDE DEF m
  <2>2. /\ SubSeq(s, 1, m) \in Seq(Piece) /\ Len(SubSeq(s, 1, m)) = m
        /\ \A k \in 1..m : SubSeq(s, 1, m)[k] = s[k]
    BY <1>1, <2>1, FrontFacts
  <2> QED
    BY <2>2 DEF m
<1> HIDE DEF raw
<1>8. i \in 1..(Len(raw) - 1) /\ raw[i] = "\r" /\ raw[i + 1] = "\n"
  BY <1>4, <1>5, <1>6, <1>7
<1>9. i \in Occurrences(<<"\r", "\n">>, raw)
  BY <1>7, <1>8, PieceFacts, OccursTwo
<1>10. Found(CRLF, raw)
  BY <1>9 DEF Found, CRLF
<1>11. Drop(i + 3, s) \in Seq(Piece)
  BY <1>1, <1>6, DropFacts
<1>12. i + 3 \in 0..Len(s)
  BY <1>1, <1>6
<1> QED
  BY <1>7, <1>10, <1>11, <1>12 DEF i, p, raw, Texts

----------------------------------------------------------------------------
(* appendData and handleHeaders: the types, and where the head ends.       *)

ClientType ==
  [headers : Texts, endHeaders : BOOLEAN, reqComplete : BOOLEAN, requestError : BOOLEAN,
   hasBody : BOOLEAN, bodySize : 0..MaxInt, code : {0, 400, 411, 414}, bodyStart : Texts]

\* What handleHeaders decides for a request whose length is n.
Decided(c, r, n) ==
  /\ c.requestError <=> r.error
  /\ ~r.error =>
       /\ c.hasBody <=> r.method = <<"POST">> /\ n # 0
       /\ c.code = 411 <=> r.method = <<"POST">> /\ n = 0
       /\ c.hasBody => c.bodySize = n

\* The types, and what of the message was received.
IInv ==
  /\ intent \in Intents
  /\ message = HeadOf(intent) \o intent.body
  /\ taken \in 0..Len(message)
  /\ client \in ClientType
  /\ client.headers = SubSeq(message, 1, taken)
  /\ ~client.endHeaders => client = [NewClient EXCEPT !.headers = client.headers]
  /\ request \in RequestType
  /\ env # <<>> => <<"QUERY_STRING">> \in DOMAIN env

\* What was received, and where the head ends in it.
Received == SubSeq(message, 1, taken)
HeaderPos(s) == Find(CRLF \o CRLF, s) + 3

\* What a call of appendData has done.
Appended ==
  /\ ~client.endHeaders /\ taken' \in 0..Len(message)
  /\ UNCHANGED <<intent, message, env>>
  /\ client' \in ClientType /\ request' \in RequestType
  /\ client'.headers = Received'
  /\ client'.endHeaders <=> Found(CRLF \o CRLF, Received')
  /\ ~client'.endHeaders => client' = [NewClient EXCEPT !.headers = client'.headers]
  /\ client'.endHeaders =>
       /\ request' = ParseRequest(SubSeq(Received', 1, HeaderPos(Received')))
       /\ client'.bodyStart = Drop(HeaderPos(Received'), Received')
       /\ \E n \in GetContentLength(request') : Decided(client', request', n)

\* A client that has received h, and what handleHeaders and appendData make of it.
FreshWith(h) == [NewClient EXCEPT !.headers = h]
HandledWith(h, r, n, b) ==
  [HandleHeaders(FreshWith(h), r, n) EXCEPT !.endHeaders = TRUE, !.bodyStart = b]

\* What handleHeaders makes of a client that has just received its head.
LEMMA HeadersHandled ==
  ASSUME NEW h \in Texts, NEW r \in RequestType, NEW n \in 0..MaxInt, NEW b \in Texts
  PROVE  /\ HandledWith(h, r, n, b) \in ClientType
         /\ HandledWith(h, r, n, b).headers = h
         /\ HandledWith(h, r, n, b).endHeaders = TRUE
         /\ HandledWith(h, r, n, b).bodyStart = b
         /\ Decided(HandledWith(h, r, n, b), r, n)
<1> DEFINE e == <<>>
           post == <<"POST">>
           c == FreshWith(h)
           d == HandledWith(h, r, n, b)
<1>1. e \in Texts
  BY ShortTexts
<1>12. NewClient = [headers |-> e, endHeaders |-> FALSE, reqComplete |-> FALSE,
                    requestError |-> FALSE, hasBody |-> FALSE, bodySize |-> 0, code |-> 0,
                    bodyStart |-> e]
  BY DEF NewClient
<1>3. r.error \in BOOLEAN /\ r.statusCode \in {400, 414}
  BY DEF RequestType
<1> DEFINE Z == 0..MaxInt
           K == {0, 400, 411, 414}
<1>4. 0 \in Z /\ n \in Z /\ 0 \in K /\ 411 \in K /\ r.statusCode \in K
  BY <1>3, NumberAssumption
<1>11. ClientType =
         [headers : Texts, endHeaders : BOOLEAN, reqComplete : BOOLEAN,
          requestError : BOOLEAN, hasBody : BOOLEAN, bodySize : Z, code : K,
          bodyStart : Texts]
  BY DEF ClientType
<1> HIDE DEF e, Z, K, c
<1>13. NewClient \in ClientType
  BY <1>1, <1>4, <1>11, <1>12
<1>14. /\ NewClient.code = 0 /\ NewClient.hasBody = FALSE /\ NewClient.requestError = FALSE
  BY <1>12
<1>15. c = [NewClient EXCEPT !.headers = h]
  BY DEF c, FreshWith
<1>5. c \in ClientType
  BY <1>11, <1>13, <1>15
<1>2. c.headers = h /\ c.code = 0 /\ c.hasBody = FALSE /\ c.requestError = FALSE
  BY <1>11, <1>13, <1>14, <1>15
<1> DEFINE k == HandleHeaders(c, r, n)
<1>6. k = IF r.error
          THEN [c EXCEPT !.reqComplete = TRUE, !.requestError = TRUE, !.code = r.statusCode]
          ELSE IF r.method # post THEN [c EXCEPT !.bodySize = n, !.reqComplete = TRUE]
          ELSE IF n = 0 THEN [c EXCEPT !.reqComplete = TRUE, !.code = 411]
          ELSE [c EXCEPT !.bodySize = n, !.hasBody = TRUE]
  BY DEF HandleHeaders
<1>7. d = [k EXCEPT !.endHeaders = TRUE, !.bodyStart = b]
  BY DEF HandledWith, c
<1> HIDE DEF k, post, d
<1>8. /\ k \in ClientType /\ k.headers = h
      /\ k.requestError <=> r.error
      /\ ~r.error => /\ k.hasBody <=> r.method = post /\ n # 0
                     /\ k.code = 411 <=> r.method = post /\ n = 0
                     /\ k.hasBody => k.bodySize = n
  <2>1. CASE r.error
    <3>1. k = [c EXCEPT !.reqComplete = TRUE, !.requestError = TRUE, !.code = r.statusCode]
      BY <1>6, <2>1
    <3>2. k \in ClientType
      BY <1>4, <1>5, <1>11, <3>1, ZenonT(60)
    <3>3. k.headers = h /\ k.requestError = TRUE
      BY <1>2, <1>5, <1>11, <3>1
    <3> QED
      BY <1>3, <2>1, <3>2, <3>3
  <2>2. CASE ~r.error /\ r.method # post
    <3>1. k = [c EXCEPT !.bodySize = n, !.reqComplete = TRUE]
      BY <1>6, <2>2
    <3>2. k \in ClientType
      BY <1>4, <1>5, <1>11, <3>1, ZenonT(60)
    <3>3. k.headers = h /\ k.requestError = FALSE /\ k.hasBody = FALSE /\ k.code = 0
      BY <1>2, <1>5, <1>11, <3>1
    <3> QED
      BY <1>3, <2>2, <3>2, <3>3
  <2>3. CASE ~r.error /\ r.method = post /\ n = 0
    <3>1. k = [c EXCEPT !.reqComplete = TRUE, !.code = 411]
      BY <1>6, <2>3
    <3>2. k \in ClientType
      BY <1>4, <1>5, <1>11, <3>1, ZenonT(60)
    <3>3. k.headers = h /\ k.requestError = FALSE /\ k.hasBody = FALSE /\ k.code = 411
      BY <1>2, <1>5, <1>11, <3>1
    <3> QED
      BY <1>3, <2>3, <3>2, <3>3
  <2>4. CASE ~r.error /\ r.method = post /\ n # 0
    <3>1. k = [c EXCEPT !.bodySize = n, !.hasBody = TRUE]
      BY <1>6, <2>4
    <3>2. k \in ClientType
      BY <1>4, <1>5, <1>11, <3>1, ZenonT(60)
    <3>3. k.headers = h /\ k.requestError = FALSE /\ k.hasBody = TRUE /\ k.code = 0 /\ k.bodySize = n
      BY <1>2, <1>5, <1>11, <3>1
    <3> QED
      BY <1>3, <2>4, <3>2, <3>3
  <2> QED
    BY <1>3, <2>1, <2>2, <2>3, <2>4
<1>9. /\ d \in ClientType /\ d.headers = h /\ d.endHeaders = TRUE /\ d.bodyStart = b
      /\ d.requestError = k.requestError /\ d.hasBody = k.hasBody /\ d.code = k.code
      /\ d.bodySize = k.bodySize
  <2>1. k \in ClientType /\ k.headers = h
    BY <1>8
  <2>2. d \in ClientType
    BY <1>7, <1>11, <2>1
  <2>3. d.headers = h /\ d.endHeaders = TRUE /\ d.bodyStart = b
    BY <1>7, <1>11, <2>1
  <2>4. /\ d.requestError = k.requestError /\ d.hasBody = k.hasBody /\ d.code = k.code
        /\ d.bodySize = k.bodySize
    BY <1>7, <1>11, <2>1
  <2> QED
    BY <2>2, <2>3, <2>4
<1>10. Decided(d, r, n)
  BY <1>8, <1>9 DEF Decided, post
<1> QED
  BY <1>9, <1>10 DEF d

\* A call of appendData does what Appended says.
LEMMA Appending ==
  ASSUME IInv, NEW n \in 1..MaxSegment, AppendData(n)
  PROVE  Appended
<1> DEFINE joined == Collected(client.headers, SubSeq(message, taken + 1, taken + n))
           s == SubSeq(message, 1, taken + n)
           pos == HeaderPos(s)
           raw == SubSeq(s, 1, pos)
           grown == [client EXCEPT !.headers = s]
           b == Drop(pos, s)
           blank == CRLF \o CRLF
<1>1. /\ intent \in Intent /\ message = HeadOf(intent) \o intent.body
      /\ taken \in 0..Len(message) /\ client \in ClientType
      /\ client.headers = SubSeq(message, 1, taken) /\ request \in RequestType
      /\ ~client.endHeaders => client = [NewClient EXCEPT !.headers = client.headers]
  BY IntentsAssumption DEF IInv
<1>2. message \in Texts /\ Len(message) \in Nat
  <2>1. message \in Texts
    BY <1>1, MessageTyped
  <2> QED
    BY <2>1, LenProperties DEF Texts
<1>3. n \in Nat /\ taken \in Nat
  BY <1>1, <1>2, SegmentAssumption
<1>4. ~client.endHeaders /\ taken + n <= Len(message) /\ taken' = taken + n
      /\ intent' = intent /\ message' = message /\ env' = env
  BY DEF AppendData
<1>5. joined = s
  <2>1. SubSeq(message, 1, taken) \o SubSeq(message, taken + 1, taken + n) = s
    BY <1>2, <1>3, <1>4, SegmentJoins DEF Texts
  <2> QED
    BY <1>1, <2>1 DEF Collected
<1>6. IF Found(blank, s)
      THEN /\ request' = ParseRequest(raw)
           /\ \E length \in GetContentLength(request') :
                client' = [HandleHeaders(grown, request', length) EXCEPT
                             !.endHeaders = TRUE, !.bodyStart = b]
      ELSE client' = grown /\ UNCHANGED request
  <2>1. IF Found(blank, joined)
        THEN /\ request' = ParseRequest(SubSeq(joined, 1, Find(blank, joined) + 3))
             /\ \E length \in GetContentLength(request') :
                  client' = [HandleHeaders([client EXCEPT !.headers = joined], request', length)
                               EXCEPT !.endHeaders = TRUE,
                                      !.bodyStart = Drop(Find(blank, joined) + 3, joined)]
        ELSE client' = [client EXCEPT !.headers = joined] /\ UNCHANGED request
    BY DEF AppendData
  <2> HIDE DEF joined, blank, s
  <2> QED
    BY <1>5, <2>1 DEF HeaderPos, blank
<1>7. s \in Texts
  <2> DEFINE m == taken + n
  <2>1. m \in Nat /\ m <= Len(message)
    BY <1>3, <1>4
  <2> HIDE DEF m
  <2>2. SubSeq(message, 1, m) \in Seq(Piece)
    BY <1>2, <2>1, FrontFacts DEF Texts
  <2> QED
    BY <2>2 DEF m, Texts
<1>8. taken' \in 0..Len(message) /\ Received' = s
  <2>1. taken + n \in 0..Len(message)
    BY <1>2, <1>3, <1>4
  <2> QED
    BY <1>4, <2>1 DEF Received
<1> HIDE DEF joined, s
<1>9. grown = [NewClient EXCEPT !.headers = s]
  <2> DEFINE fresh == [NewClient EXCEPT !.headers = client.headers]
  <2>1. grown = [fresh EXCEPT !.headers = s]
    BY <1>1, <1>4
  <2> QED
    BY <2>1 DEF NewClient
<1>10. CASE Found(blank, s)
  <2>1. raw \in Texts /\ Found(CRLF, raw) /\ b \in Texts
    BY <1>7, <1>10, BlankCut DEF HeaderPos
  <2>2. request' = ParseRequest(raw) /\ request' \in RequestType
    BY <1>6, <1>10, <2>1, RequestTyped
  <2>3. PICK length \in GetContentLength(request') :
          client' = [HandleHeaders(grown, request', length) EXCEPT
                       !.endHeaders = TRUE, !.bodyStart = b]
    BY <1>6, <1>10
  <2>4. length \in 0..MaxInt
    BY LengthTyped
  <2> HIDE DEF raw, b, grown
  <2> DEFINE r == request'
  <2>5. r \in RequestType /\ client' = HandledWith(s, r, length, b)
    BY <1>9, <2>2, <2>3 DEF HandledWith, FreshWith
  <2> HIDE DEF r
  <2> DEFINE d == HandledWith(s, r, length, b)
  <2>6. /\ d \in ClientType /\ d.headers = s /\ d.endHeaders = TRUE /\ d.bodyStart = b
        /\ Decided(d, r, length)
    BY <1>7, <2>1, <2>4, <2>5, HeadersHandled, ZenonT(60)
  <2> HIDE DEF d
  <2>7. /\ client' \in ClientType /\ client'.headers = s /\ client'.endHeaders = TRUE
        /\ client'.bodyStart = b /\ Decided(client', request', length)
    BY <2>5, <2>6 DEF d, r
  <2>8. /\ raw = SubSeq(Received', 1, HeaderPos(Received'))
        /\ b = Drop(HeaderPos(Received'), Received')
    BY <1>8 DEF raw, b
  <2> QED
    BY <1>4, <1>8, <1>10, <2>2, <2>7, <2>8 DEF Appended, blank
<1>11. CASE ~Found(blank, s)
  <2>1. client' = grown /\ request' = request
    BY <1>6, <1>11
  <2>2. grown \in ClientType /\ grown.headers = s /\ grown.endHeaders = FALSE
    BY <1>1, <1>4, <1>7, ZenonT(60) DEF ClientType
  <2> HIDE DEF grown
  <2>3. client' \in ClientType /\ client'.headers = s /\ client'.endHeaders = FALSE
    BY <2>1, <2>2
  <2>4. client' = [NewClient EXCEPT !.headers = client'.headers]
    BY <1>9, <2>1, <2>3
  <2> QED
    BY <1>1, <1>4, <1>8, <1>11, <2>1, <2>3, <2>4 DEF Appended, blank
<1> QED
  BY <1>10, <1>11

\* The types hold at the start,
LEMMA StartsTyped == Init => IInv
<1> SUFFICES ASSUME Init PROVE IInv
  OBVIOUS
<1> DEFINE e == <<>>
<1>1. /\ intent \in Intents /\ message = HeadOf(intent) \o intent.body
      /\ taken = 0 /\ client = NewClient /\ request = NewRequest /\ env = e
  BY DEF Init
<1>2. message \in Texts /\ Len(message) \in Nat
  <2>1. message \in Texts
    BY <1>1, IntentsAssumption, MessageTyped
  <2> QED
    BY <2>1, LenProperties DEF Texts
<1>3. SubSeq(message, 1, 0) = e
  BY SubSeqEmpty
<1>7. 0 \in 0..MaxInt
  BY NumberAssumption
<1>4. e \in Texts /\ 0 \in 0..MaxInt
  BY <1>7, ShortTexts
<1>5. NewClient \in ClientType /\ NewClient.headers = e
      /\ NewClient = [NewClient EXCEPT !.headers = NewClient.headers]
  <2>1. NewClient = [headers |-> e, endHeaders |-> FALSE, reqComplete |-> FALSE,
                     requestError |-> FALSE, hasBody |-> FALSE, bodySize |-> 0, code |-> 0,
                     bodyStart |-> e]
    BY DEF NewClient
  <2> HIDE DEF e
  <2> QED
    BY <1>4, <2>1 DEF ClientType
<1>6. NewRequest \in RequestType
  BY NewTyped
<1> HIDE DEF e
<1> QED
  BY <1>1, <1>2, <1>3, <1>5, <1>6 DEF IInv, e

\* and each step keeps them.
LEMMA StepTyped == IInv /\ [Next]_vars => IInv'
<1> SUFFICES ASSUME IInv, [Next]_vars PROVE IInv'
  OBVIOUS
<1>1. ASSUME NEW n \in 1..MaxSegment, AppendData(n)
      PROVE  IInv'
  <2>1. Appended
    BY <1>1, Appending
  <2> QED
    BY <2>1 DEF Appended, IInv, Received
<1>2. CASE BuildCGIEnv
  <2>1. request \in RequestType /\ env' = EnvMap(request)
        /\ UNCHANGED <<intent, message, taken, client, request>>
    BY <1>2 DEF BuildCGIEnv, IInv
  <2>2. <<"QUERY_STRING">> \in DOMAIN env'
    BY <2>1, QueryTold
  <2> QED
    BY <2>1, <2>2 DEF IInv
<1>3. CASE UNCHANGED vars
  BY <1>3 DEF vars, IInv
<1> QED
  BY <1>1, <1>2, <1>3 DEF Next

\* The parts have their types, and a script is always told a query string.
THEOREM RequestHeadTyped == Spec => []TypeOK
<1>1. IInv => TypeOK
  <2> SUFFICES ASSUME IInv PROVE TypeOK
    OBVIOUS
  <2>1. client.code \in {0, 400, 411, 414} /\ client.bodySize \in 0..MaxInt
    BY DEF IInv, ClientType
  <2>2. request.error \in BOOLEAN /\ request.statusCode \in {400, 414}
    BY DEF IInv, RequestType
  <2> QED
    BY <2>1, <2>2 DEF IInv, TypeOK
<1> QED
  BY <1>1, StartsTyped, StepTyped, PTL DEF Spec

\* What each client means to say has lines, and none of them is empty.
AllUnbroken == \A it \in Intents : Unbroken(it)

\* The head ends exactly, and what was decided then is about the whole of it.
HInv ==
  /\ HeadEndsExactly
  /\ client.endHeaders =>
       /\ request = ParseRequest(HeadOf(intent))
       /\ \E n \in GetContentLength(request) : Decided(client, request, n)

\* Before anything is received the head has not ended,
LEMMA StartsExactly == AllUnbroken /\ Init => HInv
<1> SUFFICES ASSUME AllUnbroken, Init PROVE HInv
  OBVIOUS
<1>1. intent \in Intent /\ Unbroken(intent) /\ taken = 0 /\ client.endHeaders = FALSE
      /\ message = HeadOf(intent) \o intent.body
  BY IntentsAssumption DEF AllUnbroken, Init, NewClient
<1> DEFINE h == HeadOf(intent)
           b == intent.body
<1>2. Len(h) \in Nat /\ Len(h) >= 4
  BY <1>1, WholeHead
<1>3. Len(message) = Len(h) + Len(b)
  <2>1. IInv
    BY StartsTyped
  <2>2. taken \in 0..Len(h \o b)
    BY <1>1, <2>1 DEF IInv
  <2>3. Len(h \o b) = Len(h) + Len(b)
    BY <1>1, <2>2, BlankLineFound
  <2> QED
    BY <1>1, <2>3
<1>4. Len(b) \in Nat
  BY <1>1, LenProperties DEF Intent, Texts
<1> HIDE DEF h, b
<1>5. ~(taken >= Len(message) - Len(b))
  BY <1>1, <1>2, <1>3, <1>4
<1> QED
  BY <1>1, <1>5 DEF HInv, HeadEndsExactly, b

\* and a segment ends it exactly if it completes the blank line.
LEMMA StepExactly == AllUnbroken /\ IInv /\ HInv /\ [Next]_vars => HInv'
<1> SUFFICES ASSUME AllUnbroken, IInv, HInv, [Next]_vars PROVE HInv'
  OBVIOUS
<1>1. ASSUME NEW k \in 1..MaxSegment, AppendData(k)
      PROVE  HInv'
  <2> DEFINE h == HeadOf(intent)
             b == intent.body
             m == h \o b
             t == taken'
             s == SubSeq(m, 1, t)
             blank == CRLF \o CRLF
  <2>1. Appended
    BY <1>1, Appending
  <2>2. intent \in Intent /\ Unbroken(intent) /\ message = m /\ message' = m
        /\ intent' = intent /\ t \in 0..Len(m)
    BY <2>1, IntentsAssumption DEF AllUnbroken, IInv, Appended
  <2>3. Received' = s
    BY <2>2 DEF Received
  <2>4. /\ m \in Seq(Piece) /\ Len(m) = Len(h) + Len(b)
        /\ s \in Seq(Piece) /\ Len(s) = t
        /\ Found(blank, s) <=> t >= Len(h)
        /\ Found(blank, s) => Find(blank, s) = Len(h) - 3 /\ SubSeq(s, 1, Len(h)) = h
    <3> HIDE DEF t
    <3> QED
      BY <2>2, BlankLineFound
  <2>5. h \in Seq(Piece) /\ b \in Seq(Piece) /\ Len(h) \in Nat /\ Len(b) \in Nat /\ t \in Nat
    <3>1. h \in Seq(Piece) /\ Len(h) \in Nat
      BY <2>2, WholeHead
    <3>2. b \in Seq(Piece)
      BY <2>2 DEF Intent, Texts
    <3>3. Len(b) \in Nat
      BY <3>2, LenProperties
    <3> QED
      BY <2>2, <2>4, <3>1, <3>2, <3>3
  <2>6. Len(message') - Len(intent'.body) = Len(h)
    BY <2>2, <2>4, <2>5
  <2>7. client'.endHeaders <=> t >= Len(h)
    BY <2>1, <2>3, <2>4 DEF Appended
  <2> DEFINE lh == Len(h)
  <2>8. ASSUME t >= lh
        PROVE  /\ HeaderPos(s) = lh
               /\ SubSeq(s, 1, HeaderPos(s)) = h
               /\ Drop(HeaderPos(s), s) = SubSeq(b, 1, t - lh)
    <3>1. HeaderPos(s) = lh
      <4>1. Find(blank, s) = lh - 3
        BY <2>4, <2>8
      <4>2. lh - 3 + 3 = lh
        BY <2>5
      <4> QED
        BY <4>1, <4>2 DEF HeaderPos
    <3>2. SubSeq(s, 1, lh) = h
      BY <2>4, <2>8
    <3>3. Drop(lh, m) = b
      <4> HIDE DEF h, b
      <4> QED
        BY <2>5, DropConcat
    <3> DEFINE d == t - lh
    <3>4. d \in Nat /\ lh + d = t /\ lh \in 0..Len(m) /\ d \in 0..(Len(m) - lh)
      BY <2>2, <2>4, <2>5, <2>8
    <3>5. SubSeq(m, 1, lh) \o SubSeq(Drop(lh, m), 1, d) = SubSeq(m, 1, lh + d)
      <4> HIDE DEF m, lh, d
      <4> QED
        BY <2>4, <3>4, TakeMore
    <3>6. SubSeq(m, 1, lh) = h
      <4> HIDE DEF h, b
      <4> QED
        BY <2>5, FrontOfConcat
    <3> DEFINE u == SubSeq(b, 1, d)
    <3>7. s = h \o u
      BY <3>3, <3>4, <3>5, <3>6
    <3>8. u \in Seq(Piece)
      <4>1. d <= Len(b)
        BY <2>4, <2>5, <3>4
      <4> HIDE DEF d, b
      <4> QED
        BY <2>5, <3>4, <4>1, FrontFacts
    <3>9. Drop(lh, h \o u) = u
      <4> HIDE DEF h, u
      <4> QED
        BY <2>5, <3>8, DropConcat
    <3> QED
      BY <3>1, <3>2, <3>7, <3>9
  <2> HIDE DEF s, h, b, t, m
  <2>9. client'.endHeaders =>
          /\ client'.bodyStart = SubSeq(b, 1, t - lh)
          /\ request' = ParseRequest(h)
          /\ \E n \in GetContentLength(request') : Decided(client', request', n)
    <3> SUFFICES ASSUME client'.endHeaders
                 PROVE  /\ client'.bodyStart = SubSeq(b, 1, t - lh)
                        /\ request' = ParseRequest(h)
                        /\ \E n \in GetContentLength(request') : Decided(client', request', n)
      OBVIOUS
    <3>1. /\ request' = ParseRequest(SubSeq(s, 1, HeaderPos(s)))
          /\ client'.bodyStart = Drop(HeaderPos(s), s)
          /\ \E n \in GetContentLength(request') : Decided(client', request', n)
      BY <2>1, <2>3 DEF Appended
    <3>2. /\ SubSeq(s, 1, HeaderPos(s)) = h
          /\ Drop(HeaderPos(s), s) = SubSeq(b, 1, t - lh)
      BY <2>7, <2>8
    <3> QED
      BY <3>1, <3>2
  <2>10. HeadEndsExactly'
    <3>1. intent'.body = b
      BY <2>2 DEF b
    <3> QED
      BY <2>6, <2>7, <2>9, <3>1 DEF HeadEndsExactly, t
  <2>11. client'.endHeaders => request' = ParseRequest(HeadOf(intent'))
    BY <2>2, <2>9 DEF h
  <2> QED
    BY <2>9, <2>10, <2>11 DEF HInv
<1>2. CASE BuildCGIEnv
  BY <1>2 DEF BuildCGIEnv, HInv, HeadEndsExactly
<1>3. CASE UNCHANGED vars
  BY <1>3 DEF vars, HInv, HeadEndsExactly
<1> QED
  BY <1>1, <1>2, <1>3 DEF Next

\* The head ends with the segment that completes its blank line, and what came
\* behind it is handed on, however the segments were cut.
THEOREM HeadsEndExactly ==
  ASSUME AllUnbroken
  PROVE  Spec => []HeadEndsExactly
<1>1. Init => IInv /\ HInv
  BY StartsTyped, StartsExactly
<1>2. IInv /\ HInv /\ [Next]_vars => (IInv /\ HInv)'
  BY StepTyped, StepExactly
<1>3. HInv => HeadEndsExactly
  BY DEF HInv
<1> QED
  BY <1>1, <1>2, <1>3, PTL DEF Spec

----------------------------------------------------------------------------
(* What a client can say, and the places of its pieces.                    *)

\* Every client says what can be said with a request line and lines of fields.
AllSendable == \A it \in Intents : Sendable(it)

\* How the kinds of pieces contain one another.
LEMMA KindFacts ==
  /\ Wordly \subseteq Lineless /\ Namely \subseteq Lineless /\ Colonless \subseteq Lineless
  /\ Namely \subseteq Colonless
  /\ " " \in Lineless /\ ":" \in Lineless /\ " " \in Colonless /\ ":" \notin Colonless
  /\ " " # ":" /\ {" "} \subseteq Colonless /\ {" "} \subseteq Lineless
BY PieceFacts DEF Wordly, Namely, Colonless, Lineless

\* A space and a colon, as texts of one piece.
LEMMA Singles ==
  /\ <<" ">> \in Seq(Lineless) /\ <<":">> \in Seq(Lineless) /\ <<>> \in Seq(Lineless)
  /\ <<" ">> \in Seq(Piece) /\ <<":">> \in Seq(Piece)
  /\ Len(<<" ">>) = 1 /\ <<" ">>[1] = " " /\ Len(<<":">>) = 1 /\ <<":">>[1] = ":"
<1> DEFINE a == " "
           b == ":"
<1>1. a \in Lineless /\ b \in Lineless /\ a \in Piece /\ b \in Piece
  BY KindFacts, PieceFacts
<1> HIDE DEF a, b
<1>2. <<a>> \in Seq(Lineless) /\ <<b>> \in Seq(Lineless) /\ <<a>> \in Seq(Piece) /\ <<b>> \in Seq(Piece)
  BY <1>1
<1>3. Len(<<a>>) = 1 /\ <<a>>[1] = a /\ Len(<<b>>) = 1 /\ <<b>>[1] = b
  OBVIOUS
<1>4. <<>> \in Seq(Lineless)
  OBVIOUS
<1> QED
  BY <1>2, <1>3, <1>4 DEF a, b

\* The line of a field: its name, a colon perhaps, and the rest.
Colon(f) == IF f.colon THEN <<":">> ELSE <<>>
Rest(f) == f.space \o f.value \o f.space

\* The line of a field that can be sent, cut behind its name and its colon.
LEMMA ContentCut ==
  ASSUME NEW f \in Field, SendableField(f)
  PROVE  /\ f.name \in Seq(Namely) /\ f.name \in Seq(Lineless) /\ Colon(f) \in Seq(Lineless)
         /\ Rest(f) \in Seq(Lineless)
         /\ ~f.colon => Rest(f) \in Seq(Colonless)
         /\ f.name \o Colon(f) \in Seq(Lineless)
         /\ ContentOf(f) = (f.name \o Colon(f)) \o Rest(f)
         /\ ContentOf(f) \in Seq(Lineless)
<1> DEFINE n == f.name
           c == Colon(f)
           s == f.space
           v == f.value
           L == Lineless
<1>1. n \in Seq(Namely) /\ v \in Seq(L) /\ s \in Seq({" "}) /\ (~f.colon => v \in Seq(Colonless))
  BY DEF SendableField
<1>2. n \in Seq(L) /\ s \in Seq(L) /\ s \in Seq(Colonless)
  BY <1>1, KindFacts, SeqInto
<1>3. c \in Seq(L)
  BY Singles DEF Colon
<1>4. ContentOf(f) = ((n \o c) \o s \o v) \o s
  BY DEF ContentOf, Colon
<1>5. Rest(f) = (s \o v) \o s
  BY DEF Rest
<1> HIDE DEF n, c, s, v, L
<1>6. s \o v \in Seq(L) /\ n \o c \in Seq(L)
  BY <1>1, <1>2, <1>3, ConcatProperties
<1>7. (s \o v) \o s \in Seq(L)
  BY <1>2, <1>6, ConcatProperties
<1>8. ~f.colon => (s \o v) \o s \in Seq(Colonless)
  <2> SUFFICES ASSUME ~f.colon PROVE (s \o v) \o s \in Seq(Colonless)
    OBVIOUS
  <2> DEFINE C == Colonless
  <2>1. v \in Seq(C) /\ s \in Seq(C)
    BY <1>1, <1>2
  <2> HIDE DEF C
  <2>2. s \o v \in Seq(C)
    BY <2>1, ConcatProperties
  <2>3. (s \o v) \o s \in Seq(C)
    BY <2>1, <2>2, ConcatProperties
  <2> QED
    BY <2>3 DEF C
<1> DEFINE w == n \o c
<1>9. w \in Seq(L)
  BY <1>6
<1> HIDE DEF w
<1>10. (w \o s \o v) \o s = w \o ((s \o v) \o s)
  <2>1. w \o s \o v = w \o (s \o v)
    <3>1. w \in Seq(L) /\ s \in Seq(L) /\ v \in Seq(L)
      BY <1>1, <1>2, <1>9
    <3>2. w \o (s \o v) = (w \o s) \o v
      BY ONLY <3>1, ConcatAssociative
    <3> QED
      BY <3>2
  <2> DEFINE x == s \o v
  <2>2. x \in Seq(L)
    BY <1>6
  <2> HIDE DEF x
  <2>3. (w \o x) \o s = w \o (x \o s)
    BY <1>2, <1>9, <2>2, ConcatAssociative
  <2> QED
    BY <2>1, <2>3 DEF x
<1> DEFINE y == (s \o v) \o s
<1>11. y \in Seq(L)
  BY <1>7
<1> HIDE DEF y
<1>12. w \o y \in Seq(L)
  BY <1>9, <1>11, ConcatProperties
<1> QED
  BY <1>1, <1>2, <1>3, <1>4, <1>5, <1>6, <1>7, <1>8, <1>10, <1>12 DEF n, c, s, v, L, w, y

\* What can be sent has no line end within a line, and no line that is empty.
LEMMA SendableUnbroken ==
  ASSUME NEW it \in Intent, Sendable(it)
  PROVE  Unbroken(it)
<1> DEFINE m == it.method
           t == it.target
           p == it.protocol
           sp == <<" ">>
           L == Lineless
<1>1. m \in Seq(L) /\ t \in Seq(L) /\ p \in Seq(L) /\ sp \in Seq(L)
  <2>1. m \in Seq(Wordly) /\ t \in Seq(Wordly) /\ p \in Seq(Wordly)
    BY DEF Sendable
  <2>2. sp \in Seq(L)
    BY Singles
  <2> HIDE DEF m, t, p, sp
  <2> QED
    BY <2>1, <2>2, KindFacts, SeqInto
<1>2. LineOf(it) = m \o sp \o t \o sp \o p
  BY DEF LineOf
<1> HIDE DEF m, t, p, sp, L
<1>3. m \o sp \in Seq(L)
  BY <1>1, ConcatProperties
<1>4. m \o sp \o t \in Seq(L)
  BY <1>1, <1>3, ConcatProperties
<1>5. m \o sp \o t \o sp \in Seq(L)
  BY <1>1, <1>4, ConcatProperties
<1>6. m \o sp \o t \o sp \o p \in Seq(L)
  BY <1>1, <1>5, ConcatProperties
<1>7. ASSUME NEW k \in DOMAIN it.fields
      PROVE  ContentOf(it.fields[k]) \in Seq(L) /\ ContentOf(it.fields[k]) # <<>>
  <2> DEFINE f == it.fields[k]
             c == Colon(f)
             n == f.name
             x == Rest(f)
  <2>1. f \in Field /\ SendableField(f)
    <3>1. it.fields \in Seq(Field)
      BY DEF Intent
    <3>2. f \in Field
      BY <1>7, <3>1, ElementOfSeq, LenProperties
    <3> QED
      BY <3>2 DEF Sendable
  <2> HIDE DEF f
  <2>2. /\ n \in Seq(L) /\ c \in Seq(L) /\ x \in Seq(L) /\ n \o c \in Seq(L)
        /\ ContentOf(f) = (n \o c) \o x /\ ContentOf(f) \in Seq(L)
    BY <2>1, ContentCut DEF L
  <2>3. CASE f.colon
    <3>1. Len(c) = 1
      BY <2>3, Singles DEF Colon
    <3> HIDE DEF n, c, x
    <3>2. Len(n \o c) = Len(n) + Len(c)
      BY <2>2, ConcatProperties
    <3> DEFINE y == n \o c
    <3>3. y \in Seq(L)
      BY <2>2
    <3> HIDE DEF y
    <3>4. Len(y \o x) = Len(y) + Len(x)
      BY <2>2, <3>3, ConcatProperties
    <3>5. Len(n) \in Nat /\ Len(x) \in Nat
      BY <2>2, LenProperties
    <3>6. Len(ContentOf(f)) > 0
      BY <2>2, <3>1, <3>2, <3>4, <3>5 DEF y
    <3>7. Len(<<>>) = 0
      OBVIOUS
    <3> QED
      BY <2>2, <3>6, <3>7 DEF f
  <2>4. CASE ~f.colon
    <3>1. ContentOf(f) # <<>>
      BY <2>1, <2>4 DEF SendableField
    <3> QED
      BY <2>2, <3>1 DEF f
  <2> QED
    BY <2>3, <2>4
<1> QED
  BY <1>2, <1>6, <1>7 DEF Unbroken, L

----------------------------------------------------------------------------
(* The request line, read again.                                           *)

\* The largest of a set of numbers is the member no other exceeds.
LEMMA MaxIs ==
  ASSUME NEW T \in SUBSET Nat, NEW x \in T, \A y \in T : y <= x
  PROVE  Max(T) = x
<1>1. x \in Nat /\ T # {} /\ \A y \in T : y <= x
  OBVIOUS
<1>2. Max(T) \in T /\ \A y \in T : y <= Max(T)
  BY <1>1, MaxFacts
<1>3. Max(T) \in Nat /\ Max(T) <= x /\ x <= Max(T)
  BY <1>1, <1>2
<1> QED
  BY <1>1, <1>3

\* Where a part ends.
LEMMA PartEnds ==
  ASSUME NEW S, NEW s \in Seq(S), NEW separators, NEW a \in 1..Len(s), NEW b \in a..Len(s),
         \A m \in a..b : s[m] \notin separators,
         b = Len(s) \/ s[b + 1] \in separators
  PROVE  PartEnd(s, separators, a) = b
<1> DEFINE T == {j \in a..Len(s) : \A m \in a..j : s[m] \notin separators}
<1>1. Len(s) \in Nat
  BY LenProperties
<1>2. a \in Nat /\ b \in Nat /\ T \in SUBSET Nat
  BY <1>1
<1>3. b \in T
  OBVIOUS
<1>4. ASSUME NEW y \in T
      PROVE  y <= b
  <2> SUFFICES ASSUME y > b PROVE FALSE
    BY <1>2
  <2>1. y \in a..Len(s) /\ \A m \in a..y : s[m] \notin separators
    OBVIOUS
  <2>2. b + 1 \in a..y /\ b # Len(s)
    BY <1>1, <1>2, <2>1
  <2> QED
    BY <2>1, <2>2
<1>5. PartEnd(s, separators, a) = Max(T)
  BY DEF PartEnd
<1> HIDE DEF T
<1> QED
  BY <1>2, <1>3, <1>4, <1>5, MaxIs

\* Three words and two blanks.
Blanks == {" ", "\r", "\n"}
LineAt(m, t, p) == m \o <<" ">> \o t \o <<" ">> \o p

Placed(l, m, t, p) ==
  /\ l \in Seq(Piece)
  /\ Len(m) \in Nat /\ Len(t) \in Nat /\ Len(p) \in Nat
  /\ Len(l) = Len(m) + Len(t) + Len(p) + 2
  /\ \A i \in 1..Len(m) : l[i] = m[i] /\ l[i] \notin Blanks
  /\ l[Len(m) + 1] \in Blanks
  /\ \A i \in 1..Len(t) : l[Len(m) + 1 + i] = t[i] /\ l[Len(m) + 1 + i] \notin Blanks
  /\ l[Len(m) + Len(t) + 2] \in Blanks
  /\ \A i \in 1..Len(p) : /\ l[Len(m) + Len(t) + 2 + i] = p[i]
                          /\ l[Len(m) + Len(t) + 2 + i] \notin Blanks

\* Where the words of a request line and its two spaces are.
LEMMA LinePlaces ==
  ASSUME NEW m \in Seq(Wordly), NEW t \in Seq(Wordly), NEW p \in Seq(Wordly)
  PROVE  Placed(LineAt(m, t, p), m, t, p)
<1> DEFINE sp == <<" ">>
           blank == " "
           l == LineAt(m, t, p)
           u == m \o sp
           v == u \o t
           w == v \o sp
<1>1. sp \in Seq(Piece) /\ Len(sp) = 1 /\ sp[1] = blank
  BY Singles
<1>2. m \in Seq(Piece) /\ t \in Seq(Piece) /\ p \in Seq(Piece)
  <2>1. Wordly \subseteq Piece
    BY DEF Wordly
  <2> QED
    BY <2>1, SeqInto
<1>3. Len(m) \in Nat /\ Len(t) \in Nat /\ Len(p) \in Nat
  BY <1>2, LenProperties
<1>4. /\ \A i \in 1..Len(m) : m[i] \notin Blanks
      /\ \A i \in 1..Len(t) : t[i] \notin Blanks
      /\ \A i \in 1..Len(p) : p[i] \notin Blanks
  <2>1. \A x \in Wordly : x \notin Blanks
    BY DEF Wordly, Blanks
  <2>2. \A i \in 1..Len(m) : m[i] \in Wordly
    BY ElementOfSeq
  <2>3. \A i \in 1..Len(t) : t[i] \in Wordly
    BY ElementOfSeq
  <2>4. \A i \in 1..Len(p) : p[i] \in Wordly
    BY ElementOfSeq
  <2> QED
    BY <2>1, <2>2, <2>3, <2>4
<1>5. l = w \o p
  BY DEF LineAt
<1> HIDE DEF sp, blank, l
<1>6. ASSUME NEW a \in Seq(Piece), NEW b \in Seq(Piece)
      PROVE  /\ a \o b \in Seq(Piece) /\ Len(a \o b) = Len(a) + Len(b)
             /\ Len(a) \in Nat /\ Len(b) \in Nat
             /\ \A i \in 1..Len(a) : (a \o b)[i] = a[i]
             /\ \A i \in 1..Len(b) : (a \o b)[Len(a) + i] = b[i]
  <2>1. /\ a \o b \in Seq(Piece) /\ Len(a \o b) = Len(a) + Len(b)
        /\ \A i \in 1..(Len(a) + Len(b)) : (a \o b)[i] = IF i <= Len(a) THEN a[i] ELSE b[i - Len(a)]
    BY ConcatProperties
  <2>2. Len(a) \in Nat /\ Len(b) \in Nat
    BY LenProperties
  <2>3. \A i \in 1..Len(a) : (a \o b)[i] = a[i]
    BY <2>1, <2>2
  <2>4. ASSUME NEW i \in 1..Len(b)
        PROVE  (a \o b)[Len(a) + i] = b[i]
    <3>1. Len(a) + i \in 1..(Len(a) + Len(b)) /\ ~(Len(a) + i <= Len(a)) /\ Len(a) + i - Len(a) = i
      BY <2>2
    <3> QED
      BY <2>1, <3>1
  <2> QED
    BY <2>1, <2>2, <2>3, <2>4
<1>7. /\ u \in Seq(Piece) /\ Len(u) = Len(m) + 1
      /\ \A i \in 1..Len(m) : u[i] = m[i]
      /\ u[Len(m) + 1] = blank
  <2>1. /\ u \in Seq(Piece) /\ Len(u) = Len(m) + Len(sp)
        /\ \A i \in 1..Len(m) : u[i] = m[i]
        /\ \A i \in 1..Len(sp) : u[Len(m) + i] = sp[i]
    BY <1>1, <1>2, <1>6
  <2> HIDE DEF u
  <2> QED
    BY <1>1, <2>1
<1> HIDE DEF u
<1>8. /\ v \in Seq(Piece) /\ Len(v) = Len(m) + Len(t) + 1
      /\ \A i \in 1..Len(m) : v[i] = m[i]
      /\ v[Len(m) + 1] = blank
      /\ \A i \in 1..Len(t) : v[Len(m) + 1 + i] = t[i]
  <2>1. /\ v \in Seq(Piece) /\ Len(v) = Len(u) + Len(t)
        /\ \A i \in 1..Len(u) : v[i] = u[i]
        /\ \A i \in 1..Len(t) : v[Len(u) + i] = t[i]
    BY <1>2, <1>6, <1>7
  <2> HIDE DEF v
  <2>2. Len(m) + 1 \in 1..Len(u) /\ \A i \in 1..Len(m) : i \in 1..Len(u)
    BY <1>3, <1>7
  <2> QED
    BY <1>3, <1>7, <2>1, <2>2
<1> HIDE DEF v
<1>9. /\ w \in Seq(Piece) /\ Len(w) = Len(m) + Len(t) + 2
      /\ \A i \in 1..Len(m) : w[i] = m[i]
      /\ w[Len(m) + 1] = blank
      /\ \A i \in 1..Len(t) : w[Len(m) + 1 + i] = t[i]
      /\ w[Len(m) + Len(t) + 2] = blank
  <2>1. /\ w \in Seq(Piece) /\ Len(w) = Len(v) + Len(sp)
        /\ \A i \in 1..Len(v) : w[i] = v[i]
        /\ \A i \in 1..Len(sp) : w[Len(v) + i] = sp[i]
    BY <1>1, <1>6, <1>8
  <2> HIDE DEF w
  <2>2. /\ Len(m) + 1 \in 1..Len(v) /\ \A i \in 1..Len(m) : i \in 1..Len(v)
        /\ \A i \in 1..Len(t) : Len(m) + 1 + i \in 1..Len(v)
        /\ Len(v) + 1 = Len(m) + Len(t) + 2
    BY <1>3, <1>8
  <2>3. w[Len(v) + 1] = blank
    BY <1>1, <2>1
  <2> QED
    BY <1>1, <1>3, <1>8, <2>1, <2>2, <2>3
<1> HIDE DEF w
<1>10. /\ l \in Seq(Piece) /\ Len(l) = Len(m) + Len(t) + Len(p) + 2
       /\ \A i \in 1..Len(m) : l[i] = m[i]
       /\ l[Len(m) + 1] = blank
       /\ \A i \in 1..Len(t) : l[Len(m) + 1 + i] = t[i]
       /\ l[Len(m) + Len(t) + 2] = blank
       /\ \A i \in 1..Len(p) : l[Len(m) + Len(t) + 2 + i] = p[i]
  <2>1. /\ l \in Seq(Piece) /\ Len(l) = Len(w) + Len(p)
        /\ \A i \in 1..Len(w) : l[i] = w[i]
        /\ \A i \in 1..Len(p) : l[Len(w) + i] = p[i]
    BY <1>2, <1>5, <1>6, <1>9, ZenonT(60)
  <2>2. /\ Len(m) + 1 \in 1..Len(w) /\ \A i \in 1..Len(m) : i \in 1..Len(w)
        /\ \A i \in 1..Len(t) : Len(m) + 1 + i \in 1..Len(w)
        /\ Len(m) + Len(t) + 2 \in 1..Len(w)
    BY <1>3, <1>9
  <2>3. Len(l) = Len(m) + Len(t) + Len(p) + 2
    BY <1>3, <1>9, <2>1
  <2> QED
    BY <1>9, <2>1, <2>2, <2>3
<1>11. blank \in Blanks
  BY DEF blank, Blanks
<1>12. /\ \A i \in 1..Len(m) : l[i] = m[i] /\ l[i] \notin Blanks
       /\ \A i \in 1..Len(t) : l[Len(m) + 1 + i] = t[i] /\ l[Len(m) + 1 + i] \notin Blanks
       /\ \A i \in 1..Len(p) : /\ l[Len(m) + Len(t) + 2 + i] = p[i]
                               /\ l[Len(m) + Len(t) + 2 + i] \notin Blanks
  BY <1>4, <1>10
<1>13. Placed(l, m, t, p)
  BY <1>3, <1>10, <1>11, <1>12 DEF Placed
<1> QED
  BY <1>13 DEF l

\* Where the words of such a line start.
LEMMA LineStarts ==
  ASSUME NEW l, NEW m, NEW t, NEW p, Placed(l, m, t, p)
  PROVE  \A i : i \in Starts(l, Blanks) <=>
                  \/ i = 1 /\ Len(m) > 0
                  \/ i = Len(m) + 2 /\ Len(t) > 0
                  \/ i = Len(m) + Len(t) + 3 /\ Len(p) > 0
<1> DEFINE M == Len(m)
           T == Len(t)
           P == Len(p)
           b == Starts(l, Blanks)
<1>1. /\ l \in Seq(Piece) /\ M \in Nat /\ T \in Nat /\ P \in Nat /\ Len(l) = M + T + P + 2
      /\ \A i \in 1..M : l[i] \notin Blanks
      /\ \A i \in 1..T : l[M + 1 + i] \notin Blanks
      /\ \A i \in 1..P : l[M + T + 2 + i] \notin Blanks
      /\ l[M + 1] \in Blanks /\ l[M + T + 2] \in Blanks
  BY DEF Placed
<1>2. b = {i \in 1..Len(l) : l[i] \notin Blanks /\ (i = 1 \/ l[i - 1] \in Blanks)}
  <2>1. DOMAIN l = 1..Len(l)
    BY <1>1, LenProperties
  <2> QED
    BY <2>1 DEF Starts
<1> HIDE DEF M, T, P, b
<1>3. \A i \in 1..Len(l) : \/ i \in 1..M
                           \/ i = M + 1
                           \/ i - M - 1 \in 1..T /\ i = M + 1 + (i - M - 1)
                           \/ i = M + T + 2
                           \/ i - M - T - 2 \in 1..P /\ i = M + T + 2 + (i - M - T - 2)
  BY <1>1
<1>4. ASSUME NEW i \in b
      PROVE  \/ i = 1 /\ M > 0
             \/ i = M + 2 /\ T > 0
             \/ i = M + T + 3 /\ P > 0
  <2>1. i \in 1..Len(l) /\ l[i] \notin Blanks /\ (i = 1 \/ l[i - 1] \in Blanks)
    BY <1>2
  <2>2. CASE i \in 1..M
    <3>1. i # 1 => i - 1 \in 1..M
      BY <1>1, <2>2
    <3> QED
      BY <1>1, <2>1, <2>2, <3>1
  <2>3. CASE i - M - 1 \in 1..T
    <3> DEFINE j == i - M - 1
    <3>1. j \in 1..T /\ i = M + 1 + j /\ i # 1
      BY <1>1, <2>1, <2>3
    <3>2. j # 1 => j - 1 \in 1..T /\ i - 1 = M + 1 + (j - 1)
      BY <1>1, <2>1, <3>1
    <3> HIDE DEF j
    <3>3. j = 1
      BY <1>1, <2>1, <3>1, <3>2
    <3> QED
      BY <1>1, <3>1, <3>3
  <2>4. CASE i - M - T - 2 \in 1..P
    <3> DEFINE j == i - M - T - 2
    <3>1. j \in 1..P /\ i = M + T + 2 + j /\ i # 1
      BY <1>1, <2>1, <2>4
    <3>2. j # 1 => j - 1 \in 1..P /\ i - 1 = M + T + 2 + (j - 1)
      BY <1>1, <2>1, <3>1
    <3> HIDE DEF j
    <3>3. j = 1
      BY <1>1, <2>1, <3>1, <3>2
    <3> QED
      BY <1>1, <3>1, <3>3
  <2>5. i # M + 1 /\ i # M + T + 2
    BY <1>1, <2>1
  <2> QED
    BY <1>3, <2>1, <2>2, <2>3, <2>4, <2>5
<1>5. M > 0 => 1 \in b
  <2> SUFFICES ASSUME M > 0 PROVE 1 \in b
    OBVIOUS
  <2>1. 1 \in 1..M /\ 1 \in 1..Len(l)
    BY <1>1
  <2> QED
    BY <1>1, <1>2, <2>1
<1>6. T > 0 => M + 2 \in b
  <2> SUFFICES ASSUME T > 0 PROVE M + 2 \in b
    OBVIOUS
  <2>1. 1 \in 1..T /\ M + 1 + 1 = M + 2 /\ M + 2 \in 1..Len(l) /\ (M + 2) - 1 = M + 1
    BY <1>1
  <2>2. l[M + 2] \notin Blanks
    BY <1>1, <2>1
  <2> QED
    BY <1>1, <1>2, <2>1, <2>2
<1>7. P > 0 => M + T + 3 \in b
  <2> SUFFICES ASSUME P > 0 PROVE M + T + 3 \in b
    OBVIOUS
  <2>1. 1 \in 1..P /\ M + T + 2 + 1 = M + T + 3 /\ M + T + 3 \in 1..Len(l)
        /\ (M + T + 3) - 1 = M + T + 2
    BY <1>1
  <2>2. l[M + T + 3] \notin Blanks
    BY <1>1, <2>1
  <2> QED
    BY <1>1, <1>2, <2>1, <2>2
<1>8. ASSUME NEW i
      PROVE  i \in b <=> \/ i = 1 /\ M > 0
                         \/ i = M + 2 /\ T > 0
                         \/ i = M + T + 3 /\ P > 0
  <2>1. (i = 1 /\ M > 0) => i \in b
    BY <1>5
  <2>2. (i = M + 2 /\ T > 0) => i \in b
    BY <1>6
  <2>3. (i = M + T + 3 /\ P > 0) => i \in b
    BY <1>7
  <2> QED
    BY <1>4, <2>1, <2>2, <2>3
<1> QED
  BY <1>8 DEF b, M, T, P

\* If there are three words, they are its parts.
LEMMA ThreeWords ==
  ASSUME NEW l, NEW m \in Seq(Wordly), NEW t \in Seq(Wordly), NEW p \in Seq(Wordly),
         Placed(l, m, t, p), m # <<>>, t # <<>>, p # <<>>
  PROVE  /\ WordOf(Parts(l, Blanks), 1) = m
         /\ WordOf(Parts(l, Blanks), 2) = t
         /\ WordOf(Parts(l, Blanks), 3) = p
<1> DEFINE M == Len(m)
           T == Len(t)
           P == Len(p)
           b == Starts(l, Blanks)
           words == Parts(l, Blanks)
           A1 == 1
           A2 == M + 2
           A3 == M + T + 3
<1>1. /\ l \in Seq(Piece) /\ M \in Nat /\ T \in Nat /\ P \in Nat /\ Len(l) = M + T + P + 2
      /\ l[M + 1] \in Blanks /\ l[M + T + 2] \in Blanks
  BY DEF Placed
<1>2. \A i \in 1..M : l[i] = m[i] /\ l[i] \notin Blanks
  BY DEF Placed
<1>3. \A i \in 1..T : l[M + 1 + i] = t[i] /\ l[M + 1 + i] \notin Blanks
  BY DEF Placed
<1>4. \A i \in 1..P : l[M + T + 2 + i] = p[i] /\ l[M + T + 2 + i] \notin Blanks
  BY DEF Placed
<1>5. M > 0 /\ T > 0 /\ P > 0
  <2>1. M # 0 /\ T # 0 /\ P # 0
    BY EmptySeq
  <2> HIDE DEF M, T, P
  <2> QED
    BY <1>1, <2>1
<1>6. m \in Seq(Piece) /\ t \in Seq(Piece) /\ p \in Seq(Piece)
  BY SeqInto DEF Wordly
<1>7. \A i : i \in b <=> (i = 1 /\ M > 0) \/ (i = M + 2 /\ T > 0) \/ (i = M + T + 3 /\ P > 0)
  BY LineStarts
<1>8. words = [k \in 1..Cardinality(b) |-> SubSeq(l, Nth(b, k), PartEnd(l, Blanks, Nth(b, k)))]
  BY DEF Parts
<1> HIDE DEF M, T, P, b, words, Placed
<1>9. b = {A1, A2, A3}
  BY <1>5, <1>7
<1> DEFINE e == [i \in 1..3 |-> IF i = 1 THEN A1 ELSE IF i = 2 THEN A2 ELSE A3]
<1>10. e[1] = A1 /\ e[2] = A2 /\ e[3] = A3 /\ e \in [1..3 -> Nat]
  BY <1>1
<1>11. \A i \in 1..3 : i = 1 \/ i = 2 \/ i = 3
  OBVIOUS
<1> HIDE DEF e
<1>12. Ascending(e, 3, b)
  <2>1. A1 < A2 /\ A2 < A3 /\ A1 < A3
    BY <1>1, <1>5
  <2>2. \A i, j \in 1..3 : i < j => (i = 1 /\ j = 2) \/ (i = 1 /\ j = 3) \/ (i = 2 /\ j = 3)
    OBVIOUS
  <2> HIDE DEF A1, A2, A3
  <2>3. \A i, j \in 1..3 : i < j => e[i] < e[j]
    BY <1>10, <2>1, <2>2
  <2>4. 1 \in 1..3 /\ 2 \in 1..3 /\ 3 \in 1..3
    OBVIOUS
  <2>5. b = {e[i] : i \in 1..3}
    BY <1>9, <1>10, <1>11, <2>4
  <2> QED
    BY <1>10, <2>3, <2>5 DEF Ascending
<1>13. Cardinality(b) = 3 /\ Nth(b, 1) = A1 /\ Nth(b, 2) = A2 /\ Nth(b, 3) = A3
  <2>1. Cardinality(b) = 3 /\ \A k \in 1..3 : Nth(b, k) = e[k]
    BY <1>12, NthFacts
  <2>2. 1 \in 1..3 /\ 2 \in 1..3 /\ 3 \in 1..3
    OBVIOUS
  <2> QED
    BY <1>10, <2>1, <2>2
<1>14. PartEnd(l, Blanks, A1) = A1 + M - 1
  <2> DEFINE a == A1
             z == A1 + M - 1
  <2>1. a \in 1..Len(l) /\ z \in a..Len(l)
    BY <1>1, <1>5
  <2>2. \A j \in a..z : l[j] \notin Blanks
    BY <1>1, <1>2
  <2>3. l[z + 1] \in Blanks
    BY <1>1
  <2> HIDE DEF a, z
  <2>4. PartEnd(l, Blanks, a) = z
    BY <1>1, <2>1, <2>2, <2>3, PartEnds
  <2> QED
    BY <2>4 DEF a, z
<1>15. PartEnd(l, Blanks, A2) = A2 + T - 1
  <2> DEFINE a == A2
             z == A2 + T - 1
  <2>1. a \in 1..Len(l) /\ z \in a..Len(l)
    BY <1>1, <1>5
  <2>2. \A j \in a..z : l[j] \notin Blanks
    <3> SUFFICES ASSUME NEW j \in a..z PROVE l[j] \notin Blanks
      OBVIOUS
    <3>1. j - M - 1 \in 1..T /\ M + 1 + (j - M - 1) = j
      BY <1>1
    <3> QED
      BY <1>3, <3>1
  <2>3. l[z + 1] \in Blanks
    <3>1. z + 1 = M + T + 2
      BY <1>1
    <3> QED
      BY <1>1, <3>1
  <2> HIDE DEF a, z
  <2>4. PartEnd(l, Blanks, a) = z
    BY <1>1, <2>1, <2>2, <2>3, PartEnds
  <2> QED
    BY <2>4 DEF a, z
<1>16. PartEnd(l, Blanks, A3) = A3 + P - 1
  <2> DEFINE a == A3
             z == A3 + P - 1
  <2>1. a \in 1..Len(l) /\ z \in a..Len(l)
    BY <1>1, <1>5
  <2>2. \A j \in a..z : l[j] \notin Blanks
    <3> SUFFICES ASSUME NEW j \in a..z PROVE l[j] \notin Blanks
      OBVIOUS
    <3>1. j - M - T - 2 \in 1..P /\ M + T + 2 + (j - M - T - 2) = j
      BY <1>1
    <3> QED
      BY <1>4, <3>1
  <2>3. z = Len(l)
    BY <1>1
  <2> HIDE DEF a, z
  <2>4. PartEnd(l, Blanks, a) = z
    BY <1>1, <2>1, <2>2, <2>3, PartEnds
  <2> QED
    BY <2>4 DEF a, z
<1>17. SubSeq(l, A1, A1 + M - 1) = m
  <2>1. A1 \in Nat /\ A1 >= 1 /\ A1 + M <= Len(l) + 1
    BY <1>1
  <2>2. \A i \in 1..M : l[A1 - 1 + i] = m[i]
    BY <1>1, <1>2
  <2> HIDE DEF A1
  <2> QED
    BY <1>1, <1>6, <2>1, <2>2, Stretch DEF M
<1>18. SubSeq(l, A2, A2 + T - 1) = t
  <2>1. A2 \in Nat /\ A2 >= 1 /\ A2 + T <= Len(l) + 1
    BY <1>1
  <2>2. \A i \in 1..T : l[A2 - 1 + i] = t[i]
    <3> SUFFICES ASSUME NEW i \in 1..T PROVE l[A2 - 1 + i] = t[i]
      OBVIOUS
    <3>1. A2 - 1 + i = M + 1 + i
      BY <1>1
    <3> QED
      BY <1>3, <3>1
  <2> HIDE DEF A2
  <2> QED
    BY <1>1, <1>6, <2>1, <2>2, Stretch DEF T
<1>19. SubSeq(l, A3, A3 + P - 1) = p
  <2>1. A3 \in Nat /\ A3 >= 1 /\ A3 + P <= Len(l) + 1
    BY <1>1
  <2>2. \A i \in 1..P : l[A3 - 1 + i] = p[i]
    <3> SUFFICES ASSUME NEW i \in 1..P PROVE l[A3 - 1 + i] = p[i]
      OBVIOUS
    <3>1. A3 - 1 + i = M + T + 2 + i
      BY <1>1
    <3> QED
      BY <1>4, <3>1
  <2> HIDE DEF A3
  <2> QED
    BY <1>1, <1>6, <2>1, <2>2, Stretch DEF P
<1> HIDE DEF A1, A2, A3
<1>20. 1 \in 1..3 /\ 2 \in 1..3 /\ 3 \in 1..3 /\ 1 <= 3 /\ 2 <= 3 /\ 3 <= 3
  OBVIOUS
<1>21. words = [k \in 1..3 |-> SubSeq(l, Nth(b, k), PartEnd(l, Blanks, Nth(b, k)))]
  BY <1>8, <1>13
<1>22. Len(words) = 3
  BY <1>21
<1>23. words[1] = m
  BY <1>13, <1>14, <1>17, <1>20, <1>21
<1>24. words[2] = t
  BY <1>13, <1>15, <1>18, <1>20, <1>21
<1>25. words[3] = p
  BY <1>13, <1>16, <1>19, <1>20, <1>21
<1> QED
  BY <1>20, <1>22, <1>23, <1>24, <1>25 DEF WordOf, words

\* If one is empty, there is no third.
LEMMA FewWords ==
  ASSUME NEW l, NEW m \in Seq(Wordly), NEW t \in Seq(Wordly), NEW p \in Seq(Wordly),
         Placed(l, m, t, p), m = <<>> \/ t = <<>> \/ p = <<>>
  PROVE  WordOf(Parts(l, Blanks), 3) = <<>>
<1> DEFINE M == Len(m)
           T == Len(t)
           P == Len(p)
           b == Starts(l, Blanks)
           words == Parts(l, Blanks)
<1>1. l \in Seq(Piece) /\ M \in Nat /\ T \in Nat /\ P \in Nat
  BY DEF Placed
<1>2. ~(M > 0) \/ ~(T > 0) \/ ~(P > 0)
  <2>1. M = 0 \/ T = 0 \/ P = 0
    BY EmptySeq
  <2> HIDE DEF M, T, P
  <2> QED
    BY <1>1, <2>1
<1>3. \A i : i \in b <=> (i = 1 /\ M > 0) \/ (i = M + 2 /\ T > 0) \/ (i = M + T + 3 /\ P > 0)
  BY LineStarts
<1>4. Len(words) = Cardinality(b)
  BY <1>1, PartsTyped
<1> HIDE DEF M, T, P, b, words
<1>5. \E x, y : b \subseteq {x, y}
  <2>1. CASE ~(M > 0)
    <3>1. b \subseteq {M + 2, M + T + 3}
      BY <1>3, <2>1
    <3> QED
      BY <3>1
  <2>2. CASE ~(T > 0)
    <3>1. b \subseteq {1, M + T + 3}
      BY <1>3, <2>2
    <3> QED
      BY <3>1
  <2>3. CASE ~(P > 0)
    <3>1. b \subseteq {1, M + 2}
      BY <1>3, <2>3
    <3> QED
      BY <3>1
  <2> QED
    BY <1>2, <2>1, <2>2, <2>3
<1>6. PICK x, y : b \subseteq {x, y}
  BY <1>5
<1>7. IsFiniteSet({x, y}) /\ Cardinality({x, y}) <= 2 /\ Cardinality({x, y}) \in Nat
  <2> DEFINE s0 == {}
             s1 == s0 \cup {x}
             s2 == s1 \cup {y}
  <2>1. IsFiniteSet(s0) /\ Cardinality(s0) = 0
    BY FS_EmptySet
  <2>2. s2 = {x, y}
    OBVIOUS
  <2> HIDE DEF s2
  <2>3. /\ IsFiniteSet(s1)
        /\ Cardinality(s1) = IF x \in s0 THEN Cardinality(s0) ELSE Cardinality(s0) + 1
    <3> HIDE DEF s0
    <3> QED
      BY <2>1, FS_AddElement
  <2> HIDE DEF s1, s0
  <2>4. /\ IsFiniteSet(s2)
        /\ Cardinality(s2) = IF y \in s1 THEN Cardinality(s1) ELSE Cardinality(s1) + 1
    <3>1. s2 = s1 \cup {y}
      BY DEF s2
    <3> QED
      BY <2>3, <3>1, FS_AddElement
  <2> QED
    BY <2>1, <2>2, <2>3, <2>4
<1>8. Cardinality(b) \in Nat /\ Cardinality(b) <= 2
  <2>1. IsFiniteSet(b) /\ Cardinality(b) <= Cardinality({x, y}) /\ Cardinality(b) \in Nat
    BY <1>6, <1>7, FS_Subset, FS_CardinalityType
  <2> QED
    BY <1>7, <2>1
<1>9. ~(3 <= Len(words))
  BY <1>4, <1>8
<1> QED
  BY <1>9 DEF WordOf, words

----------------------------------------------------------------------------
(* The lines of the head, read again.                                      *)

\* The lines of a head, found again.
LEMMA LinesFound ==
  ASSUME NEW it \in Intent, Unbroken(it)
  PROVE  /\ Found(CRLF, HeadOf(it)) /\ Before(CRLF, HeadOf(it)) = LineOf(it)
         /\ HeadOf(it) \in Texts
         /\ DOMAIN HeaderLines(HeadOf(it)) = 1..Len(it.fields)
         /\ Len(HeaderLines(HeadOf(it))) = Len(it.fields)
         /\ \A k \in 1..Len(it.fields) : HeaderLines(HeadOf(it))[k] = ContentOf(it.fields[k])
<1> DEFINE n == Len(it.fields)
           U(k) == Upto(it, k)
           C(k) == ContentOf(it.fields[k])
           h == HeadOf(it)
           l == LineOf(it)
           ends == Occurrences(CRLF, h)
           lines == HeaderLines(h)
<1>1. n \in Nat /\ \A k \in 1..n : C(k) \in Seq(Lineless) /\ C(k) \in Seq(Piece) /\ Len(C(k)) \in Nat
  BY LinesTyped
<1>2. \A k \in 0..n : /\ U(k) \in Seq(Piece) /\ Sane(U(k)) /\ Len(U(k)) \in Nat /\ Len(U(k)) >= 2
                      /\ \A j \in 0..k : j < k => Len(U(j)) + 3 <= Len(U(k))
  BY HeadShape
<1>3. /\ h \in Seq(Piece) /\ Sane(h) /\ Len(h) \in Nat /\ Len(h) = Len(U(n)) + 2 /\ Len(h) >= 4
      /\ Ends(h) = {Len(U(j)) - 1 : j \in 0..n} \cup {Len(h) - 1}
      /\ \A j \in 0..n : \A i \in 1..Len(U(j)) : h[i] = U(j)[i]
  BY WholeHead
<1>4. U(0) = <<>> \o (l \o CRLF)
  BY UptoGrows
<1>5. \A k \in Nat : k < n => U(k + 1) = U(k) \o (C(k + 1) \o CRLF)
  BY UptoGrows
<1>6. l \in Seq(Lineless) /\ l \in Seq(Piece)
  BY UptoGrows
<1>7. lines = [k \in 1..Cardinality(ends) - 2 |-> SubSeq(h, Nth(ends, k) + 2, Nth(ends, k + 1) - 1)]
  BY DEF HeaderLines
<1>8. Found(CRLF, h) <=> ends # {}
  BY DEF Found
<1>9. Before(CRLF, h) = SubSeq(h, 1, Find(CRLF, h) - 1) /\ Find(CRLF, h) = Min(ends)
  BY DEF Before, Find
<1>10. ends = Ends(h)
  BY <1>3, EndsOccur
<1> HIDE DEF n, U, C, h, l, ends, lines
<1>11. Len(U(0)) = Len(l) + 2 /\ \A i \in 1..Len(l) : U(0)[i] = l[i]
  <2> DEFINE z == <<>>
  <2>1. z \in Seq(Piece) /\ Sane(z) /\ Len(z) = 0
    BY EmptySeq DEF Sane, Ends
  <2>2. U(0) = z \o (l \o CRLF)
    BY <1>4
  <2> HIDE DEF z
  <2>3. /\ Len(z \o (l \o CRLF)) = Len(z) + Len(l) + 2
        /\ \A i \in 1..Len(l) : (z \o (l \o CRLF))[Len(z) + i] = l[i]
    BY <1>6, <2>1, LineAdded
  <2>4. Len(l) \in Nat
    BY <1>6, LenProperties
  <2>5. \A i \in 1..Len(l) : 0 + i = i
    BY <2>4
  <2> QED
    BY <2>1, <2>2, <2>3, <2>4, <2>5
<1>12. \A k \in 1..n : /\ Len(U(k)) = Len(U(k - 1)) + Len(C(k)) + 2
                       /\ \A i \in 1..Len(C(k)) : U(k)[Len(U(k - 1)) + i] = C(k)[i]
  <2> SUFFICES ASSUME NEW k \in 1..n
               PROVE  /\ Len(U(k)) = Len(U(k - 1)) + Len(C(k)) + 2
                      /\ \A i \in 1..Len(C(k)) : U(k)[Len(U(k - 1)) + i] = C(k)[i]
    OBVIOUS
  <2> DEFINE j == k - 1
             s == U(j)
             c == C(k)
  <2>1. j \in Nat /\ j < n /\ j + 1 = k /\ j \in 0..n
    BY <1>1
  <2>2. U(k) = s \o (c \o CRLF)
    BY <1>5, <2>1
  <2>3. s \in Seq(Piece) /\ Sane(s) /\ c \in Seq(Lineless)
    BY <1>1, <1>2, <2>1
  <2> HIDE DEF s, c
  <2>4. /\ Len(s \o (c \o CRLF)) = Len(s) + Len(c) + 2
        /\ \A i \in 1..Len(c) : (s \o (c \o CRLF))[Len(s) + i] = c[i]
    BY <2>3, LineAdded
  <2> QED
    BY <2>2, <2>4 DEF s, c
<1> DEFINE e == [k \in 1..(n + 2) |-> IF k = n + 2 THEN Len(h) - 1 ELSE Len(U(k - 1)) - 1]
<1>13. /\ e[n + 2] = Len(h) - 1 /\ \A k \in 1..(n + 1) : e[k] = Len(U(k - 1)) - 1
       /\ e \in [1..(n + 2) -> Nat]
  <2>1. \A k \in 1..(n + 2) : k = n + 2 \/ k - 1 \in 0..n
    BY <1>1
  <2>2. \A k \in 0..n : Len(U(k)) - 1 \in Nat
    BY <1>2
  <2>3. Len(h) - 1 \in Nat
    BY <1>3
  <2>4. e \in [1..(n + 2) -> Nat]
    BY <2>1, <2>2, <2>3
  <2>5. n + 2 \in 1..(n + 2) /\ \A k \in 1..(n + 1) : k \in 1..(n + 2) /\ k # n + 2
    BY <1>1
  <2> QED
    BY <2>4, <2>5
<1> HIDE DEF e
<1>14. Ascending(e, n + 2, ends)
  <2>1. \A j, k \in 1..(n + 2) : j < k => e[j] < e[k]
    <3> SUFFICES ASSUME NEW j \in 1..(n + 2), NEW k \in 1..(n + 2), j < k
                 PROVE  e[j] < e[k]
      OBVIOUS
    <3>1. j \in 1..(n + 1) /\ j - 1 \in 0..n
      BY <1>1
    <3>2. CASE k = n + 2
      <4>1. Len(U(j - 1)) <= Len(U(n)) /\ Len(U(j - 1)) \in Nat
        <5>1. n \in 0..n
          BY <1>1
        <5>2. CASE j - 1 = n
          BY <1>2, <3>1, <5>1, <5>2
        <5>3. CASE j - 1 # n
          <6>1. j - 1 \in 0..n /\ j - 1 < n
            BY <1>1, <3>1, <5>3
          <6>2. Len(U(j - 1)) + 3 <= Len(U(n)) /\ Len(U(j - 1)) \in Nat /\ Len(U(n)) \in Nat
            BY <1>2, <5>1, <6>1
          <6> QED
            BY <6>2
        <5> QED
          BY <5>2, <5>3
      <4>2. Len(U(n)) \in Nat
        BY <1>1, <1>2
      <4>3. e[j] = Len(U(j - 1)) - 1 /\ e[k] = Len(h) - 1
        BY <1>13, <3>1, <3>2
      <4> QED
        BY <1>3, <4>1, <4>2, <4>3
    <3>3. CASE k # n + 2
      <4>1. k \in 1..(n + 1) /\ k - 1 \in 0..n /\ j - 1 \in 0..(k - 1) /\ j - 1 < k - 1
        BY <1>1, <3>1, <3>3
      <4>2. Len(U(j - 1)) + 3 <= Len(U(k - 1)) /\ Len(U(j - 1)) \in Nat /\ Len(U(k - 1)) \in Nat
        BY <1>2, <3>1, <4>1
      <4>3. e[j] = Len(U(j - 1)) - 1 /\ e[k] = Len(U(k - 1)) - 1
        BY <1>13, <3>1, <4>1
      <4> QED
        BY <4>2, <4>3
    <3> QED
      BY <3>2, <3>3
  <2>2. ends = {e[k] : k \in 1..(n + 2)}
    <3>1. ASSUME NEW x \in ends
          PROVE  \E k \in 1..(n + 2) : x = e[k]
      <4>1. CASE x = Len(h) - 1
        <5>1. n + 2 \in 1..(n + 2)
          BY <1>1
        <5> QED
          BY <1>13, <4>1, <5>1
      <4>2. CASE \E j \in 0..n : x = Len(U(j)) - 1
        <5>1. PICK j \in 0..n : x = Len(U(j)) - 1
          BY <4>2
        <5>2. j + 1 \in 1..(n + 1) /\ j + 1 \in 1..(n + 2) /\ (j + 1) - 1 = j
          BY <1>1
        <5>3. e[j + 1] = x
          BY <1>13, <5>1, <5>2
        <5> QED
          BY <5>2, <5>3
      <4> QED
        BY <1>3, <1>10, <4>1, <4>2
    <3>2. ASSUME NEW k \in 1..(n + 2)
          PROVE  e[k] \in ends
      <4>1. CASE k = n + 2
        BY <1>3, <1>10, <1>13, <4>1
      <4>2. CASE k # n + 2
        <5>1. k \in 1..(n + 1) /\ k - 1 \in 0..n
          BY <1>1, <4>2
        <5> QED
          BY <1>3, <1>10, <1>13, <5>1
      <4> QED
        BY <4>1, <4>2
    <3> QED
      BY <3>1, <3>2
  <2>3. n + 2 \in Nat
    BY <1>1
  <2> QED
    BY <1>13, <2>1, <2>2, <2>3 DEF Ascending
<1>15. Cardinality(ends) = n + 2 /\ \A k \in 1..(n + 2) : Nth(ends, k) = e[k]
  <2> DEFINE c == n + 2
  <2>1. c \in Nat /\ Ascending(e, c, ends)
    BY <1>1, <1>14
  <2> HIDE DEF c
  <2>2. Cardinality(ends) = c /\ \A k \in 1..c : Nth(ends, k) = e[k]
    BY <2>1, NthFacts
  <2> QED
    BY <2>2 DEF c
<1>16. ends # {} /\ Min(ends) = Len(l) + 1
  <2>1. 1 \in 1..(n + 2) /\ 1 \in 1..(n + 1) /\ 1 - 1 = 0
    BY <1>1
  <2>2. e[1] = Len(l) + 1
    <3>1. Len(l) \in Nat
      BY <1>6, LenProperties
    <3> QED
      BY <1>11, <1>13, <2>1, <3>1
  <2>3. e[1] \in ends /\ ends \in SUBSET Nat /\ \A x \in ends : e[1] <= x
    <3>1. ends = {e[k] : k \in 1..(n + 2)} /\ \A j, k \in 1..(n + 2) : j < k => e[j] < e[k]
      BY <1>14 DEF Ascending
    <3>2. \A k \in 1..(n + 2) : e[k] \in Nat
      BY <1>13
    <3>3. \A k \in 1..(n + 2) : e[1] <= e[k]
      <4> SUFFICES ASSUME NEW k \in 1..(n + 2) PROVE e[1] <= e[k]
        OBVIOUS
      <4>1. k = 1 \/ 1 < k
        BY <1>1
      <4> QED
        BY <2>1, <3>1, <3>2, <4>1
    <3> QED
      BY <2>1, <3>1, <3>2, <3>3
  <2>4. Min(ends) \in ends /\ Min(ends) <= e[1]
    BY <2>3, MinFacts
  <2>5. Min(ends) = e[1]
    <3>1. Min(ends) \in Nat /\ e[1] \in Nat /\ e[1] <= Min(ends)
      BY <2>3, <2>4
    <3> QED
      BY <2>4, <3>1
  <2> QED
    BY <2>2, <2>3, <2>5
<1>17. Before(CRLF, h) = l
  <2>1. Len(l) \in Nat
    BY <1>6, LenProperties
  <2>2. Find(CRLF, h) - 1 = 1 + Len(l) - 1
    BY <1>9, <1>16, <2>1
  <2>3. 1 + Len(l) <= Len(h) + 1 /\ \A i \in 1..Len(l) : h[1 - 1 + i] = l[i]
    <3>1. 0 \in 0..n /\ Len(U(0)) <= Len(h)
      <4>1. 0 \in 0..n /\ n \in 0..n
        BY <1>1
      <4>2. 0 < n => Len(U(0)) + 3 <= Len(U(n))
        BY <1>2, <4>1
      <4>3. Len(U(0)) \in Nat /\ Len(U(n)) \in Nat
        BY <1>2, <4>1
      <4> QED
        BY <1>1, <1>3, <4>1, <4>2, <4>3
    <3>2. \A i \in 1..Len(l) : i \in 1..Len(U(0)) /\ 1 - 1 + i = i
      BY <1>11, <2>1
    <3>3. \A i \in 1..Len(l) : h[i] = l[i]
      BY <1>3, <1>11, <3>1, <3>2
    <3> QED
      BY <1>3, <1>11, <2>1, <3>1, <3>2, <3>3
  <2> DEFINE one == 1
  <2>4. one \in Nat /\ one >= 1 /\ one + Len(l) <= Len(h) + 1
        /\ \A i \in 1..Len(l) : h[one - 1 + i] = l[i]
    BY <2>3
  <2>5. Before(CRLF, h) = SubSeq(h, one, one + Len(l) - 1)
    BY <1>9, <2>2
  <2> HIDE DEF one
  <2> QED
    BY <1>3, <1>6, <2>4, <2>5, Stretch
<1>18. ASSUME NEW k \in 1..n
       PROVE  SubSeq(h, Nth(ends, k) + 2, Nth(ends, k + 1) - 1) = C(k)
  <2> DEFINE s == U(k - 1)
             u == U(k)
             c == C(k)
             a == Len(s) + 1
  <2>1. k \in 1..(n + 1) /\ k \in 1..(n + 2) /\ k + 1 \in 1..(n + 1) /\ k + 1 \in 1..(n + 2)
        /\ (k + 1) - 1 = k /\ k \in 0..n /\ k - 1 \in 0..n
    BY <1>1
  <2>2. Nth(ends, k) = Len(s) - 1 /\ Nth(ends, k + 1) = Len(u) - 1
    BY <1>13, <1>15, <2>1
  <2>3. /\ Len(s) \in Nat /\ Len(c) \in Nat /\ c \in Seq(Piece) /\ Len(u) = Len(s) + Len(c) + 2
        /\ \A i \in 1..Len(c) : u[Len(s) + i] = c[i]
    BY <1>1, <1>2, <1>12, <2>1
  <2>4. Len(u) <= Len(h) /\ \A i \in 1..Len(u) : h[i] = u[i]
    <3>1. n \in 0..n /\ k \in 0..n /\ Len(U(n)) \in Nat /\ Len(u) \in Nat
      BY <1>1, <1>2, <2>1
    <3>2. k < n => Len(u) + 3 <= Len(U(n))
      BY <1>2, <3>1
    <3>3. k = n \/ k < n
      BY <1>1
    <3> QED
      BY <1>3, <3>1, <3>2, <3>3
  <2> HIDE DEF s, u, c
  <2>5. a \in Nat /\ a >= 1 /\ a + Len(c) <= Len(h) + 1
    BY <1>3, <2>3, <2>4
  <2>6. \A i \in 1..Len(c) : h[a - 1 + i] = c[i]
    <3> SUFFICES ASSUME NEW i \in 1..Len(c) PROVE h[a - 1 + i] = c[i]
      OBVIOUS
    <3>1. a - 1 + i = Len(s) + i /\ Len(s) + i \in 1..Len(u)
      BY <2>3
    <3> QED
      BY <2>3, <2>4, <3>1
  <2>7. Nth(ends, k) + 2 = a /\ Nth(ends, k + 1) - 1 = a + Len(c) - 1
    BY <2>2, <2>3
  <2> HIDE DEF a
  <2>8. SubSeq(h, a, a + Len(c) - 1) = c
    <3>1. h \in Seq(Piece) /\ c \in Seq(Piece)
      BY <1>3, <2>3
    <3> QED
      BY ONLY <3>1, <2>5, <2>6, Stretch
  <2> QED
    BY <2>7, <2>8 DEF c
<1>19. lines = [k \in 1..n |-> SubSeq(h, Nth(ends, k) + 2, Nth(ends, k + 1) - 1)]
  <2>1. Cardinality(ends) - 2 = n
    BY <1>1, <1>15
  <2> QED
    BY <1>7, <2>1
<1>20. DOMAIN lines = 1..n /\ Len(lines) = n /\ \A k \in 1..n : lines[k] = C(k)
  BY <1>1, <1>18, <1>19
<1>21. h \in Texts
  BY <1>3 DEF Texts
<1> QED
  BY <1>8, <1>16, <1>17, <1>20, <1>21 DEF n, h, l, lines, C

\* What a request line has to be: three words, the last two as parseUri wants them.
LEMMA LineAccepted ==
  ASSUME NEW it \in Intent, Sendable(it)
  PROVE  /\ ParseLine(HeadOf(it)) \in RequestType /\ ParseLine(HeadOf(it)).headers = <<>>
         /\ ParseLine(HeadOf(it)).error <=>
              ~(it.method \in Methods /\ UriGood(it.target) /\ it.protocol # <<>>)
         /\ ~ParseLine(HeadOf(it)).error => ParseLine(HeadOf(it)).method = it.method
<1> DEFINE h == HeadOf(it)
           m == it.method
           t == it.target
           p == it.protocol
           l == LineAt(m, t, p)
           w == Words(h)
<1>1. Found(CRLF, h) /\ Before(CRLF, h) = LineOf(it) /\ h \in Texts
  BY SendableUnbroken, LinesFound
<1>2. LineOf(it) = l
  BY DEF LineOf, LineAt
<1>3. w = Parts(l, Blanks)
  BY <1>1, <1>2 DEF Words, Blanks
<1>4. /\ ParseLine(h) \in RequestType /\ ParseLine(h).headers = <<>>
      /\ ParseLine(h).method = WordOf(w, 1)
      /\ ParseLine(h).error <=> ~(/\ WordOf(w, 1) \in Methods /\ UriGood(WordOf(w, 2))
                                  /\ WordOf(w, 3) # <<>>)
  BY <1>1, LineTyped
<1>5. m \in Seq(Wordly) /\ t \in Seq(Wordly) /\ p \in Seq(Wordly)
  BY DEF Sendable
<1>6. Placed(l, m, t, p)
  <2> HIDE DEF m, t, p
  <2> QED
    BY <1>5, LinePlaces
<1> HIDE DEF l, w, m, t, p
<1>7. CASE m # <<>> /\ t # <<>> /\ p # <<>>
  <2>1. WordOf(w, 1) = m /\ WordOf(w, 2) = t /\ WordOf(w, 3) = p
    BY <1>3, <1>5, <1>6, <1>7, ThreeWords
  <2> QED
    BY <1>4, <2>1 DEF m, t, p
<1>8. CASE m = <<>> \/ t = <<>> \/ p = <<>>
  <2>1. WordOf(w, 3) = <<>>
    BY <1>3, <1>5, <1>6, <1>8, FewWords
  <2>2. <<>> \notin Methods
    <3>1. Len(<<>>) = 0 /\ Len(<<"GET">>) = 1 /\ Len(<<"POST">>) = 1 /\ Len(<<"DELETE">>) = 1
      OBVIOUS
    <3>2. \A x \in Methods : x = <<"GET">> \/ x = <<"POST">> \/ x = <<"DELETE">>
      BY DEF Methods
    <3> QED
      BY <3>1, <3>2
  <2>3. ~(m \in Methods /\ UriGood(t) /\ p # <<>>)
    BY <1>8, <2>2 DEF UriGood
  <2> QED
    BY <1>4, <2>1, <2>3 DEF m, t, p
<1> QED
  BY <1>7, <1>8

----------------------------------------------------------------------------
(* The fields, read again.                                                 *)

\* Where a text is not blank.
Inner(s) == {k \in DOMAIN s : s[k] # " "}

Space == {" "}
SpaceFree(s) == \A i \in 1..Len(s) : s[i] \notin Space

\* What has no spaces is left as it is.
LEMMA TrimNothing ==
  ASSUME NEW S, NEW s \in Seq(S), SpaceFree(s)
  PROVE  Trim(s) = s
<1>1. Len(s) \in Nat /\ DOMAIN s = 1..Len(s)
  BY LenProperties
<1>2. Inner(s) = 1..Len(s)
  BY <1>1 DEF Inner, SpaceFree, Space
<1>3. Trim(s) = IF Inner(s) = {} THEN <<>> ELSE SubSeq(s, Min(Inner(s)), Max(Inner(s)))
  BY DEF Trim, Inner
<1>4. CASE Len(s) = 0
  <2>1. s = <<>>
    BY <1>4, EmptySeq
  <2>2. Inner(s) = {}
    BY <1>2, <1>4
  <2> QED
    BY <1>3, <2>1, <2>2
<1>5. CASE Len(s) # 0
  <2> DEFINE n == Len(s)
             I == Inner(s)
  <2>1. n \in Nat /\ n # 0 /\ I = 1..n
    BY <1>1, <1>2, <1>5
  <2> HIDE DEF n, I
  <2>2. I \in SUBSET Nat /\ I # {} /\ 1 \in I /\ n \in I
        /\ n \in Nat /\ \A i \in I : i \in Nat /\ i <= n /\ 1 <= i
    <3>1. \A i \in I : i \in Nat /\ i <= n /\ 1 <= i
      BY <2>1
    <3>2. 1 \in I /\ n \in I
      BY <2>1
    <3> QED
      BY <2>1, <3>1, <3>2
  <2>3. Max(I) = n
    BY <2>2, MaxIs
  <2>4. Min(I) = 1
    <3>1. Min(I) \in I /\ Min(I) <= 1
      BY <2>2, MinFacts
    <3>2. Min(I) \in Nat /\ 1 <= Min(I)
      BY ONLY <2>2, <3>1
    <3> QED
      BY ONLY <3>1, <3>2
  <2>5. SubSeq(s, 1, n) = s
    BY SubSeqFull DEF n
  <2> QED
    BY <1>3, <2>2, <2>3, <2>4, <2>5 DEF I
<1> QED
  BY <1>4, <1>5

\* Spaces around a text make no difference.
LEMMA TrimPadded ==
  ASSUME NEW a \in Seq(Space), NEW v \in Texts, NEW b \in Seq(Space)
  PROVE  Trim((a \o v) \o b) = Trim(v)
<1> DEFINE u == a \o v
           s == u \o b
           n == Len(a)
           m == Len(v)
<1>1. a \in Seq(Piece) /\ b \in Seq(Piece) /\ v \in Seq(Piece)
  <2>1. Space \subseteq Piece
    BY PieceFacts DEF Space
  <2> QED
    BY <2>1, SeqInto DEF Texts
<1>2. (\A i \in 1..n : a[i] \in Space) /\ (\A i \in 1..Len(b) : b[i] \in Space)
  BY ElementOfSeq
<1>3. /\ u \in Seq(Piece) /\ Len(u) = n + m /\ n \in Nat /\ m \in Nat
      /\ \A i \in 1..n : u[i] = a[i]
      /\ \A i \in 1..m : u[n + i] = v[i]
  <2>1. u \in Seq(Piece) /\ Concatenated(u, a, v)
    BY <1>1, ConcatAt
  <2> QED
    BY <2>1 DEF Concatenated
<1> HIDE DEF u
<1>4. /\ s \in Seq(Piece) /\ Len(s) = n + m + Len(b) /\ Len(b) \in Nat
      /\ \A i \in 1..(n + m) : s[i] = u[i]
      /\ \A i \in 1..Len(b) : s[n + m + i] = b[i]
  <2>1. s \in Seq(Piece) /\ Concatenated(s, u, b)
    BY <1>1, <1>3, ConcatAt
  <2> HIDE DEF s, n, m
  <2>2. /\ s \in Seq(Piece) /\ Len(s) = Len(u) + Len(b) /\ Len(b) \in Nat
        /\ \A i \in 1..Len(u) : s[i] = u[i]
        /\ \A i \in 1..Len(b) : s[Len(u) + i] = b[i]
    BY <2>1 DEF Concatenated
  <2> QED
    BY <1>3, <2>2
<1> HIDE DEF s
<1>5. DOMAIN s = 1..Len(s) /\ DOMAIN v = 1..m
  BY <1>1, <1>4, LenProperties
<1>6. \A k : k \in Inner(s) <=> k \in 1..Len(s) /\ s[k] \notin Space
  BY <1>5 DEF Inner, Space
<1>7. \A k : k \in Inner(v) <=> k \in 1..m /\ v[k] \notin Space
  BY <1>5 DEF Inner, Space
<1> HIDE DEF n, m
<1>14. n \in Nat /\ m \in Nat /\ Len(b) \in Nat /\ Len(s) \in Nat /\ Len(s) = n + m + Len(b)
  <2> DEFINE x == Len(b)
             y == Len(s)
  <2>1. n \in Nat /\ m \in Nat /\ x \in Nat /\ y = n + m + x
    BY <1>3, <1>4
  <2> HIDE DEF x, y
  <2>2. y \in Nat
    BY ONLY <2>1
  <2> QED
    BY <2>1, <2>2 DEF x, y
<1>8. \A i \in 1..m : n + i \in 1..Len(s) /\ s[n + i] = v[i]
  <2> SUFFICES ASSUME NEW i \in 1..m PROVE n + i \in 1..Len(s) /\ s[n + i] = v[i]
    OBVIOUS
  <2>1. n + i \in 1..(n + m) /\ n + i \in 1..Len(s)
    BY ONLY <1>14, i \in 1..m
  <2> QED
    BY <1>3, <1>4, <2>1
<1>9. ASSUME NEW k \in Inner(s)
      PROVE  k \in Nat /\ k - n \in Inner(v) /\ k = n + (k - n)
  <2>1. k \in 1..Len(s) /\ s[k] \notin Space
    BY <1>6
  <2>2. k \notin 1..n
    <3> SUFFICES ASSUME k \in 1..n PROVE FALSE
      OBVIOUS
    <3>1. k \in 1..(n + m)
      BY <1>3
    <3>2. s[k] = a[k]
      BY <1>3, <1>4, <3>1
    <3> QED
      BY <1>2, <2>1, <3>2 DEF n
  <2>3. ~(k > n + m)
    <3> SUFFICES ASSUME k > n + m PROVE FALSE
      OBVIOUS
    <3> DEFINE j == k - n - m
    <3>1. j \in 1..Len(b) /\ k = n + m + j
      BY <1>3, <1>4, <2>1
    <3> HIDE DEF j
    <3>2. s[k] = b[j]
      BY <1>4, <3>1
    <3> QED
      BY <1>2, <2>1, <3>1, <3>2
  <2>4. k - n \in 1..m /\ k = n + (k - n) /\ k \in Nat
    BY <1>3, <1>4, <2>1, <2>2, <2>3
  <2>5. s[k] = v[k - n]
    BY <1>8, <2>4
  <2> QED
    BY <1>7, <2>1, <2>4, <2>5
<1>10. ASSUME NEW i \in Inner(v)
       PROVE  n + i \in Inner(s) /\ i \in Nat
  <2>1. i \in 1..m /\ v[i] \notin Space
    BY <1>7
  <2> QED
    BY <1>3, <1>6, <1>8, <2>1
<1>11. /\ Trim(s) = IF Inner(s) = {} THEN <<>> ELSE SubSeq(s, Min(Inner(s)), Max(Inner(s)))
       /\ Trim(v) = IF Inner(v) = {} THEN <<>> ELSE SubSeq(v, Min(Inner(v)), Max(Inner(v)))
  BY DEF Trim, Inner
<1>12. CASE Inner(v) = {}
  <2>1. Inner(s) = {}
    BY <1>9, <1>12
  <2> QED
    BY <1>11, <1>12, <2>1 DEF s, u
<1>13. CASE Inner(v) # {}
  <2> DEFINE I == Inner(v)
             J == Inner(s)
             x == Min(I)
             y == Max(I)
  <2>1. I \in SUBSET Nat /\ I # {} /\ \A i \in I : i <= m /\ 1 <= i
    BY <1>3, <1>7, <1>13
  <2>2. x \in I /\ y \in I /\ \A i \in I : x <= i /\ i <= y
    BY <1>3, <2>1, MinFacts, MaxFacts
  <2>3. J \in SUBSET Nat /\ J # {} /\ n + x \in J /\ n + y \in J
    BY <1>9, <1>10, <2>2
  <2> HIDE DEF x, y
  <2>4. \A k \in J : n + x <= k /\ k <= n + y
    <3> SUFFICES ASSUME NEW k \in J PROVE n + x <= k /\ k <= n + y
      OBVIOUS
    <3>1. k \in Nat /\ k - n \in I /\ k = n + (k - n)
      BY <1>9
    <3>2. x <= k - n /\ k - n <= y
      BY <2>2, <3>1
    <3>3. x \in Nat /\ y \in Nat
      BY <2>1, <2>2
    <3> QED
      BY <1>3, <3>1, <3>2, <3>3
  <2> HIDE DEF I, J
  <2>5. Max(J) = n + y
    BY <2>3, <2>4, MaxIs
  <2>6. Min(J) = n + x
    <3>1. Min(J) \in J /\ Min(J) <= n + x
      BY <2>3, MinFacts
    <3>2. n + x <= Min(J)
      BY <2>4, <3>1
    <3>3. Min(J) \in Nat /\ n + x \in Nat
      BY <2>3, <3>1
    <3> QED
      BY <3>1, <3>2, <3>3
  <2>7. x \in Nat /\ y \in Nat /\ 1 <= x /\ x <= y /\ y <= m
    BY <2>1, <2>2
  <2> DEFINE w == SubSeq(v, x, y)
  <2>8. w \in Seq(Piece) /\ Len(w) = y - x + 1 /\ \A i \in 1..(y - x + 1) : w[i] = v[x + i - 1]
    <3>1. y <= Len(v) /\ x >= 1
      BY <2>7 DEF m
    <3> QED
      BY <1>1, <2>7, <3>1, SubSeqFacts, SMTT(60)
  <2> HIDE DEF w
  <2> DEFINE c == n + x
  <2>9. c \in Nat /\ c >= 1 /\ c + Len(w) <= Len(s) + 1 /\ c + Len(w) - 1 = n + y
    BY <1>3, <1>4, <2>7, <2>8
  <2>10. \A i \in 1..Len(w) : s[c - 1 + i] = w[i]
    <3> SUFFICES ASSUME NEW i \in 1..Len(w) PROVE s[c - 1 + i] = w[i]
      OBVIOUS
    <3> DEFINE j == Len(w)
    <3>0. j = y - x + 1 /\ i \in 1..j
      BY <2>8
    <3> HIDE DEF j
    <3>1. x + i - 1 \in 1..m /\ c - 1 + i = n + (x + i - 1) /\ i \in 1..(y - x + 1)
      BY <1>14, <2>7, <3>0
    <3> QED
      BY <1>8, <2>8, <3>1
  <2> HIDE DEF c
  <2>11. SubSeq(s, c, c + Len(w) - 1) = w
    BY ONLY <1>4, <2>8, <2>9, <2>10, Stretch
  <2>12. SubSeq(s, Min(J), Max(J)) = w
    BY <2>5, <2>6, <2>9, <2>11 DEF c
  <2> QED
    BY <1>11, <2>1, <2>3, <2>12 DEF I, J, w, x, y, s, u
<1> QED
  BY <1>12, <1>13

\* The name and the value of a field, as its line is read.
LEMMA FieldRead ==
  ASSUME NEW f \in Field, SendableField(f)
  PROVE  /\ Found(<<":">>, ContentOf(f)) <=> f.colon
         /\ f.colon => /\ Key(ContentOf(f)) = ToLowerCase(f.name)
                       /\ Value(ContentOf(f)) = ToLowerCase(Trim(f.value))
         /\ ContentOf(f) \in Texts
<1> DEFINE n == f.name
           c == ContentOf(f)
           x == ":"
           r == Rest(f)
<1>1. /\ n \in Seq(Namely) /\ n \in Seq(Lineless) /\ Rest(f) \in Seq(Lineless)
      /\ c = (n \o Colon(f)) \o Rest(f) /\ c \in Seq(Lineless)
      /\ ~f.colon => Rest(f) \in Seq(Colonless)
  BY ContentCut
<1>2. x \in Lineless /\ Namely \subseteq Colonless /\ Colonless = Lineless \ {x}
  BY KindFacts DEF Lineless, Colonless
<1>3. (\A i \in 1..Len(n) : n[i] # x) /\ SpaceFree(n)
  <2>1. \A i \in 1..Len(n) : n[i] \in Namely
    BY <1>1, ElementOfSeq
  <2> QED
    BY <2>1 DEF Namely, SpaceFree, Space
<1>4. c \in Texts
  <2>1. Lineless \subseteq Piece
    BY DEF Lineless
  <2> HIDE DEF c
  <2> QED
    BY <1>1, <2>1, SeqInto DEF Texts
<1>5. CASE f.colon
  <2>1. c = (n \o <<x>>) \o r
    BY <1>1, <1>5 DEF Colon
  <2> HIDE DEF n, x, r, c
  <2>2. /\ Found(<<x>>, (n \o <<x>>) \o r) /\ Before(<<x>>, (n \o <<x>>) \o r) = n
        /\ Behind(<<x>>, (n \o <<x>>) \o r) = r
    <3>1. n \in Seq(Lineless) /\ r \in Seq(Lineless) /\ x \in Lineless
          /\ \A i \in 1..Len(n) : n[i] # x
      BY <1>1, <1>2, <1>3 DEF r
    <3> DEFINE L == Lineless
    <3> HIDE DEF L
    <3> QED
      BY ONLY <3>1, CutAt
  <2>3. Found(<<":">>, c) /\ Before(<<":">>, c) = n /\ Behind(<<":">>, c) = r
    BY <2>1, <2>2 DEF x
  <2>4. Trim(n) = n
    BY <1>1, <1>3, TrimNothing
  <2>5. Trim(r) = Trim(f.value)
    <3>1. f.space \in Seq(Space) /\ f.value \in Texts
      BY DEF SendableField, Field, Space
    <3> QED
      BY <3>1, TrimPadded DEF r, Rest
  <2> QED
    BY <1>4, <1>5, <2>3, <2>4, <2>5 DEF Key, Value, n, c
<1>6. CASE ~f.colon
  <2> DEFINE z == <<>>
  <2>1. z \in Seq(Colonless) /\ c = (n \o z) \o r
    BY <1>1, <1>6, EmptySeq DEF Colon
  <2>2. n \in Seq(Colonless) /\ r \in Seq(Colonless)
    BY <1>1, <1>2, <1>6, SeqInto
  <2> HIDE DEF n, x, r, c, z
  <2>3. n \o z \in Seq(Colonless)
    BY <2>1, <2>2, ConcatProperties
  <2>4. (n \o z) \o r \in Seq(Colonless)
    BY <2>2, <2>3, ConcatProperties
  <2>5. c \in Seq(Lineless \ {x})
    BY <1>2, <2>1, <2>4
  <2>6. ~Found(<<x>>, c)
    BY <1>2, <2>5, NotThere
  <2> QED
    BY <1>4, <1>6, <2>6 DEF c, x
<1> QED
  BY <1>5, <1>6

FieldName(it, k) == ToLowerCase(it.fields[k].name)
FieldValue(it, k) == ToLowerCase(Trim(it.fields[k].value))

\* The j-th field is the last of the first i with its name.
LastOf(it, i, name, j) ==
  FieldName(it, j) = name /\ \A k \in 1..i : FieldName(it, k) = name => k <= j

\* What the parser holds after the first i fields.
Kept(r, it, i) ==
  /\ r.error <=> \E j \in 1..i : ~it.fields[j].colon
  /\ ~r.error =>
       /\ \A name : name \in DOMAIN r.headers <=>
                      name # <<>> /\ \E j \in 1..i : FieldName(it, j) = name
       /\ \A name \in DOMAIN r.headers : \E j \in 1..i :
            LastOf(it, i, name, j) /\ r.headers[name] = FieldValue(it, j)

\* A line more.
LEMMA FieldKept ==
  ASSUME NEW it \in Intent, Sendable(it), NEW i \in Nat, i + 1 <= Len(it.fields),
         NEW r \in RequestType, Kept(r, it, i)
  PROVE  /\ ParseHeader(r, ContentOf(it.fields[i + 1])) \in RequestType
         /\ ParseHeader(r, ContentOf(it.fields[i + 1])).method = r.method
         /\ Kept(ParseHeader(r, ContentOf(it.fields[i + 1])), it, i + 1)
<1> DEFINE n == i + 1
           f == it.fields[n]
           c == ContentOf(f)
           q == ParseHeader(r, c)
           key == FieldName(it, n)
           value == FieldValue(it, n)
<1>1. f \in Field /\ SendableField(f)
  <2>1. it.fields \in Seq(Field)
    BY DEF Intent
  <2>2. n \in 1..Len(it.fields) /\ n \in DOMAIN it.fields
    BY <2>1, LenProperties
  <2>3. f \in Field
    BY <2>1, <2>2, ElementOfSeq
  <2> QED
    BY <2>2, <2>3 DEF Sendable
<1>2. /\ Found(<<":">>, c) <=> f.colon
      /\ f.colon => Key(c) = key /\ Value(c) = value
      /\ c \in Texts
  BY <1>1, FieldRead DEF FieldName, FieldValue
<1>3. q = IF r.error THEN r
          ELSE IF ~Found(<<":">>, c) THEN Throw(r)
          ELSE IF Key(c) = <<>> THEN r
          ELSE [r EXCEPT !.headers = Put(@, Key(c), Value(c))]
  BY DEF ParseHeader
<1>4. q \in RequestType /\ (f.colon => key \in Texts /\ value \in Texts)
  <2> HIDE DEF q, c
  <2>1. ParseHeader(r, c) \in RequestType
        /\ (Found(<<":">>, c) => Key(c) \in Texts /\ Value(c) \in Texts)
    BY <1>2, HeaderTyped
  <2> QED
    BY <1>2, <2>1 DEF q
<1>5. n \in 1..n /\ \A j : j \in 1..n <=> j \in 1..i \/ j = n
  OBVIOUS
<1>6. r.error \in BOOLEAN /\ r.headers \in Maps
  BY DEF RequestType
<1>7. (\E j \in 1..n : ~it.fields[j].colon) <=> (\E j \in 1..i : ~it.fields[j].colon) \/ ~f.colon
  BY <1>5
<1>8. r.error <=> \E j \in 1..i : ~it.fields[j].colon
  BY DEF Kept
<1> HIDE DEF q, c, f, key, value
<1>9. CASE r.error
  <2>1. q = r
    BY <1>3, <1>9
  <2> QED
    BY <1>4, <1>7, <1>8, <1>9, <2>1 DEF Kept, q, c, f
<1>10. CASE ~r.error /\ ~f.colon
  <2>1. q = [r EXCEPT !.error = TRUE]
    BY <1>2, <1>3, <1>10 DEF Throw
  <2>2. q.error = TRUE /\ q.method = r.method
    BY <2>1 DEF RequestType
  <2> QED
    BY <1>4, <1>7, <1>10, <2>2 DEF Kept, q, c, f
<1>11. CASE ~r.error /\ f.colon /\ key = <<>>
  <2>1. q = r
    BY <1>2, <1>3, <1>11
  <2>2. ASSUME NEW name
        PROVE  name \in DOMAIN r.headers <=>
                 name # <<>> /\ \E j \in 1..n : FieldName(it, j) = name
    <3>1. name \in DOMAIN r.headers <=> name # <<>> /\ \E j \in 1..i : FieldName(it, j) = name
      BY <1>11 DEF Kept
    <3>2. name # <<>> => FieldName(it, n) # name
      BY <1>11 DEF key
    <3> QED
      BY <1>5, <3>1, <3>2
  <2>3. ASSUME NEW name \in DOMAIN r.headers
        PROVE  \E j \in 1..n : LastOf(it, n, name, j) /\ r.headers[name] = FieldValue(it, j)
    <3>1. PICK j \in 1..i : LastOf(it, i, name, j) /\ r.headers[name] = FieldValue(it, j)
      BY <1>11 DEF Kept
    <3>2. FieldName(it, n) # name
      BY <1>11, <2>2 DEF key
    <3>3. LastOf(it, n, name, j)
      BY <1>5, <3>1, <3>2 DEF LastOf
    <3> QED
      BY <1>5, <3>1, <3>3
  <2>4. Kept(r, it, n)
    BY <1>7, <1>8, <1>11, <2>2, <2>3 DEF Kept
  <2> QED
    BY <1>4, <2>1, <2>4 DEF q, c, f
<1>12. CASE ~r.error /\ f.colon /\ key # <<>>
  <2> DEFINE m == r.headers
             p == Put(m, key, value)
  <2>1. q = [r EXCEPT !.headers = p]
    BY <1>2, <1>3, <1>12
  <2>2. /\ DOMAIN p = DOMAIN m \cup {key} /\ p[key] = value
        /\ \A x \in DOMAIN m : x # key => p[x] = m[x]
    BY DEF Put
  <2> HIDE DEF p
  <2>3. q.headers = p /\ q.error = FALSE /\ q.method = r.method
    BY <1>6, <1>12, <2>1 DEF RequestType
  <2>4. ASSUME NEW name
        PROVE  name \in DOMAIN p <=> name # <<>> /\ \E j \in 1..n : FieldName(it, j) = name
    <3>1. name \in DOMAIN m <=> name # <<>> /\ \E j \in 1..i : FieldName(it, j) = name
      BY <1>12 DEF Kept
    <3>2. FieldName(it, n) = key
      BY DEF key
    <3> QED
      BY <1>5, <1>12, <2>2, <3>1, <3>2
  <2>5. ASSUME NEW name \in DOMAIN p
        PROVE  \E j \in 1..n : LastOf(it, n, name, j) /\ p[name] = FieldValue(it, j)
    <3>1. CASE name = key
      <4>1. LastOf(it, n, name, n)
        <5>1. \A k \in 1..n : k <= n
          OBVIOUS
        <5> QED
          BY <3>1, <5>1 DEF LastOf, key
      <4>2. p[name] = FieldValue(it, n)
        BY <2>2, <3>1 DEF value
      <4> QED
        BY <1>5, <4>1, <4>2
    <3>2. CASE name # key
      <4>1. name \in DOMAIN m /\ p[name] = m[name]
        BY <2>2, <3>2
      <4>2. PICK j \in 1..i : LastOf(it, i, name, j) /\ m[name] = FieldValue(it, j)
        BY <1>12, <4>1 DEF Kept
      <4>3. LastOf(it, n, name, j)
        BY <1>5, <3>2, <4>2 DEF LastOf, key
      <4> QED
        BY <1>5, <4>1, <4>2, <4>3
    <3> QED
      BY <3>1, <3>2
  <2>6. Kept(q, it, n)
    <3>1. q.error <=> \E j \in 1..n : ~it.fields[j].colon
      BY <1>7, <1>8, <1>12, <2>3
    <3>2. \A name : name \in DOMAIN q.headers <=>
                      name # <<>> /\ \E j \in 1..n : FieldName(it, j) = name
      BY <2>3, <2>4
    <3>3. \A name \in DOMAIN q.headers : \E j \in 1..n :
            LastOf(it, n, name, j) /\ q.headers[name] = FieldValue(it, j)
      BY <2>3, <2>5
    <3> QED
      BY <3>1, <3>2, <3>3 DEF Kept
  <2> QED
    BY <1>4, <2>3, <2>6 DEF q, c, f
<1> QED
  BY <1>9, <1>10, <1>11, <1>12

\* What Request makes of the head of an intent.
LEMMA ParsedAs ==
  ASSUME NEW it \in Intent, Sendable(it)
  PROVE  /\ ParseRequest(HeadOf(it)) \in RequestType
         /\ ParseRequest(HeadOf(it)).error <=> ~WellFormed(it)
         /\ ~ParseRequest(HeadOf(it)).error =>
              /\ ParseRequest(HeadOf(it)).method = it.method
              /\ Kept(ParseRequest(HeadOf(it)), it, Len(it.fields))
<1> DEFINE h == HeadOf(it)
           line == ParseLine(h)
           t == HeaderLines(h)
           n == Len(it.fields)
           r == ParseRequest(h)
<1>1. /\ h \in Texts /\ Found(CRLF, h) /\ Len(t) = n
      /\ \A k \in 1..n : t[k] = ContentOf(it.fields[k])
  BY SendableUnbroken, LinesFound
<1>2. /\ line \in RequestType /\ line.headers = <<>>
      /\ line.error <=> ~(it.method \in Methods /\ UriGood(it.target) /\ it.protocol # <<>>)
      /\ ~line.error => line.method = it.method
  BY LineAccepted
<1>3. r = IF line.error THEN line ELSE FoldLeft(ParseHeader, line, t)
  BY DEF ParseRequest
<1>4. WellFormed(it) <=>
        /\ it.method \in Methods /\ UriGood(it.target) /\ it.protocol # <<>>
        /\ \A k \in 1..n : it.fields[k].colon
  <2>1. DOMAIN it.fields = 1..n
    BY LenProperties DEF Intent
  <2> QED
    BY <2>1 DEF WellFormed, UriGood
<1>5. t \in Seq(Texts)
  BY <1>1, HeaderLinesTyped
<1>6. n \in Nat
  BY LenProperties DEF Intent
<1>7. line.error \in BOOLEAN
  BY <1>2 DEF RequestType
<1> HIDE DEF line, t, h, n, r
<1>8. CASE line.error
  BY <1>2, <1>3, <1>4, <1>8 DEF r, h
<1>9. CASE ~line.error
  <2>1. PICK g : HeaderSteps(g, line, t)
    <3> DEFINE R == RequestType
               T == Texts
    <3>1. line \in R /\ t \in Seq(T) /\ \A k \in R, x \in T : ParseHeader(k, x) \in R
      BY <1>2, <1>5, HeaderTyped
    <3> HIDE DEF R, T
    <3> QED
      BY <3>1, HeaderFolds
  <2>2. /\ g[0] = line /\ g[n] = r
        /\ \A i \in 1..n : g[i] = ParseHeader(g[i - 1], ContentOf(it.fields[i]))
    BY <1>1, <1>3, <1>9, <2>1 DEF HeaderSteps
  <2> DEFINE P(i) == g[i] \in RequestType /\ g[i].method = it.method /\ Kept(g[i], it, i)
             Good == {i \in Nat : i <= n => P(i)}
  <2>3. 0 \in Good
    <3>1. DOMAIN line.headers = {}
      BY <1>2
    <3>2. 1..0 = {}
      OBVIOUS
    <3>3. Kept(line, it, 0)
      BY <1>9, <3>1, <3>2 DEF Kept
    <3> QED
      BY <1>2, <1>9, <2>2, <3>3
  <2>4. ASSUME NEW i \in Nat, i \in Good
        PROVE  i + 1 \in Good
    <3> SUFFICES ASSUME i + 1 <= n PROVE P(i + 1)
      OBVIOUS
    <3>1. P(i) /\ i + 1 \in 1..n /\ (i + 1) - 1 = i
      BY <1>6, <2>4
    <3>2. g[i + 1] = ParseHeader(g[i], ContentOf(it.fields[i + 1]))
      BY <2>2, <3>1
    <3> DEFINE s == g[i]
    <3>3. s \in RequestType /\ s.method = it.method /\ Kept(s, it, i)
      BY <3>1
    <3>4. i + 1 <= Len(it.fields)
      BY DEF n
    <3> HIDE DEF s
    <3>5. /\ ParseHeader(s, ContentOf(it.fields[i + 1])) \in RequestType
          /\ ParseHeader(s, ContentOf(it.fields[i + 1])).method = s.method
          /\ Kept(ParseHeader(s, ContentOf(it.fields[i + 1])), it, i + 1)
      BY <3>3, <3>4, FieldKept
    <3> QED
      BY <3>2, <3>3, <3>5 DEF s
  <2> HIDE DEF Good
  <2>5. \A i \in Nat : i \in Good
    BY <2>3, <2>4, Induction
  <2>6. P(n)
    BY <1>6, <2>5 DEF Good
  <2>7. r \in RequestType /\ r.method = it.method /\ Kept(r, it, n)
    BY <2>2, <2>6
  <2>8. r.error <=> \E j \in 1..n : ~it.fields[j].colon
    BY <2>7 DEF Kept
  <2> QED
    BY <1>2, <1>4, <1>9, <2>7, <2>8 DEF r, h, n
<1> QED
  BY <1>8, <1>9

\* The last field of a name.
LEMMA LastNamed ==
  ASSUME NEW it \in Intent, WellFormed(it), NEW name, NEW j \in 1..Len(it.fields),
         LastOf(it, Len(it.fields), name, j)
  PROVE  Named(it, name) # {} /\ ToLowerCase(LastValue(it, name)) = FieldValue(it, j)
<1> DEFINE N == Named(it, name)
<1>1. DOMAIN it.fields = 1..Len(it.fields) /\ Len(it.fields) \in Nat
  BY LenProperties DEF Intent
<1>2. \A k \in 1..Len(it.fields) : it.fields[k].colon
  BY <1>1 DEF WellFormed
<1>3. N = {k \in 1..Len(it.fields) : FieldName(it, k) = name}
  BY <1>1, <1>2 DEF Named, FieldName
<1>4. LastValue(it, name) = Trim(it.fields[Max(N)].value)
  BY DEF LastValue
<1> HIDE DEF N
<1>5. N \in SUBSET Nat /\ j \in N /\ \A k \in N : k <= j
  BY <1>1, <1>3 DEF LastOf
<1>6. Max(N) = j
  BY <1>5, MaxIs
<1> QED
  BY <1>4, <1>5, <1>6 DEF FieldValue, N

\* A request is accepted if it is well formed, and its fields are found.
LEMMA FoundFields ==
  ASSUME AllSendable, intent \in Intents, HInv
  PROVE  FieldsFound
<1> DEFINE it == intent
           r == request
           n == Len(it.fields)
<1> SUFFICES ASSUME client.endHeaders
             PROVE  /\ client.requestError <=> ~WellFormed(it)
                    /\ ~client.requestError =>
                         /\ DOMAIN r.headers =
                              {ToLowerCase(it.fields[k].name) : k \in DOMAIN it.fields} \ {<<>>}
                         /\ \A name \in DOMAIN r.headers :
                              r.headers[name] = ToLowerCase(LastValue(it, name))
  BY DEF FieldsFound
<1>1. it \in Intent /\ Sendable(it) /\ r = ParseRequest(HeadOf(it))
  BY IntentsAssumption DEF AllSendable, HInv
<1>2. client.requestError <=> r.error
  BY DEF HInv, Decided
<1>3. DOMAIN it.fields = 1..n /\ n \in Nat
  BY <1>1, LenProperties DEF Intent
<1> HIDE DEF it, r
<1>4. /\ r.error <=> ~WellFormed(it)
      /\ ~r.error => Kept(r, it, n)
  BY <1>1, ParsedAs
<1>5. ASSUME ~r.error
      PROVE  /\ DOMAIN r.headers =
                  {ToLowerCase(it.fields[k].name) : k \in DOMAIN it.fields} \ {<<>>}
             /\ \A name \in DOMAIN r.headers : r.headers[name] = ToLowerCase(LastValue(it, name))
  <2>1. Kept(r, it, n) /\ WellFormed(it)
    BY <1>4, <1>5
  <2>2. \A name : name \in DOMAIN r.headers <=>
                    name # <<>> /\ \E j \in 1..n : FieldName(it, j) = name
    BY <1>5, <2>1 DEF Kept
  <2>3. DOMAIN r.headers = {ToLowerCase(it.fields[k].name) : k \in DOMAIN it.fields} \ {<<>>}
    BY <1>3, <2>2 DEF FieldName
  <2>4. ASSUME NEW name \in DOMAIN r.headers
        PROVE  r.headers[name] = ToLowerCase(LastValue(it, name))
    <3>1. PICK j \in 1..n : LastOf(it, n, name, j) /\ r.headers[name] = FieldValue(it, j)
      BY <1>5, <2>1 DEF Kept
    <3>2. ToLowerCase(LastValue(it, name)) = FieldValue(it, j)
      BY <1>1, <2>1, <3>1, LastNamed
    <3> QED
      BY <3>1, <3>2
  <2> QED
    BY <2>3, <2>4
<1> QED
  BY <1>2, <1>4, <1>5 DEF it, r

\* So it is for all intents.
LEMMA SendableInv ==
  ASSUME AllSendable
  PROVE  AllUnbroken
BY IntentsAssumption, SendableUnbroken DEF AllSendable, AllUnbroken

\* However its segments were cut, a request is accepted if and only if it is well
\* formed, and its fields are found.
THEOREM FieldsAreFound ==
  ASSUME AllSendable
  PROVE  Spec => []FieldsFound
<1>1. AllUnbroken
  BY SendableInv
<1>2. Init => IInv /\ HInv
  BY <1>1, StartsTyped, StartsExactly
<1>3. IInv /\ HInv /\ [Next]_vars => (IInv /\ HInv)'
  BY <1>1, StepTyped, StepExactly
<1>4. IInv /\ HInv => FieldsFound
  BY FoundFields DEF IInv
<1> QED
  BY <1>2, <1>3, <1>4, PTL DEF Spec

----------------------------------------------------------------------------
(* The length of a body.                                                   *)

\* The number a text starts with, as a client means it.
NumberIn(s) ==
  IF s # <<>> /\ s[1] \in DOMAIN NumberOf THEN NumberOf[s[1]] ELSE 0
AtMost(n) == Min({n, MaxInt})

\* A number, or the largest int: 0 only for 0.
LEMMA AtMostFacts ==
  ASSUME NEW n \in Nat
  PROVE  /\ AtMost(n) \in 0..MaxInt /\ AtMost(n) \in Nat
         /\ AtMost(n) = 0 <=> n = 0
<1> DEFINE T == {n, MaxInt}
<1>1. MaxInt \in Nat /\ MaxInt # 0
  BY NumberAssumption
<1>2. T \in SUBSET Nat /\ T # {} /\ n \in T /\ MaxInt \in T /\ \A x \in T : x = n \/ x = MaxInt
  BY <1>1
<1>3. AtMost(n) = Min(T)
  BY DEF AtMost
<1> HIDE DEF T
<1>4. Min(T) \in T /\ Min(T) <= n /\ Min(T) <= MaxInt
  BY <1>2, MinFacts
<1>5. Min(T) \in Nat /\ (Min(T) = n \/ Min(T) = MaxInt)
  BY <1>2, <1>4
<1> QED
  BY <1>1, <1>3, <1>4, <1>5

\* stringToInt of a text that is not empty, and whose case does not matter.
LEMMA NumberRead ==
  ASSUME NEW s \in Texts, s # <<>>
  PROVE  \A n \in StringToInt(ToLowerCase(s)) :
           (IF n >= 0 THEN n ELSE 0) = AtMost(NumberIn(s))
<1> DEFINE t == ToLowerCase(s)
           D == DOMAIN NumberOf
           sign == "-"
           Digits(k) == IF k \in DOMAIN t /\ t[k] \in D THEN AtMost(NumberOf[t[k]]) ELSE 0
<1>1. /\ t \in Texts /\ Len(t) = Len(s)
      /\ \A i \in 1..Len(s) : t[i] = IF s[i] \in DOMAIN LowerOf THEN LowerOf[s[i]] ELSE s[i]
  BY ChangedTyped
<1>2. Len(s) \in Nat /\ Len(s) # 0 /\ DOMAIN t = 1..Len(s)
  <2>1. Len(s) \in Nat /\ DOMAIN t = 1..Len(t)
    BY <1>1, LenProperties DEF Texts
  <2> QED
    BY <1>1, <2>1, EmptySeq DEF Texts
<1>3. t # <<>>
  BY <1>1, <1>2, EmptySeq
<1>4. StringToInt(t) = {IF t[1] = sign THEN -Digits(2) ELSE Digits(1)}
  BY <1>3 DEF StringToInt, AtMost
<1> HIDE DEF t, D, sign
<1>5. /\ \A c \in D : NumberOf[c] \in Nat
      /\ sign \notin D
      /\ \A c \in DOMAIN LowerOf : c \notin D /\ LowerOf[c] \notin D /\ c # sign
                                   /\ LowerOf[c] # sign
  BY NumberAssumption DEF D, sign
<1>6. \A k : Digits(k) \in Nat
  <2> SUFFICES ASSUME NEW k PROVE Digits(k) \in Nat
    OBVIOUS
  <2>1. CASE k \in DOMAIN t /\ t[k] \in D
    <3>1. NumberOf[t[k]] \in Nat
      BY <1>5, <2>1
    <3> QED
      BY <2>1, <3>1, AtMostFacts
  <2>2. CASE ~(k \in DOMAIN t /\ t[k] \in D)
    BY <2>2
  <2> QED
    BY <2>1, <2>2
<1>7. 1 \in DOMAIN t /\ 1 \in 1..Len(s)
  BY <1>2
<1>8. t[1] = IF s[1] \in DOMAIN LowerOf THEN LowerOf[s[1]] ELSE s[1]
  BY <1>1, <1>7
<1>9. AtMost(0) = 0
  BY AtMostFacts
<1>10. CASE s[1] \in D
  <2>1. t[1] = s[1] /\ t[1] # sign
    BY <1>5, <1>8, <1>10
  <2>2. NumberIn(s) = NumberOf[s[1]]
    BY <1>10 DEF NumberIn, D
  <2>3. Digits(1) = AtMost(NumberIn(s))
    BY <1>7, <1>10, <2>1, <2>2
  <2> HIDE DEF Digits
  <2>4. StringToInt(t) = {Digits(1)}
    BY <1>4, <2>1
  <2> QED
    BY <1>6, <2>3, <2>4 DEF t
<1>11. CASE s[1] \notin D
  <2>1. t[1] \notin D
    BY <1>5, <1>8, <1>11
  <2>2. NumberIn(s) = 0
    BY <1>11 DEF NumberIn, D
  <2>3. Digits(1) = 0
    BY <2>1
  <2> HIDE DEF Digits
  <2>4. Digits(2) \in Nat
    BY <1>6
  <2>5. \A n \in StringToInt(t) : n = 0 \/ n = -Digits(2)
    BY <1>4, <2>3
  <2>6. \A n \in StringToInt(t) : (IF n >= 0 THEN n ELSE 0) = 0
    <3> SUFFICES ASSUME NEW n \in StringToInt(t) PROVE (IF n >= 0 THEN n ELSE 0) = 0
      OBVIOUS
    <3> DEFINE d == Digits(2)
    <3>1. d \in Nat /\ (n = 0 \/ n = -d)
      BY <2>4, <2>5
    <3> HIDE DEF d
    <3> QED
      BY <3>1
  <2> QED
    BY <1>9, <2>2, <2>6 DEF t
<1> QED
  BY <1>10, <1>11

\* What getContentLength returns.
LEMMA LengthRead ==
  ASSUME NEW it \in Intent, WellFormed(it), NEW r, Kept(r, it, Len(it.fields)), ~r.error,
         Named(it, ContentLength) # {} => LastValue(it, ContentLength) # <<>>,
         NEW m \in GetContentLength(r)
  PROVE  m = AtMost(IF Named(it, ContentLength) # {}
                    THEN NumberIn(LastValue(it, ContentLength)) ELSE 0)
<1> DEFINE name == ContentLength
           n == Len(it.fields)
           value == LastValue(it, name)
<1>1. /\ name \in DOMAIN r.headers <=> name # <<>> /\ \E j \in 1..n : FieldName(it, j) = name
      /\ \A x \in DOMAIN r.headers : \E j \in 1..n :
           LastOf(it, n, x, j) /\ r.headers[x] = FieldValue(it, j)
  BY DEF Kept
<1>2. name # <<>>
  <2>1. Len(<<>>) = 0 /\ Len(<<"content-length">>) = 1
    OBVIOUS
  <2> QED
    BY <2>1 DEF ContentLength
<1>3. DOMAIN it.fields = 1..n /\ \A k \in 1..n : it.fields[k].colon
  <2>1. DOMAIN it.fields = 1..n
    BY LenProperties DEF Intent
  <2> QED
    BY <2>1 DEF WellFormed
<1>4. Named(it, name) # {} <=> \E j \in 1..n : FieldName(it, j) = name
  BY <1>3 DEF Named, FieldName
<1>5. GetContentLength(r) = IF name \notin DOMAIN r.headers THEN {0}
                            ELSE {IF k >= 0 THEN k ELSE 0 : k \in StringToInt(r.headers[name])}
  BY DEF GetContentLength
<1> HIDE DEF name, n, value
<1>6. CASE name \notin DOMAIN r.headers
  <2>1. m = 0 /\ Named(it, name) = {}
    BY <1>1, <1>2, <1>4, <1>5, <1>6
  <2>2. AtMost(0) = 0
    BY AtMostFacts
  <2> QED
    BY <2>1, <2>2 DEF name
<1>7. CASE name \in DOMAIN r.headers
  <2>1. PICK j \in 1..n : LastOf(it, n, name, j) /\ r.headers[name] = FieldValue(it, j)
    BY <1>1, <1>7
  <2>2. Named(it, name) # {} /\ ToLowerCase(value) = FieldValue(it, j)
    BY <2>1, LastNamed DEF n, value
  <2>3. value \in Texts
    <3> DEFINE N == Named(it, name)
    <3>1. N \subseteq 1..n /\ N # {} /\ n \in Nat
      <4>1. n \in Nat
        BY LenProperties DEF Intent, n
      <4> QED
        BY <1>3, <2>2, <4>1 DEF Named
    <3> HIDE DEF N
    <3>2. N \in SUBSET Nat /\ \A k \in N : k <= n
      BY <3>1
    <3>3. Max(N) \in 1..n
      BY <3>1, <3>2, MaxFacts
    <3>4. it.fields[Max(N)] \in Field
      BY <3>3, ElementOfSeq DEF Intent, n
    <3> DEFINE v == it.fields[Max(N)].value
    <3>5. v \in Texts
      BY <3>4 DEF Field
    <3>6. value = Trim(v)
      BY DEF LastValue, N, value
    <3> HIDE DEF v
    <3> QED
      BY <3>5, <3>6, TrimTyped DEF Texts
  <2>4. value # <<>>
    BY <2>2 DEF name, value
  <2>5. PICK k \in StringToInt(ToLowerCase(value)) : m = IF k >= 0 THEN k ELSE 0
    BY <1>5, <1>7, <2>1, <2>2
  <2>6. m = AtMost(NumberIn(value))
    BY <2>3, <2>4, <2>5, NumberRead
  <2> QED
    BY <2>2, <2>6 DEF name, value
<1> QED
  BY <1>6, <1>7

\* Whether handleHeaders waits for a body, and for how much of one.
LEMMA LengthTakenAs ==
  ASSUME AllSendable, intent \in Intents, HInv
  PROVE  LengthTaken
<1> DEFINE it == intent
           given == Named(it, ContentLength) # {}
           value == LastValue(it, ContentLength)
           number == IF given /\ value # <<>> /\ value[1] \in DOMAIN NumberOf
                     THEN NumberOf[value[1]] ELSE 0
<1> SUFFICES ASSUME client.endHeaders, ~client.requestError, given => value # <<>>
             PROVE  /\ client.hasBody <=> it.method = <<"POST">> /\ number > 0
                    /\ client.code = 411 <=> it.method = <<"POST">> /\ number = 0
                    /\ client.hasBody => client.bodySize = Min({number, MaxInt})
  BY DEF LengthTaken
<1>1. it \in Intent /\ Sendable(it) /\ request = ParseRequest(HeadOf(it))
  BY IntentsAssumption DEF AllSendable, HInv
<1>2. PICK m \in GetContentLength(request) : Decided(client, request, m)
  BY DEF HInv
<1>3. ~request.error
  BY <1>2 DEF Decided
<1>4. WellFormed(it) /\ Kept(request, it, Len(it.fields)) /\ request.method = it.method
  <2> HIDE DEF it
  <2> QED
    BY <1>1, <1>3, ParsedAs
<1>5. number = (IF given THEN NumberIn(value) ELSE 0)
  BY DEF NumberIn
<1>6. number \in Nat
  BY NumberAssumption
<1> HIDE DEF number
<1>7. m = AtMost(number)
  <2> HIDE DEF it
  <2>1. m = AtMost(IF Named(it, ContentLength) # {}
                   THEN NumberIn(LastValue(it, ContentLength)) ELSE 0)
    BY <1>1, <1>2, <1>3, <1>4, LengthRead
  <2> QED
    BY <1>5, <2>1
<1>8. m = 0 <=> number = 0
  BY <1>6, <1>7, AtMostFacts
<1>9. /\ client.hasBody <=> it.method = <<"POST">> /\ m # 0
      /\ client.code = 411 <=> it.method = <<"POST">> /\ m = 0
      /\ client.hasBody => client.bodySize = m
  BY <1>2, <1>3, <1>4 DEF Decided
<1>10. number > 0 <=> number # 0
  BY <1>6
<1> QED
  BY <1>7, <1>8, <1>9, <1>10 DEF AtMost

\* A POST waits for exactly the body its Content-Length says, or is refused.
THEOREM LengthIsTaken ==
  ASSUME AllSendable
  PROVE  Spec => []LengthTaken
<1>1. AllUnbroken
  BY SendableInv
<1>2. Init => IInv /\ HInv
  BY <1>1, StartsTyped, StartsExactly
<1>3. IInv /\ HInv /\ [Next]_vars => (IInv /\ HInv)'
  BY <1>1, StepTyped, StepExactly
<1>4. IInv /\ HInv => LengthTaken
  BY LengthTakenAs DEF IInv
<1> QED
  BY <1>2, <1>3, <1>4, PTL DEF Spec

----------------------------------------------------------------------------
(* The query, read by a script.                                           *)

\* The members of a finite set, one after the other, each once.
LEMMA EachOnce ==
  ASSUME NEW S, IsFiniteSet(S)
  PROVE  LET t == SetToSeq(S) IN
         /\ t \in Seq(S) /\ Len(t) = Cardinality(S) /\ Len(t) \in Nat
         /\ \A i, j \in 1..Len(t) : t[i] = t[j] => i = j
         /\ \A x \in S : \E i \in 1..Len(t) : t[i] = x
<1> DEFINE n == Cardinality(S)
           t == SetToSeq(S)
<1>1. n \in Nat /\ ExistsBijection(1..n, S)
  BY FS_CardinalityType
<1>2. PICK f \in [1..n -> S] : IsInjective(f)
  BY <1>1 DEF ExistsBijection, Bijection, Injection
<1>3. t \in [1..n -> S] /\ IsInjective(t)
  BY <1>2 DEF SetToSeq
<1> HIDE DEF t, n
<1>4. t \in Injection(1..n, S)
  BY <1>3 DEF Injection
<1>5. IsFiniteSet(1..n) /\ Cardinality(1..n) = n
  BY <1>1, FS_Interval
<1>6. t \in Surjection(1..n, S)
  <2>1. Cardinality(1..n) = Cardinality(S)
    BY <1>5 DEF n
  <2> QED
    BY <1>4, <2>1, FS_Injection
<1>7. \A x \in S : \E i \in 1..n : t[i] = x
  BY <1>6 DEF Surjection
<1>8. t \in Seq(S) /\ Len(t) = n
  BY <1>1, <1>3
<1>9. \A i, j \in 1..n : t[i] = t[j] => i = j
  BY <1>3 DEF IsInjective
<1> QED
  BY <1>1, <1>7, <1>8, <1>9 DEF t, n

\* Where a part ends: at the end of the text or before a separator.
LEMMA PartEndFacts ==
  ASSUME NEW S, NEW s \in Seq(S), NEW separators, NEW a \in 1..Len(s), s[a] \notin separators
  PROVE  LET b == PartEnd(s, separators, a) IN
         /\ b \in a..Len(s) /\ \A m \in a..b : s[m] \notin separators
         /\ b = Len(s) \/ s[b + 1] \in separators
<1> DEFINE T == {j \in a..Len(s) : \A m \in a..j : s[m] \notin separators}
           b == PartEnd(s, separators, a)
<1>1. Len(s) \in Nat /\ a \in Nat /\ a >= 1 /\ a <= Len(s)
  BY LenProperties
<1>2. a \in T
  BY <1>1
<1>3. T \in SUBSET Nat /\ T # {} /\ \A j \in T : j <= Len(s)
  BY <1>1, <1>2
<1>4. b = Max(T)
  BY DEF PartEnd
<1> HIDE DEF b
<1>5. b \in T /\ \A j \in T : j <= b
  <2> HIDE DEF T
  <2> QED
    BY <1>1, <1>3, <1>4, MaxFacts
<1>6. b \in a..Len(s) /\ \A m \in a..b : s[m] \notin separators
  BY <1>5
<1>7. b = Len(s) \/ s[b + 1] \in separators
  <2> SUFFICES ASSUME b # Len(s), s[b + 1] \notin separators PROVE FALSE
    OBVIOUS
  <2>1. b + 1 \in a..Len(s) /\ b \in Nat /\ a..(b + 1) = (a..b) \cup {b + 1}
    BY <1>1, <1>6
  <2>2. b + 1 \in T
    BY <1>6, <2>1
  <2> HIDE DEF T
  <2> QED
    BY <1>5, <2>1, <2>2
<1> QED
  BY <1>6, <1>7 DEF b

\* The parts of a text, by the places where they start.
LEMMA PartsAt ==
  ASSUME NEW s, NEW separators, NEW n \in Nat, NEW e, Ascending(e, n, Starts(s, separators))
  PROVE  Parts(s, separators) = [k \in 1..n |-> SubSeq(s, e[k], PartEnd(s, separators, e[k]))]
<1> DEFINE b == Starts(s, separators)
<1>1. Cardinality(b) = n /\ \A k \in 1..n : Nth(b, k) = e[k]
  BY NthFacts
<1>2. Parts(s, separators) =
        [k \in 1..Cardinality(b) |-> SubSeq(s, Nth(b, k), PartEnd(s, separators, Nth(b, k)))]
  BY DEF Parts
<1> HIDE DEF b
<1> QED
  BY <1>1, <1>2

\* u is s and p and a separator; s ends in one, or is nothing.
OnePartMore(u, s, p, separators) ==
  /\ Len(s) \in Nat /\ Len(p) \in Nat /\ Len(p) > 0 /\ Len(u) = Len(s) + Len(p) + 1
  /\ DOMAIN s = 1..Len(s) /\ DOMAIN u = 1..Len(u)
  /\ Len(s) = 0 \/ s[Len(s)] \in separators
  /\ \A i \in 1..Len(s) : u[i] = s[i]
  /\ \A i \in 1..Len(p) : p[i] \notin separators /\ u[Len(s) + i] = p[i]
  /\ u[Len(s) + Len(p) + 1] \in separators

\* One part more starts behind s.
LEMMA StartAdded ==
  ASSUME NEW u, NEW s, NEW p, NEW separators, OnePartMore(u, s, p, separators)
  PROVE  Starts(u, separators) = Starts(s, separators) \cup {Len(s) + 1}
<1> DEFINE N == Len(s)
           P == Len(p)
           b == Starts(s, separators)
           c == Starts(u, separators)
<1>1. N \in Nat /\ P \in Nat /\ P > 0
  BY DEF OnePartMore
<1>2. b = {i \in 1..N : s[i] \notin separators /\ (i = 1 \/ s[i - 1] \in separators)}
  <2>1. DOMAIN s = 1..N
    BY DEF OnePartMore
  <2> QED
    BY <2>1 DEF Starts
<1>3. c = {i \in 1..(N + P + 1) : u[i] \notin separators /\ (i = 1 \/ u[i - 1] \in separators)}
  <2>1. DOMAIN u = 1..(N + P + 1)
    BY DEF OnePartMore
  <2> QED
    BY <2>1 DEF Starts
<1>4. /\ \A i \in 1..N : u[i] = s[i]
      /\ \A i \in 1..P : u[N + i] = p[i] /\ u[N + i] \notin separators
      /\ u[N + P + 1] \in separators
      /\ N = 0 \/ s[N] \in separators
  BY DEF OnePartMore
<1> HIDE DEF N, P, b, c
<1>5. ASSUME NEW i \in b
      PROVE  i \in c
  <2>1. i \in 1..N /\ i \in 1..(N + P + 1) /\ s[i] \notin separators /\ (i = 1 \/ s[i - 1] \in separators)
    BY <1>1, <1>2
  <2>2. u[i] = s[i] /\ (i # 1 => i - 1 \in 1..N)
    BY <1>1, <1>4, <2>1
  <2> QED
    BY <1>3, <1>4, <2>1, <2>2
<1>6. N + 1 \in c
  <2>1. N + 1 \in 1..(N + P + 1) /\ 1 \in 1..P /\ (N + 1) - 1 = N
    BY <1>1
  <2>2. u[N + 1] \notin separators
    BY <1>4, <2>1
  <2>3. N + 1 # 1 => N \in 1..N /\ u[N] \in separators
    BY <1>1, <1>4
  <2> QED
    BY <1>3, <2>1, <2>2, <2>3
<1>7. ASSUME NEW i \in c
      PROVE  i \in b \/ i = N + 1
  <2>1. i \in 1..(N + P + 1) /\ u[i] \notin separators /\ (i = 1 \/ u[i - 1] \in separators)
    BY <1>3
  <2>2. CASE i \in 1..N
    <3>1. u[i] = s[i] /\ (i # 1 => i - 1 \in 1..N)
      BY <1>1, <1>4, <2>2
    <3> QED
      BY <1>2, <1>4, <2>1, <2>2, <3>1
  <2>3. CASE i = N + P + 1
    BY <1>4, <2>1, <2>3
  <2>4. CASE i \in (N + 2)..(N + P)
    <3> DEFINE j == i - 1 - N
    <3>1. j \in 1..P /\ N + j = i - 1 /\ i # 1
      BY <1>1, <2>4
    <3> HIDE DEF j
    <3> QED
      BY <1>4, <2>1, <3>1
  <2> QED
    BY <1>1, <2>1, <2>2, <2>3, <2>4
<1> QED
  BY <1>5, <1>6, <1>7 DEF b, c, N

\* The parts of a text and one part more.
LEMMA PartAdded ==
  ASSUME NEW S, NEW separators, NEW s \in Seq(S), NEW p \in Seq(S), NEW x \in S, x \in separators,
         Len(s) = 0 \/ s[Len(s)] \in separators,
         p # <<>>, \A i \in 1..Len(p) : p[i] \notin separators
  PROVE  LET u == s \o (p \o <<x>>) IN
         /\ u \in Seq(S) /\ Len(u) > 0 /\ u[Len(u)] \in separators
         /\ Parts(u, separators) = Append(Parts(s, separators), p)
<1> DEFINE N == Len(s)
           P == Len(p)
           q == p \o <<x>>
           u == s \o q
           b == Starts(s, separators)
           c == Starts(u, separators)
<1>1. N \in Nat /\ P \in Nat /\ P > 0
  BY LenProperties, EmptySeq
<1>2. q \in Seq(S) /\ Len(q) = P + 1 /\ (\A i \in 1..P : q[i] = p[i]) /\ q[P + 1] = x
  <2> DEFINE y == <<x>>
  <2>1. y \in Seq(S) /\ Len(y) = 1 /\ y[1] = x
    OBVIOUS
  <2> HIDE DEF y
  <2>2. p \o y \in Seq(S) /\ Concatenated(p \o y, p, y)
    BY <2>1, ConcatAt
  <2>3. q = p \o y
    BY DEF y
  <2> HIDE DEF q
  <2> QED
    BY <2>1, <2>2, <2>3 DEF Concatenated
<1> HIDE DEF q
<1>3. /\ u \in Seq(S) /\ Len(u) = N + P + 1 /\ \A i \in 1..N : u[i] = s[i]
      /\ \A i \in 1..P : u[N + i] = p[i]
      /\ u[N + P + 1] = x
  <2>1. u \in Seq(S) /\ Concatenated(u, s, q)
    BY <1>2, ConcatAt
  <2> HIDE DEF u
  <2>2. /\ Len(u) = N + (P + 1) /\ \A i \in 1..N : u[i] = s[i]
        /\ \A i \in 1..(P + 1) : u[N + i] = q[i]
    BY <1>2, <2>1 DEF Concatenated
  <2>3. P + 1 \in 1..(P + 1) /\ N + (P + 1) = N + P + 1 /\ \A i \in 1..P : i \in 1..(P + 1)
    BY <1>1
  <2> QED
    BY <1>2, <2>1, <2>2, <2>3
<1> HIDE DEF u
<1>4. c = b \cup {N + 1}
  <2>1. DOMAIN s = 1..Len(s) /\ DOMAIN u = 1..Len(u)
    BY <1>3, LenProperties
  <2>2. OnePartMore(u, s, p, separators)
    BY <1>1, <1>3, <2>1 DEF OnePartMore
  <2>3. Starts(u, separators) = Starts(s, separators) \cup {Len(s) + 1}
    BY <2>2, StartAdded
  <2> QED
    BY <2>3
<1>5. b \in SUBSET (1..N) /\ \A i \in b : s[i] \notin separators
  BY LenProperties DEF Starts
<1>6. PICK n \in Nat : \E e : Ascending(e, n, b)
  BY <1>1, <1>5, OrderExists
<1>7. PICK e : Ascending(e, n, b)
  BY <1>6
<1> HIDE DEF b, c
<1>8. /\ e \in [1..n -> Nat] /\ (\A i, j \in 1..n : i < j => e[i] < e[j]) /\ b = {e[i] : i \in 1..n}
      /\ \A i \in 1..n : e[i] \in b /\ e[i] \in 1..N
  BY <1>5, <1>7 DEF Ascending
<1> DEFINE d == [k \in 1..(n + 1) |-> IF k <= n THEN e[k] ELSE N + 1]
<1>9. (\A k \in 1..n : d[k] = e[k]) /\ d[n + 1] = N + 1
  OBVIOUS
<1>10. Ascending(d, n + 1, c)
  <2>1. d \in [1..(n + 1) -> Nat]
    <3> HIDE DEF N
    <3>1. \A k \in 1..n : e[k] \in Nat
      BY <1>8
    <3>2. N + 1 \in Nat
      BY <1>1
    <3>3. \A k \in 1..(n + 1) : k <= n => k \in 1..n
      OBVIOUS
    <3> QED
      BY <3>1, <3>2, <3>3
  <2> HIDE DEF d
  <2>2. \A k \in 1..(n + 1) : k \in 1..n \/ k = n + 1
    OBVIOUS
  <2>3. \A k \in 1..n : e[k] < N + 1 /\ e[k] \in Nat
    <3> HIDE DEF N
    <3> SUFFICES ASSUME NEW k \in 1..n PROVE e[k] < N + 1 /\ e[k] \in Nat
      OBVIOUS
    <3>1. e[k] \in 1..N
      BY <1>8
    <3> QED
      BY <1>1, <3>1
  <2>4. ASSUME NEW i \in 1..(n + 1), NEW j \in 1..(n + 1), i < j
        PROVE  d[i] < d[j]
    <3>1. i \in 1..n
      BY <2>4
    <3>2. CASE j \in 1..n
      BY <1>8, <1>9, <2>4, <3>1, <3>2
    <3>3. CASE j = n + 1
      BY <1>9, <2>3, <3>1, <3>3
    <3> QED
      BY <2>2, <3>2, <3>3
  <2>5. c = {d[i] : i \in 1..(n + 1)}
    <3>1. n + 1 \in 1..(n + 1) /\ \A k \in 1..n : k \in 1..(n + 1)
      OBVIOUS
    <3> QED
      BY <1>4, <1>8, <1>9, <2>2, <3>1
  <2> QED
    BY <2>1, <2>4, <2>5 DEF Ascending
<1> HIDE DEF d
<1> DEFINE f == Parts(s, separators)
           g == Parts(u, separators)
<1>11. f = [k \in 1..n |-> SubSeq(s, e[k], PartEnd(s, separators, e[k]))]
  BY <1>7, PartsAt DEF b
<1>12. g = [k \in 1..(n + 1) |-> SubSeq(u, d[k], PartEnd(u, separators, d[k]))]
  BY <1>10, PartsAt DEF c
<1> HIDE DEF f, g
<1>13. ASSUME NEW k \in 1..n
       PROVE  g[k] = f[k] /\ f[k] \in Seq(S)
  <2> DEFINE a == e[k]
             z == PartEnd(s, separators, a)
  <2>1. a \in 1..N /\ s[a] \notin separators /\ k \in 1..(n + 1) /\ d[k] = a
    <3>1. k \in 1..(n + 1) /\ d[k] = e[k]
      BY <1>9
    <3>2. e[k] \in b /\ e[k] \in 1..N
      BY <1>8
    <3>3. s[e[k]] \notin separators
      BY <1>5, <3>2
    <3> QED
      BY <3>1, <3>2, <3>3
  <2> HIDE DEF a
  <2>2. /\ z \in a..N /\ \A m \in a..z : s[m] \notin separators
        /\ z = N \/ s[z + 1] \in separators
    BY <2>1, PartEndFacts
  <2> HIDE DEF z
  <2>3. z # N /\ z \in Nat /\ a \in Nat /\ a >= 1 /\ a <= z
    <3>1. z \in a..z
      BY <1>1, <2>1, <2>2
    <3> QED
      BY <1>1, <2>1, <2>2, <3>1
  <2>4. z + 1 \in 1..N /\ s[z + 1] \in separators
    BY <1>1, <2>1, <2>2, <2>3
  <2>5. \A m \in a..z : m \in 1..N /\ u[m] = s[m]
    BY <1>1, <1>3, <2>1, <2>2
  <2>6. u[z + 1] \in separators /\ a \in 1..Len(u) /\ z \in a..Len(u)
    BY <1>1, <1>3, <2>1, <2>2, <2>4
  <2>7. \A m \in a..z : u[m] \notin separators
    BY <2>2, <2>5
  <2>8. PartEnd(u, separators, a) = z
    BY <1>3, <2>6, <2>7, PartEnds
  <2> DEFINE w == SubSeq(s, a, z)
  <2>9. w \in Seq(S) /\ Len(w) = z - a + 1 /\ \A i \in 1..(z - a + 1) : w[i] = s[a + i - 1]
    BY <1>1, <2>2, <2>3, SubSeqFacts
  <2> HIDE DEF w
  <2>10. SubSeq(u, a, a + Len(w) - 1) = w
    <3>1. ASSUME NEW i \in 1..Len(w)
          PROVE  u[a - 1 + i] = w[i]
      <4>1. i \in 1..(z - a + 1) /\ a + i - 1 = a - 1 + i /\ a + i - 1 \in a..z
        BY <2>3, <2>9
      <4> QED
        BY <2>5, <2>9, <4>1
    <3>2. a + Len(w) <= Len(u) + 1
      BY <1>1, <1>3, <2>2, <2>3, <2>9
    <3>3. /\ u \in Seq(S) /\ w \in Seq(S) /\ a \in Nat /\ a >= 1
          /\ \A i \in 1..Len(w) : u[a - 1 + i] = w[i]
      BY <1>3, <2>3, <2>9, <3>1
    <3> QED
      BY ONLY <3>2, <3>3, Stretch
  <2>11. a + Len(w) - 1 = z
    BY <2>3, <2>9
  <2>12. f[k] = w
    BY <1>11 DEF w, z, a
  <2>13. g[k] = SubSeq(u, a, z)
    BY <1>12, <2>1, <2>8
  <2> QED
    BY <2>9, <2>10, <2>11, <2>12, <2>13
<1>14. g[n + 1] = p
  <2> DEFINE a == N + 1
             z == N + P
  <2>1. a \in Nat /\ a >= 1 /\ a \in 1..Len(u) /\ z \in a..Len(u) /\ n + 1 \in 1..(n + 1)
    BY <1>1, <1>3
  <2>2. \A m \in a..z : u[m] \notin separators
    <3> SUFFICES ASSUME NEW m \in a..z PROVE u[m] \notin separators
      OBVIOUS
    <3>1. m - N \in 1..P /\ N + (m - N) = m
      BY <1>1
    <3> QED
      BY <1>3, <3>1
  <2>3. u[z + 1] \in separators
    BY <1>1, <1>3
  <2>4. \A i \in 1..P : u[a - 1 + i] = p[i]
    <3>1. a - 1 = N
      BY <1>1
    <3> QED
      BY <1>3, <3>1
  <2>5. a + P <= Len(u) + 1 /\ a + P - 1 = z
    BY <1>1, <1>3
  <2> HIDE DEF a, z
  <2>6. PartEnd(u, separators, a) = z
    BY <1>3, <2>1, <2>2, <2>3, PartEnds
  <2>7. SubSeq(u, a, z) = p
    <3> DEFINE w == p
    <3>1. w \in Seq(S) /\ \A i \in 1..Len(w) : u[a - 1 + i] = w[i]
      BY <2>4
    <3>2. a + Len(w) <= Len(u) + 1 /\ a + Len(w) - 1 = z
      BY <2>5
    <3> HIDE DEF w
    <3>4. u \in Seq(S) /\ a \in Nat /\ a >= 1
      BY <1>3, <2>1
    <3>3. SubSeq(u, a, a + Len(w) - 1) = w
      BY ONLY <3>1, <3>2, <3>4, Stretch
    <3> QED
      BY <3>2, <3>3 DEF w
  <2>8. d[n + 1] = a
    BY <1>9 DEF a
  <2> QED
    BY <1>12, <2>1, <2>6, <2>7, <2>8
<1>15. f \in Seq(Seq(S)) /\ Len(f) = n
  <2> DEFINE Q == Seq(S)
  <2>1. f \in [1..n -> Q]
    <3>1. \A k \in 1..n : f[k] \in Q
      BY <1>13
    <3>2. f = [k \in 1..n |-> f[k]]
      BY <1>11
    <3> HIDE DEF Q
    <3> QED
      BY <3>1, <3>2
  <2> HIDE DEF Q
  <2>2. f \in Seq(Q) /\ Len(f) = n
    BY <2>1
  <2> QED
    BY <2>2 DEF Q
<1>16. g \in Seq(Seq(S)) /\ Len(g) = n + 1
  <2> DEFINE Q == Seq(S)
             h == n + 1
  <2>1. g \in [1..h -> Q] /\ h \in Nat
    <3>1. \A k \in 1..h : k \in 1..n \/ k = n + 1
      OBVIOUS
    <3>2. \A k \in 1..h : g[k] \in Q
      BY <1>13, <1>14, <3>1
    <3>3. g = [k \in 1..h |-> g[k]]
      BY <1>12
    <3> HIDE DEF Q, h
    <3>4. g \in [1..h -> Q]
      BY <3>2, <3>3
    <3> QED
      BY <3>4 DEF h
  <2> HIDE DEF Q, h
  <2>2. g \in Seq(Q) /\ Len(g) = h
    BY <2>1
  <2> QED
    BY <2>2 DEF Q, h
<1> DEFINE v == Append(f, p)
           Q == Seq(S)
<1>17. v \in Seq(Q) /\ Len(v) = n + 1 /\ v[n + 1] = p /\ \A i \in 1..n : v[i] = f[i]
  <2>1. f \in Seq(Q) /\ p \in Q /\ Len(f) = n
    BY <1>15
  <2> HIDE DEF Q
  <2> QED
    BY <2>1, AppendProperties
<1>18. g = v
  <2>1. g \in Seq(Q)
    BY <1>16
  <2> HIDE DEF v, Q
  <2>2. \A i \in 1..(n + 1) : g[i] = v[i]
    <3>1. \A k \in 1..(n + 1) : k \in 1..n \/ k = n + 1
      OBVIOUS
    <3> QED
      BY <1>13, <1>14, <1>17, <3>1
  <2> QED
    BY <1>16, <1>17, <2>1, <2>2, SeqEqual
<1>19. Len(u) > 0 /\ u[Len(u)] \in separators
  BY <1>1, <1>3
<1> QED
  BY <1>3, <1>18, <1>19 DEF g, f, u, q

\* The front of a sequence grows by its next member.
LEMMA FrontGrows ==
  ASSUME NEW S, NEW s \in Seq(S), NEW k \in Nat, k < Len(s)
  PROVE  /\ SubSeq(s, 1, k) \in Seq(S) /\ s[k + 1] \in S
         /\ SubSeq(s, 1, k + 1) = Append(SubSeq(s, 1, k), s[k + 1])
<1> DEFINE u == SubSeq(s, 1, k)
           v == SubSeq(s, 1, k + 1)
           x == s[k + 1]
           w == Append(u, x)
<1>0. Len(s) \in Nat
  BY LenProperties
<1>1. u \in Seq(S) /\ Len(u) = k /\ \A i \in 1..k : u[i] = s[i]
  BY <1>0, SubSeqFacts
<1>2. v \in Seq(S) /\ Len(v) = k + 1 /\ \A i \in 1..(k + 1) : v[i] = s[i]
  BY <1>0, SubSeqFacts
<1>3. x \in S
  BY <1>0, ElementOfSeq
<1> HIDE DEF u, v
<1>4. w \in Seq(S) /\ Len(w) = k + 1 /\ w[k + 1] = x /\ \A i \in 1..k : w[i] = u[i]
  <2> HIDE DEF x
  <2> QED
    BY <1>1, <1>3, AppendProperties DEF x
<1> HIDE DEF w
<1>5. \A i \in 1..(k + 1) : v[i] = w[i]
  BY <1>1, <1>2, <1>4
<1>6. v = w
  BY <1>2, <1>4, <1>5, SeqEqual
<1> QED
  BY <1>1, <1>3, <1>6 DEF u, v, w, x

\* Nothing has no parts.
LEMMA NoParts ==
  ASSUME NEW separators
  PROVE  Parts(<<>>, separators) = <<>>
<1> DEFINE s == <<>>
<1>1. Starts(s, separators) = {}
  BY DEF Starts
<1>2. Ascending([i \in 1..0 |-> 0], 0, Starts(s, separators))
  BY <1>1 DEF Ascending
<1> DEFINE e == [i \in 1..0 |-> 0]
<1>3. Ascending(e, 0, Starts(s, separators))
  BY <1>2
<1> HIDE DEF e
<1>4. Parts(s, separators) = [k \in 1..0 |-> SubSeq(s, e[k], PartEnd(s, separators, e[k]))]
  BY <1>3, PartsAt
<1> QED
  BY <1>4

\* Parts with a separator behind each, in one text, are the parts of it.
LEMMA PartsJoined ==
  ASSUME NEW S, NEW separators, NEW x \in S, x \in separators, NEW ps \in Seq(Seq(S)),
         \A k \in 1..Len(ps) : Len(ps[k]) > 0 /\ \A i \in 1..Len(ps[k]) : ps[k][i] \notin separators
  PROVE  Parts(FlattenSeq([k \in 1..Len(ps) |-> ps[k] \o <<x>>]), separators) = ps
<1> DEFINE n == Len(ps)
           f == [k \in 1..n |-> ps[k] \o <<x>>]
           Q == Seq(S)
           F(k) == FlattenSeq(SubSeq(f, 1, k))
<1>1. n \in Nat /\ \A k \in 1..n : ps[k] \in Q
  BY LenProperties, ElementOfSeq
<1>2. \A k \in 1..n : f[k] = ps[k] \o <<x>> /\ f[k] \in Q
  <2>1. <<x>> \in Seq(S)
    OBVIOUS
  <2> DEFINE y == <<x>>
  <2> HIDE DEF y
  <2>2. \A k \in 1..n : ps[k] \o y \in Seq(S)
    BY <1>1, <2>1, ConcatProperties DEF y
  <2> QED
    BY <2>2 DEF y
<1>3. f \in Seq(Q) /\ Len(f) = n
  <2>1. f \in [1..n -> Q]
    <3>1. f = [k \in 1..n |-> f[k]]
      OBVIOUS
    <3> HIDE DEF f, Q, n
    <3> QED
      BY <1>2, <3>1
  <2> HIDE DEF f, Q, n
  <2> QED
    BY <1>1, <2>1
<1> HIDE DEF f
<1> DEFINE Good == {k \in Nat : k <= n =>
                      /\ F(k) \in Q /\ (Len(F(k)) = 0 \/ F(k)[Len(F(k))] \in separators)
                      /\ Parts(F(k), separators) = SubSeq(ps, 1, k)}
<1>4. SubSeq(f, 1, 0) = <<>> /\ SubSeq(ps, 1, 0) = <<>> /\ SubSeq(f, 1, n) = f /\ SubSeq(ps, 1, n) = ps
  <2>1. ps \in Seq(Q)
    OBVIOUS
  <2> HIDE DEF Q
  <2>2. SubSeq(f, 1, 0) = <<>> /\ SubSeq(ps, 1, 0) = <<>>
    BY SubSeqEmpty
  <2> QED
    BY <1>3, <2>1, <2>2
<1>5. 0 \in Good
  <2>1. FlattenSeq(<<>>) = <<>>
    BY DEF FlattenSeq
  <2>2. F(0) = <<>>
    BY <1>4, <2>1
  <2>3. <<>> \in Q /\ Len(<<>>) = 0
    BY EmptySeq
  <2> QED
    BY <1>4, <2>2, <2>3, NoParts
<1>6. ASSUME NEW k \in Nat, k \in Good
      PROVE  k + 1 \in Good
  <2> SUFFICES ASSUME k + 1 <= n
               PROVE  /\ F(k + 1) \in Q
                      /\ Len(F(k + 1)) = 0 \/ F(k + 1)[Len(F(k + 1))] \in separators
                      /\ Parts(F(k + 1), separators) = SubSeq(ps, 1, k + 1)
    OBVIOUS
  <2> DEFINE s == F(k)
             p == ps[k + 1]
             q == p \o <<x>>
             u == s \o q
  <2>1. k < n /\ k <= n /\ k + 1 \in 1..n
    BY <1>1
  <2>2. /\ s \in Q /\ (Len(s) = 0 \/ s[Len(s)] \in separators)
        /\ Parts(s, separators) = SubSeq(ps, 1, k)
    BY <1>6, <2>1
  <2>3. SubSeq(f, 1, k) \in Seq(Q) /\ SubSeq(f, 1, k + 1) = Append(SubSeq(f, 1, k), f[k + 1])
    <3> HIDE DEF Q
    <3> QED
      BY <1>3, <2>1, FrontGrows
  <2>4. SubSeq(ps, 1, k + 1) = Append(SubSeq(ps, 1, k), ps[k + 1])
    <3>1. ps \in Seq(Q)
      OBVIOUS
    <3> HIDE DEF Q
    <3> QED
      BY <2>1, <3>1, FrontGrows
  <2>5. f[k + 1] = q /\ q \in Q
    BY <1>2, <2>1
  <2>6. F(k + 1) = u
    <3> DEFINE t == SubSeq(f, 1, k)
    <3>1. t \in Seq(Seq(S)) /\ q \in Seq(S) /\ SubSeq(f, 1, k + 1) = Append(t, q) /\ s = FlattenSeq(t)
      BY <2>3, <2>5
    <3> HIDE DEF t, q, s
    <3>2. FlattenSeq(Append(t, q)) = FlattenSeq(t) \o q
      BY <3>1, FlattenFacts
    <3> QED
      BY <3>1, <3>2
  <2>7. p \in Seq(S) /\ Len(p) > 0 /\ \A i \in 1..Len(p) : p[i] \notin separators
    BY <1>1, <2>1
  <2>8. p # <<>>
    BY <2>7, EmptySeq
  <2> HIDE DEF s, p, F
  <2>9. /\ u \in Seq(S) /\ Len(u) > 0 /\ u[Len(u)] \in separators
        /\ Parts(u, separators) = Append(Parts(s, separators), p)
    <3>1. Len(s) = 0 \/ s[Len(s)] \in separators
      BY <2>2
    <3>2. /\ x \in S /\ x \in separators /\ s \in Seq(S) /\ p \in Seq(S)
          /\ p # <<>> /\ \A i \in 1..Len(p) : p[i] \notin separators
      BY <2>2, <2>7, <2>8
    <3> QED
      BY ONLY <3>1, <3>2, PartAdded, ZenonT(60) DEF u, q
  <2> HIDE DEF u
  <2>10. Parts(F(k + 1), separators) = SubSeq(ps, 1, k + 1)
    BY <2>2, <2>4, <2>6, <2>9 DEF p
  <2> QED
    BY <2>6, <2>9, <2>10
<1> HIDE DEF Good
<1>7. n \in Good
  BY <1>1, <1>5, <1>6, Induction
<1>8. Parts(F(n), separators) = SubSeq(ps, 1, n)
  BY <1>1, <1>7 DEF Good
<1> QED
  BY <1>4, <1>8 DEF f, n

\* The parts of a text are not empty, and are made of what it is made of, without
\* the separators.
LEMMA PartsPure ==
  ASSUME NEW S, NEW s \in Seq(S), NEW separators
  PROVE  LET t == Parts(s, separators) IN
         /\ t \in Seq(Seq(S \ separators)) /\ Len(t) \in Nat
         /\ \A k \in 1..Len(t) : Len(t[k]) > 0
<1> DEFINE b == Starts(s, separators)
           N == Len(s)
           T == S \ separators
           Q == Seq(T)
           f == Parts(s, separators)
<1>1. N \in Nat
  BY LenProperties
<1>2. b \in SUBSET (1..N) /\ \A i \in b : s[i] \notin separators
  BY LenProperties DEF Starts
<1>3. PICK n \in Nat : \E e : Ascending(e, n, b)
  BY <1>1, <1>2, OrderExists
<1>4. PICK e : Ascending(e, n, b)
  BY <1>3
<1>5. f = [k \in 1..n |-> SubSeq(s, e[k], PartEnd(s, separators, e[k]))]
  BY <1>4, PartsAt
<1> HIDE DEF f, b
<1>6. \A k \in 1..n : e[k] \in b
  BY <1>4 DEF Ascending
<1>7. ASSUME NEW k \in 1..n
      PROVE  f[k] \in Q /\ Len(f[k]) > 0
  <2> DEFINE a == e[k]
             z == PartEnd(s, separators, a)
             w == SubSeq(s, a, z)
  <2>1. a \in 1..N /\ s[a] \notin separators
    BY <1>2, <1>6
  <2> HIDE DEF a
  <2>2. z \in a..N /\ \A m \in a..z : s[m] \notin separators
    BY <2>1, PartEndFacts
  <2> HIDE DEF z
  <2>3. a \in Nat /\ z \in Nat /\ a >= 1 /\ z <= N /\ a <= z
    BY <1>1, <2>1, <2>2
  <2>4. w \in Seq(S) /\ Len(w) = z - a + 1 /\ \A i \in 1..(z - a + 1) : w[i] = s[a + i - 1]
    BY <2>3, SubSeqFacts
  <2> HIDE DEF w
  <2>5. \A i \in 1..Len(w) : w[i] \in T
    <3> SUFFICES ASSUME NEW i \in 1..Len(w) PROVE w[i] \in T
      OBVIOUS
    <3>1. w[i] = s[a + i - 1] /\ a + i - 1 \in a..z
      BY <2>3, <2>4
    <3>2. w[i] \notin separators
      BY <2>2, <3>1
    <3>3. w[i] \in S
      BY <2>4, ElementOfSeq
    <3> QED
      BY <3>2, <3>3
  <2>6. w \in Seq(T)
    <3> HIDE DEF T
    <3>1. Len(w) \in Nat /\ w \in [1..Len(w) -> S]
      BY <2>4, LenProperties
    <3>2. w \in [1..Len(w) -> T]
      BY <2>5, <3>1
    <3> QED
      BY <3>1, <3>2, SeqDef
  <2>7. f[k] = w
    BY <1>5 DEF w, z, a
  <2> QED
    BY <2>3, <2>4, <2>6, <2>7
<1>8. f \in Seq(Q) /\ Len(f) = n
  <2>1. f \in [1..n -> Q]
    <3>1. f = [k \in 1..n |-> f[k]]
      BY <1>5
    <3> HIDE DEF Q
    <3> QED
      BY <1>7, <3>1
  <2> HIDE DEF Q
  <2> QED
    BY <2>1
<1> QED
  BY <1>7, <1>8 DEF f

\* What decoding leaves alone.
PlainPiece == {c \in Piece : c # "+" /\ c \notin DOMAIN DecodedOf}
PlainTexts == Seq(PlainPiece)
PlainValues == Seq(PlainPiece \ {"&"})
PlainNames == Seq((PlainPiece \ {"&"}) \ {"="})

\* Pairs that are plain when they are cut, and maps of such pairs.
PlainPairs == {p \in Texts : NameIn(p) \in PlainNames /\ ValueIn(p) \in PlainValues}
PlainMaps == {m \in Maps : \A k \in DOMAIN m : k \in PlainNames /\ m[k] \in PlainValues}

\* One is within the other.
LEMMA PlainWithin ==
  /\ PlainNames \subseteq PlainValues /\ PlainValues \subseteq PlainTexts
  /\ PlainTexts \subseteq Texts
<1>1. ASSUME NEW s \in PlainNames
      PROVE  s \in PlainValues
  BY SeqInto DEF PlainNames, PlainValues
<1>2. ASSUME NEW s \in PlainValues
      PROVE  s \in PlainTexts
  BY SeqInto DEF PlainValues, PlainTexts
<1>3. ASSUME NEW s \in PlainTexts
      PROVE  s \in Texts
  BY SeqInto DEF PlainTexts, Texts, PlainPiece
<1> QED
  BY <1>1, <1>2, <1>3

\* Text that is decoded twice is the same if nothing in it is to be decoded.
LEMMA DecodePlain ==
  ASSUME NEW s \in PlainTexts, NEW isQuery \in BOOLEAN
  PROVE  DecodeUri(s, isQuery) = s
<1>1. DOMAIN s = 1..Len(s) /\ \A k \in 1..Len(s) : s[k] \in PlainPiece
  BY LenProperties, ElementOfSeq DEF PlainTexts
<1>2. \A k \in DOMAIN s : s[k] # "+" /\ s[k] \notin DOMAIN DecodedOf
  BY <1>1 DEF PlainPiece
<1>3. DecodeUri(s, isQuery) = [k \in DOMAIN s |-> s[k]]
  BY <1>2 DEF DecodeUri
<1>4. s = [k \in DOMAIN s |-> s[k]]
  BY LenProperties DEF PlainTexts
<1> QED
  BY <1>3, <1>4

\* What stands before the first of a piece has none of it, and a text without it has
\* none at all.
LEMMA BeforeFree ==
  ASSUME NEW S, NEW x, NEW s \in Seq(S)
  PROVE  /\ Found(<<x>>, s) => /\ Before(<<x>>, s) \in Seq(S \ {x})
                               /\ Behind(<<x>>, s) \in Seq(S)
         /\ ~Found(<<x>>, s) => s \in Seq(S \ {x})
<1> DEFINE p == <<x>>
           W == S \cup {x}
           T == S \ {x}
<1>1. s \in Seq(W) /\ x \in W
  BY Wider
<1>2. \A i : i \in Occurrences(p, s) <=> i \in 1..Len(s) /\ s[i] = x
  BY <1>1, OccursOne
<1>3. p \in Seq({x}) /\ p \in Seq(W) /\ Len(p) = 1
  OBVIOUS
<1>4. Len(s) \in Nat /\ \A i \in 1..Len(s) : s[i] \in S
  BY LenProperties, ElementOfSeq
<1>5. ASSUME NEW w \in Seq(S), \A i \in 1..Len(w) : w[i] # x
      PROVE  w \in Seq(T)
  <2>1. Len(w) \in Nat /\ w \in [1..Len(w) -> S] /\ \A i \in 1..Len(w) : w[i] \in T
    BY <1>5, LenProperties
  <2> HIDE DEF T
  <2>2. w \in [1..Len(w) -> T]
    BY <2>1
  <2> QED
    BY <2>1, <2>2, SeqDef
<1> HIDE DEF p, W, T
<1>6. ASSUME Found(p, s)
      PROVE  Before(p, s) \in Seq(T) /\ Behind(p, s) \in Seq(S)
  <2> DEFINE n == Find(p, s)
             w == Before(p, s)
  <2>1. n \in Nat /\ n >= 1 /\ n + 1 <= Len(s) + 1 /\ \A i \in Occurrences(p, s) : n <= i
    BY <1>1, <1>3, <1>6, FindFacts
  <2>2. w \in Seq(S) /\ From(p, s) \in Seq(S)
    BY <1>3, <1>6, BeforeFrom
  <2>3. w = SubSeq(s, 1, n - 1)
    BY DEF Before
  <2> HIDE DEF n, w
  <2>4. Len(w) = n - 1 /\ \A i \in 1..(n - 1) : w[i] = s[i]
    BY <1>4, <2>1, <2>3, SubSeqFacts
  <2>5. \A i \in 1..Len(w) : w[i] # x
    <3> SUFFICES ASSUME NEW i \in 1..Len(w), w[i] = x PROVE FALSE
      OBVIOUS
    <3>1. i \in 1..Len(s) /\ i < n /\ s[i] = x
      BY <1>4, <2>1, <2>4
    <3>2. n <= i
      BY <1>2, <2>1, <3>1
    <3> QED
      BY <2>1, <3>1, <3>2
  <2>6. Behind(p, s) \in Seq(S)
    <3>1. Behind(p, s) = Drop(1, From(p, s))
      BY <1>3 DEF Behind
    <3> QED
      BY <2>2, <3>1, DropFacts
  <2> QED
    BY <1>5, <2>2, <2>5, <2>6 DEF w
<1>7. ASSUME ~Found(p, s)
      PROVE  s \in Seq(T)
  BY <1>2, <1>5, <1>7 DEF Found
<1> QED
  BY <1>6, <1>7 DEF p, T

\* A plain pair is plain when it is cut.
LEMMA PairCut == PlainValues \subseteq PlainPairs
<1> SUFFICES ASSUME NEW p \in PlainValues PROVE p \in PlainPairs
  OBVIOUS
<1> DEFINE S == PlainPiece \ {"&"}
           x == "="
           e == <<x>>
<1>1. p \in Seq(S)
  BY DEF PlainValues
<1> HIDE DEF S, x
<1>2. /\ Found(e, p) => Before(e, p) \in Seq(S \ {x}) /\ Behind(e, p) \in Seq(S)
      /\ ~Found(e, p) => p \in Seq(S \ {x})
  BY <1>1, BeforeFree
<1>3. <<>> \in Seq(S)
  OBVIOUS
<1>4. NameIn(p) = IF Found(e, p) THEN Before(e, p) ELSE p
  BY DEF NameIn, x
<1>5. ValueIn(p) = IF Found(e, p) THEN Behind(e, p) ELSE <<>>
  BY DEF ValueIn, x
<1>6. NameIn(p) \in Seq(S \ {x}) /\ ValueIn(p) \in Seq(S)
  BY <1>2, <1>3, <1>4, <1>5
<1>7. p \in Texts
  BY PlainWithin
<1> QED
  BY <1>6, <1>7 DEF S, x, PlainPairs, PlainNames, PlainValues

\* A pair put in such a map, and what a script reads of it.
LEMMA PairPut ==
  ASSUME NEW m \in PlainMaps, NEW p \in PlainPairs
  PROVE  /\ PutQuery(m, p) \in PlainMaps
         /\ PairRead(p) = <<NameIn(p), ValueIn(p)>>
         /\ DOMAIN PutQuery(m, p) = DOMAIN m \cup {NameIn(p)}
         /\ PutQuery(m, p)[NameIn(p)] = ValueIn(p)
         /\ \A k \in DOMAIN m : k # NameIn(p) => PutQuery(m, p)[k] = m[k]
<1> DEFINE a == NameIn(p)
           b == ValueIn(p)
           q == Put(m, a, b)
<1>1. a \in PlainNames /\ b \in PlainValues /\ m \in Maps
      /\ \A k \in DOMAIN m : k \in PlainNames /\ m[k] \in PlainValues
  BY DEF PlainPairs, PlainMaps
<1>2. a \in PlainTexts /\ b \in PlainTexts /\ a \in Texts /\ b \in Texts
  BY <1>1, PlainWithin
<1>3. DecodeUri(a, TRUE) = a /\ DecodeUri(b, TRUE) = b
  BY <1>2, DecodePlain
<1>4. PutQuery(m, p) = q /\ PairRead(p) = <<a, b>>
  BY <1>3 DEF PutQuery, PairRead
<1> HIDE DEF a, b
<1>5. /\ q \in Maps /\ DOMAIN q = DOMAIN m \cup {a} /\ q[a] = b
      /\ \A k \in DOMAIN m : k # a => q[k] = m[k]
  <2> DEFINE T == Texts
  <2>1. m \in MapsOf(T) /\ a \in T /\ b \in T
    BY <1>1, <1>2 DEF Maps
  <2> HIDE DEF T
  <2>2. /\ Put(m, a, b) \in MapsOf(T) /\ DOMAIN Put(m, a, b) = DOMAIN m \cup {a}
        /\ Put(m, a, b)[a] = b
        /\ \A k \in DOMAIN m : k # a => Put(m, a, b)[k] = m[k]
    BY <2>1, PutValues
  <2> QED
    BY <2>2 DEF T, q, Maps
<1> HIDE DEF q
<1>6. q \in PlainMaps
  BY <1>1, <1>5 DEF PlainMaps
<1> QED
  BY <1>4, <1>5, <1>6 DEF a, b

\* The names of the first n pairs are those of a map, and each has the value of one of
\* these pairs.
HoldsPairs(m, t, n) ==
  /\ DOMAIN m = {NameIn(t[k]) : k \in 1..n}
  /\ \A k \in DOMAIN m : \E i \in 1..n : NameIn(t[i]) = k /\ ValueIn(t[i]) = m[k]

\* What the code makes of plain pairs is such a map of them all.
LEMMA PairsHeld ==
  ASSUME NEW t \in Seq(PlainPairs)
  PROVE  /\ FoldLeft(PutQuery, <<>>, t) \in PlainMaps
         /\ HoldsPairs(FoldLeft(PutQuery, <<>>, t), t, Len(t))
<1> DEFINE K == PlainMaps
           E == PlainPairs
           e == <<>>
<1>1. Len(t) \in Nat /\ \A i \in 1..Len(t) : t[i] \in E
  BY LenProperties, ElementOfSeq
<1>2. e \in K /\ DOMAIN e = {}
  BY MapFacts DEF PlainMaps, Maps
<1>3. \A k \in K, x \in E : PutQuery(k, x) \in K
  BY PairPut
<1>4. t \in Seq(E)
  OBVIOUS
<1>5. \A k \in K, x \in E :
        /\ DOMAIN PutQuery(k, x) = DOMAIN k \cup {NameIn(x)}
        /\ PutQuery(k, x)[NameIn(x)] = ValueIn(x)
        /\ \A a \in DOMAIN k : a # NameIn(x) => PutQuery(k, x)[a] = k[a]
  BY PairPut
<1> HIDE DEF K, E, e
<1>6. PICK g : QuerySteps(g, e, t)
  BY <1>2, <1>3, <1>4, QueryFolds
<1> DEFINE Good == {i \in Nat : i <= Len(t) => g[i] \in K /\ HoldsPairs(g[i], t, i)}
<1>7. 0 \in Good
  <2>1. g[0] = e /\ 1..0 = {}
    BY <1>6 DEF QuerySteps
  <2>2. HoldsPairs(g[0], t, 0)
    BY <1>2, <2>1 DEF HoldsPairs
  <2> QED
    BY <1>2, <2>1, <2>2
<1>8. ASSUME NEW i \in Nat, i \in Good
      PROVE  i + 1 \in Good
  <2> SUFFICES ASSUME i + 1 <= Len(t) PROVE g[i + 1] \in K /\ HoldsPairs(g[i + 1], t, i + 1)
    OBVIOUS
  <2>1. i <= Len(t) /\ i + 1 \in 1..Len(t) /\ (i + 1) - 1 = i /\ 1..(i + 1) = (1..i) \cup {i + 1}
    BY <1>1
  <2> DEFINE m == g[i]
             w == g[i + 1]
             x == t[i + 1]
             j == i + 1
             I == 1..i
             J == 1..(i + 1)
  <2>2. m \in K /\ HoldsPairs(m, t, i) /\ x \in E
    BY <1>1, <1>8, <2>1
  <2>3. w = PutQuery(m, x)
    BY <1>6, <2>1 DEF QuerySteps
  <2>4. /\ DOMAIN w = DOMAIN m \cup {NameIn(x)} /\ w[NameIn(x)] = ValueIn(x) /\ w \in K
        /\ \A a \in DOMAIN m : a # NameIn(x) => w[a] = m[a]
    <3> HIDE DEF m, w, x
    <3>1. m \in K /\ x \in E /\ w = PutQuery(m, x)
      BY <2>2, <2>3
    <3> DEFINE a == NameIn(x)
               b == ValueIn(x)
               q == PutQuery(m, x)
    <3>2. q \in K /\ DOMAIN q = DOMAIN m \cup {a} /\ q[a] = b /\ \A c \in DOMAIN m : c # a => q[c] = m[c]
      BY <1>3, <1>5, <3>1
    <3> HIDE DEF a, b, q
    <3> QED
      BY <3>1, <3>2 DEF q, a, b
  <2>5. /\ DOMAIN m = {NameIn(t[k]) : k \in I}
        /\ \A a \in DOMAIN m : \E k \in I : NameIn(t[k]) = a /\ ValueIn(t[k]) = m[a]
    BY <2>2 DEF HoldsPairs
  <2>6. J = I \cup {j} /\ x = t[j]
    BY <2>1
  <2> HIDE DEF m, w, x, j, I, J
  <2>7. DOMAIN w = {NameIn(t[k]) : k \in J}
    BY <2>4, <2>5, <2>6
  <2>8. ASSUME NEW a \in DOMAIN w
        PROVE  \E k \in J : NameIn(t[k]) = a /\ ValueIn(t[k]) = w[a]
    <3>1. CASE a = NameIn(x)
      BY <2>4, <2>6, <3>1
    <3>2. CASE a # NameIn(x)
      BY <2>4, <2>5, <2>6, <3>2
    <3> QED
      BY <3>1, <3>2
  <2> QED
    BY <2>4, <2>7, <2>8 DEF HoldsPairs, w, J
<1> HIDE DEF Good
<1>9. Len(t) \in Good
  BY <1>1, <1>7, <1>8, Induction
<1>10. g[Len(t)] \in K /\ HoldsPairs(g[Len(t)], t, Len(t))
  BY <1>1, <1>9 DEF Good
<1>11. FoldLeft(PutQuery, e, t) = g[Len(t)]
  BY <1>6 DEF QuerySteps
<1> QED
  BY <1>10, <1>11 DEF K, e

\* A map as the set of its names with their values.
PairsOf(m) == {<<k, m[k]>> : k \in DOMAIN m}

\* Maps that tell the same of the same are one.
LEMMA MapsEqual ==
  ASSUME NEW T, NEW m \in MapsOf(T), NEW w \in MapsOf(T), DOMAIN m = DOMAIN w,
         \A k \in DOMAIN m : m[k] = w[k]
  PROVE  m = w
<1> DEFINE Finite == {X \in SUBSET T : IsFiniteSet(X)}
<1>1. \A v : v \in MapsOf(T) => \E D \in Finite : v \in [D -> T]
  BY DEF MapsOf
<1>2. m = [k \in DOMAIN m |-> m[k]]
  BY <1>1
<1>3. w = [k \in DOMAIN w |-> w[k]]
  BY <1>1
<1> QED
  BY <1>2, <1>3

\* A name, "=", a value: a pair that is cut into these, without "&".
LEMMA PairMade ==
  ASSUME NEW a \in PlainNames, NEW b \in PlainValues
  PROVE  LET p == (a \o <<"=">>) \o b IN
         /\ p \in PlainPairs /\ NameIn(p) = a /\ ValueIn(p) = b
         /\ Len(p) > 0 /\ \A i \in 1..Len(p) : p[i] # "&"
<1> DEFINE n == "&"
           x == "="
           S == Piece \ {n}
           e == <<x>>
           p == (a \o e) \o b
<1>1. x \in S /\ x \in Piece
  BY PieceFacts
<1>2. a \in Seq(S) /\ b \in Seq(S) /\ \A i \in 1..Len(a) : a[i] # x
  <2>1. a \in Seq((PlainPiece \ {n}) \ {x}) /\ b \in Seq(PlainPiece \ {n})
    BY DEF PlainNames, PlainValues
  <2>2. PlainPiece \ {n} \subseteq S /\ (PlainPiece \ {n}) \ {x} \subseteq S
    BY DEF PlainPiece
  <2> DEFINE A == (PlainPiece \ {n}) \ {x}
             B == PlainPiece \ {n}
  <2>3. a \in Seq(A) /\ b \in Seq(B) /\ A \subseteq S /\ B \subseteq S /\ x \notin A
    BY <2>1, <2>2
  <2> HIDE DEF A, B, S, x
  <2>4. a \in Seq(S) /\ b \in Seq(S)
    BY <2>3, SeqInto
  <2>5. \A i \in 1..Len(a) : a[i] \in A
    BY <2>3, ElementOfSeq
  <2> QED
    BY <2>3, <2>4, <2>5
<1>3. \A c \in S : c # n /\ c \in Piece
  OBVIOUS
<1>4. NameIn(p) = IF Found(e, p) THEN Before(e, p) ELSE p
  BY DEF NameIn
<1>5. ValueIn(p) = IF Found(e, p) THEN Behind(e, p) ELSE <<>>
  BY DEF ValueIn
<1> HIDE DEF S, x
<1>6. Found(<<x>>, (a \o <<x>>) \o b) /\ Before(<<x>>, (a \o <<x>>) \o b) = a
      /\ Behind(<<x>>, (a \o <<x>>) \o b) = b
  BY <1>1, <1>2, CutAt
<1>7. NameIn(p) = a /\ ValueIn(p) = b
  BY <1>4, <1>5, <1>6
<1>8. e \in Seq(S) /\ Len(e) = 1
  BY <1>1
<1>9. p \in Seq(S) /\ Len(p) \in Nat /\ Len(p) > 0
  <2> HIDE DEF e
  <2> DEFINE u == a \o e
  <2>1. u \in Seq(S) /\ Len(u) = Len(a) + Len(e)
    BY <1>2, <1>8, ConcatProperties
  <2> HIDE DEF u
  <2>2. u \o b \in Seq(S) /\ Len(u \o b) = Len(u) + Len(b)
    BY <1>2, <2>1, ConcatProperties
  <2>3. Len(a) \in Nat /\ Len(b) \in Nat
    BY <1>2, LenProperties
  <2>4. Len(u \o b) \in Nat /\ Len(u \o b) > 0
    BY <1>8, <2>1, <2>2, <2>3
  <2> QED
    BY <2>2, <2>4 DEF u
<1> HIDE DEF p
<1>10. p \in Texts
  BY <1>3, <1>9, SeqInto DEF Texts
<1>11. \A i \in 1..Len(p) : p[i] # n
  BY <1>3, <1>9, ElementOfSeq
<1> QED
  BY <1>7, <1>9, <1>10, <1>11 DEF PlainPairs, p, e, x

\* The query that is built of a plain map is read as that map.
LEMMA QueryBack ==
  ASSUME NEW r \in RequestType, r.queries \in PlainMaps
  PROVE  ScriptReads(QueryString(r)) = PairsOf(r.queries)
<1> DEFINE m == r.queries
           D == DOMAIN m
           names == SetToSeq(D)
           n == Len(names)
           Pair(k) == (names[k] \o <<"=">>) \o m[names[k]]
           ps == [k \in 1..n |-> Pair(k)]
           amp == "&"
           E == PlainPairs
           M == PlainMaps
           e == <<>>
<1>1. /\ m \in M /\ m \in MapsOf(Texts) /\ IsFiniteSet(D)
      /\ \A k \in D : k \in PlainNames /\ m[k] \in PlainValues
  <2>1. m \in M /\ m \in Maps /\ \A k \in D : k \in PlainNames /\ m[k] \in PlainValues
    BY DEF PlainMaps
  <2>2. m \in MapsOf(Texts)
    BY <2>1 DEF Maps
  <2> HIDE DEF m
  <2>3. IsFiniteSet(D)
    BY <2>2, MapFacts
  <2> QED
    BY <2>1, <2>2, <2>3
<1>2. QueryString(r) = FlattenSeq([k \in DOMAIN names |-> ((names[k] \o <<"=">>) \o m[names[k]]) \o <<"&">>])
  BY DEF QueryString
<1> HIDE DEF m, D
<1>3. /\ names \in Seq(D) /\ n \in Nat
      /\ \A i, j \in 1..n : names[i] = names[j] => i = j
      /\ \A x \in D : \E i \in 1..n : names[i] = x
  BY <1>1, EachOnce
<1> HIDE DEF names
<1>4. DOMAIN names = 1..n /\ \A k \in 1..n : names[k] \in D
  BY <1>3, LenProperties, ElementOfSeq
<1> HIDE DEF n
<1>5. ASSUME NEW k \in 1..n
      PROVE  /\ Pair(k) \in E /\ NameIn(Pair(k)) = names[k] /\ ValueIn(Pair(k)) = m[names[k]]
             /\ Len(Pair(k)) > 0 /\ \A i \in 1..Len(Pair(k)) : Pair(k)[i] # "&"
  <2> DEFINE a == names[k]
             b == m[names[k]]
  <2>1. a \in PlainNames /\ b \in PlainValues
    BY <1>1, <1>4
  <2> HIDE DEF a, b
  <2> DEFINE p == (a \o <<"=">>) \o b
  <2>2. /\ p \in PlainPairs /\ NameIn(p) = a /\ ValueIn(p) = b
        /\ Len(p) > 0 /\ \A i \in 1..Len(p) : p[i] # "&"
    BY <2>1, PairMade
  <2>3. p = Pair(k)
    BY DEF a, b
  <2> HIDE DEF p, Pair
  <2> QED
    BY <2>2, <2>3 DEF a, b
<1> HIDE DEF Pair, E, M
<1>6. \A k \in 1..n : ps[k] = Pair(k)
  OBVIOUS
<1>7. ps \in [1..n -> E]
  BY <1>5
<1> HIDE DEF ps
<1>8. ps \in Seq(E) /\ Len(ps) = n
  BY <1>3, <1>7
<1>9. QueryString(r) = FlattenSeq([k \in 1..Len(ps) |-> ps[k] \o <<amp>>])
  <2>1. \A k \in 1..n : ((names[k] \o <<"=">>) \o m[names[k]]) \o <<"&">> = ps[k] \o <<amp>>
    BY <1>6 DEF Pair
  <2>2. [k \in DOMAIN names |-> ((names[k] \o <<"=">>) \o m[names[k]]) \o <<"&">>]
        = [k \in 1..n |-> ps[k] \o <<amp>>]
    BY <1>4, <2>1
  <2> QED
    BY <1>2, <1>8, <2>2
<1>10. Parts(QueryString(r), {amp}) = ps
  <2>1. amp \in Piece /\ amp \in {amp}
    BY PieceFacts
  <2>2. ps \in Seq(Seq(Piece))
    <3>1. E \subseteq Seq(Piece)
      BY DEF E, PlainPairs, Texts
    <3> DEFINE Q == Seq(Piece)
    <3>2. E \subseteq Q
      BY <3>1
    <3> HIDE DEF Q
    <3>3. ps \in Seq(Q)
      BY <1>8, <3>2, SeqInto
    <3> QED
      BY <3>3 DEF Q
  <2>3. \A k \in 1..Len(ps) : Len(ps[k]) > 0 /\ \A i \in 1..Len(ps[k]) : ps[k][i] # amp
    BY <1>5, <1>6, <1>8
  <2> HIDE DEF amp
  <2> DEFINE seps == {amp}
  <2>4. amp \in seps /\ \A k \in 1..Len(ps) : Len(ps[k]) > 0 /\ \A i \in 1..Len(ps[k]) : ps[k][i] \notin seps
    BY <2>3
  <2> HIDE DEF seps
  <2>5. Parts(FlattenSeq([k \in 1..Len(ps) |-> ps[k] \o <<amp>>]), seps) = ps
    BY <2>1, <2>2, <2>4, PartsJoined
  <2> QED
    BY <1>9, <2>5 DEF seps
<1>11. ScriptReads(QueryString(r)) = {PairRead(ps[k]) : k \in 1..n}
  <2>1. DOMAIN ps = 1..n
    BY <1>8, LenProperties
  <2> QED
    BY <1>10, <2>1 DEF ScriptReads, amp
<1>12. ASSUME NEW k \in 1..n
       PROVE  PairRead(ps[k]) = <<names[k], m[names[k]]>>
  <2>1. ps[k] \in PlainPairs /\ NameIn(ps[k]) = names[k] /\ ValueIn(ps[k]) = m[names[k]]
    BY <1>5, <1>6 DEF E
  <2>2. m \in PlainMaps
    BY <1>1 DEF M
  <2> QED
    BY <2>1, <2>2, PairPut
<1>13. {PairRead(ps[k]) : k \in 1..n} = {<<a, m[a]>> : a \in D}
  BY <1>3, <1>4, <1>12
<1> QED
  BY <1>11, <1>13 DEF PairsOf, m, D

\* Of a plain query the code makes a plain map that tells every name once.
LEMMA QueryRead ==
  ASSUME NEW q \in PlainTexts
  PROVE  ParseQuery(q) \in PlainMaps /\ ToldOnce(PairsOf(ParseQuery(q)), ScriptReads(q))
<1> DEFINE amp == "&"
           seps == {amp}
           t == Parts(q, seps)
           m == ParseQuery(q)
           n == Len(t)
           sent == ScriptReads(q)
<1>1. q \in Seq(PlainPiece)
  BY DEF PlainTexts
<1>2. m = FoldLeft(PutQuery, <<>>, t) /\ sent = {PairRead(t[k]) : k \in DOMAIN t}
  BY DEF ParseQuery, ScriptReads
<1>3. t \in Seq(Seq(PlainPiece \ seps)) /\ Len(t) \in Nat
  <2> HIDE DEF seps
  <2> QED
    BY <1>1, PartsPure
<1>4. t \in Seq(PlainPairs)
  <2> DEFINE V == PlainValues
             E == PlainPairs
  <2>1. t \in Seq(V) /\ V \subseteq E
    BY <1>3, PairCut DEF PlainValues
  <2> HIDE DEF V, E, t
  <2>2. t \in Seq(E)
    BY <2>1, SeqInto
  <2> QED
    BY <2>2 DEF E
<1> HIDE DEF t, m, sent
<1>5. m \in PlainMaps /\ HoldsPairs(m, t, n)
  BY <1>2, <1>4, PairsHeld
<1>6. DOMAIN t = 1..n /\ \A k \in 1..n : t[k] \in PlainPairs
  BY <1>4, LenProperties, ElementOfSeq
<1>7. \A k \in 1..n : PairRead(t[k]) = <<NameIn(t[k]), ValueIn(t[k])>>
  BY <1>5, <1>6, PairPut
<1> HIDE DEF n
<1>8. sent = {<<NameIn(t[k]), ValueIn(t[k])>> : k \in 1..n}
  BY <1>2, <1>6, <1>7
<1>9. /\ DOMAIN m = {NameIn(t[k]) : k \in 1..n}
      /\ \A a \in DOMAIN m : \E i \in 1..n : NameIn(t[i]) = a /\ ValueIn(t[i]) = m[a]
  BY <1>5 DEF HoldsPairs
<1>10. PairsOf(m) \subseteq sent
  <2> SUFFICES ASSUME NEW a \in DOMAIN m PROVE <<a, m[a]>> \in sent
    BY DEF PairsOf
  <2>1. PICK i \in 1..n : NameIn(t[i]) = a /\ ValueIn(t[i]) = m[a]
    BY <1>9
  <2> QED
    BY <1>8, <2>1
<1>11. ASSUME NEW pair \in sent
       PROVE  \E one \in PairsOf(m) : \A other \in PairsOf(m) : other[1] = pair[1] <=> other = one
  <2> DEFINE a == pair[1]
             one == <<a, m[a]>>
  <2>1. a \in DOMAIN m
    BY <1>8, <1>9
  <2> HIDE DEF a
  <2>2. one \in PairsOf(m)
    BY <2>1 DEF PairsOf
  <2>3. ASSUME NEW b \in DOMAIN m
        PROVE  <<b, m[b]>>[1] = a <=> <<b, m[b]>> = one
    <3>1. CASE b = a
      BY <3>1
    <3>2. CASE b # a
      BY <3>2
    <3> QED
      BY <3>1, <3>2
  <2>4. \A other \in PairsOf(m) : other[1] = a <=> other = one
    BY <2>3 DEF PairsOf
  <2> QED
    BY <2>2, <2>4 DEF a
<1> QED
  BY <1>5, <1>10, <1>11 DEF ToldOnce, m, sent

\* What a client says behind the first '?' and before the first '#'.
Whole(uri) == IF Found(<<"#">>, uri) THEN Before(<<"#">>, uri) ELSE uri
QueryIn(uri) == IF Found(<<"?">>, Whole(uri)) THEN Behind(<<"?">>, Whole(uri)) ELSE <<>>

\* Nothing is read of no query.
LEMMA NoQuery == ParseQuery(<<>>) = <<>> /\ ScriptReads(<<>>) = {}
<1> DEFINE e == <<>>
           T == Texts
           m == FoldLeft(PutQuery, e, e)
<1>1. Parts(<<>>, {"&"}) = e
  BY NoParts
<1>2. e \in Seq(PlainPairs) /\ Len(e) = 0 /\ DOMAIN e = {} /\ 1..0 = {}
  OBVIOUS
<1>3. m \in PlainMaps /\ HoldsPairs(m, e, 0)
  BY <1>2, PairsHeld
<1> HIDE DEF m
<1>4. DOMAIN m = {} /\ m \in MapsOf(T) /\ e \in MapsOf(T)
  <2>1. DOMAIN m = {}
    BY <1>2, <1>3 DEF HoldsPairs
  <2>2. m \in MapsOf(T)
    BY <1>3 DEF PlainMaps, Maps
  <2>3. e \in MapsOf(T)
    BY MapFacts
  <2> QED
    BY <2>1, <2>2, <2>3
<1> HIDE DEF T
<1>5. m = e
  <2> HIDE DEF e
  <2>1. DOMAIN m = DOMAIN e /\ \A k \in DOMAIN m : m[k] = e[k]
    BY <1>2, <1>4
  <2> QED
    BY <1>4, <2>1, MapsEqual
<1>6. ParseQuery(<<>>) = m
  BY <1>1 DEF ParseQuery, m
<1>7. ScriptReads(<<>>) = {}
  BY <1>1, <1>2 DEF ScriptReads
<1> QED
  BY <1>5, <1>6, <1>7

\* Of a plain target that is accepted the query is what the client said, and its
\* path has no '?'.
LEMMA UriPlain ==
  ASSUME NEW r \in RequestType, NEW uri \in PlainTexts, UriGood(uri)
  PROVE  /\ QueryIn(uri) \in PlainTexts
         /\ ParseUri(r, uri).queries = ParseQuery(QueryIn(uri))
         /\ FromPath(ParseUri(r, uri)) = <<>>
<1> DEFINE str == Whole(uri)
           ask == <<"?">>
           split == Found(ask, str)
           path == DecodeUri(IF split THEN Before(ask, str) ELSE str, FALSE)
           queries == IF split THEN ParseQuery(DecodeUri(Behind(ask, str), TRUE)) ELSE <<>>
           p == ParseUri(r, uri)
           P == PlainPiece
           a == IF split THEN Before(ask, str) ELSE str
<1>1. p = [r EXCEPT !.path = path, !.queries = queries]
  <2>1. ~(uri = <<>> \/ Head(uri) # "/") /\ Len(uri) <= MaxUrlLength
    BY DEF UriGood
  <2>2. Len(uri) \in Nat
    BY LenProperties DEF PlainTexts
  <2>3. ~(Len(uri) > MaxUrlLength)
    BY <2>1, <2>2, UrlAssumption
  <2>4. p = IF uri = <<>> \/ Head(uri) # "/" THEN Throw(r)
            ELSE IF Len(uri) > MaxUrlLength THEN Throw([r EXCEPT !.statusCode = 414])
            ELSE [r EXCEPT !.path = path, !.queries = queries]
    BY DEF ParseUri, Whole
  <2> HIDE DEF p, path, queries
  <2> QED
    BY <2>1, <2>3, <2>4
<1>2. uri \in Seq(P)
  BY DEF PlainTexts
<1> HIDE DEF P
<1>3. str \in Seq(P)
  <2> DEFINE h == "#"
             x == <<h>>
  <2> HIDE DEF h
  <2>1. Found(x, uri) => Before(x, uri) \in Seq(P \ {h})
    BY <1>2, BeforeFree
  <2>2. Found(x, uri) => Before(x, uri) \in Seq(P)
    <3> DEFINE w == Before(x, uri)
               Q == P \ {h}
    <3>1. Q \subseteq P /\ (Found(x, uri) => w \in Seq(Q))
      BY <2>1
    <3> HIDE DEF w, Q
    <3>2. Found(x, uri) => w \in Seq(P)
      BY <3>1, SeqInto
    <3> QED
      BY <3>2 DEF w
  <2>3. str = IF Found(x, uri) THEN Before(x, uri) ELSE uri
    BY DEF Whole, h
  <2> QED
    BY <1>2, <2>2, <2>3
<1> DEFINE y == "?"
<1>4. QueryIn(uri) = IF split THEN Behind(ask, str) ELSE <<>>
  BY DEF QueryIn
<1> HIDE DEF str
<1>5. a \in Seq(P \ {y}) /\ (split => Behind(ask, str) \in Seq(P))
  <2> HIDE DEF y
  <2>1. /\ Found(<<y>>, str) => Before(<<y>>, str) \in Seq(P \ {y}) /\ Behind(<<y>>, str) \in Seq(P)
        /\ ~Found(<<y>>, str) => str \in Seq(P \ {y})
    BY <1>3, BeforeFree
  <2>2. ask = <<y>>
    BY DEF y
  <2> HIDE DEF ask
  <2> QED
    BY <2>1, <2>2
<1>6. QueryIn(uri) \in PlainTexts
  <2>1. <<>> \in Seq(P)
    OBVIOUS
  <2> QED
    BY <1>4, <1>5, <2>1 DEF PlainTexts, P
<1>7. queries = ParseQuery(QueryIn(uri))
  <2>1. CASE split
    <3>1. DecodeUri(QueryIn(uri), TRUE) = QueryIn(uri)
      BY <1>6, DecodePlain
    <3> QED
      BY <1>4, <2>1, <3>1
  <2>2. CASE ~split
    BY <1>4, <2>2, NoQuery
  <2> QED
    BY <2>1, <2>2
<1>8. a \in Seq(P)
  <2> DEFINE Q == P \ {y}
  <2>1. Q \subseteq P /\ a \in Seq(Q)
    BY <1>5
  <2> HIDE DEF a, Q
  <2> QED
    BY <2>1, SeqInto
<1>9. path = a
  <2>1. a \in PlainTexts
    BY <1>8 DEF PlainTexts, P
  <2>2. path = DecodeUri(a, FALSE)
    OBVIOUS
  <2> HIDE DEF path, a
  <2> QED
    BY <2>1, <2>2, DecodePlain
<1> HIDE DEF path, queries, a, p
<1>10. p.path = path /\ p.queries = queries
  BY <1>1 DEF RequestType
<1>11. ~Found(ask, a)
  <2> DEFINE W == P \cup {y}
             Q == P \ {y}
  <2>1. W \ {y} = Q /\ y \in W
    OBVIOUS
  <2>2. a \in Seq(W \ {y})
    BY <1>5, <2>1
  <2> HIDE DEF W, y
  <2>3. ~Found(<<y>>, a)
    BY <2>1, <2>2, NotThere
  <2> QED
    BY <2>3 DEF y
<1>12. FromPath(p) = <<>>
  BY <1>9, <1>10, <1>11 DEF FromPath
<1> QED
  BY <1>6, <1>7, <1>10, <1>12 DEF p

\* A line without an error is one whose target parseUri has taken.
LEMMA LineTarget ==
  ASSUME NEW it \in Intent, Sendable(it), ~ParseLine(HeadOf(it)).error
  PROVE  /\ UriGood(it.target)
         /\ \E read \in RequestType : ParseLine(HeadOf(it)) = ParseUri(read, it.target)
<1> DEFINE h == HeadOf(it)
           m == it.method
           t == it.target
           p == it.protocol
           l == LineAt(m, t, p)
           w == Words(h)
           read == [NewRequest EXCEPT !.method = WordOf(w, 1), !.protocol = WordOf(w, 3)]
           parsed == ParseUri(read, WordOf(w, 2))
           line == ParseLine(h)
<1>1. Found(CRLF, h) /\ Before(CRLF, h) = LineOf(it) /\ h \in Texts
  BY SendableUnbroken, LinesFound
<1>2. line = IF WordOf(w, 1) \notin Methods THEN Throw(read)
             ELSE IF parsed.error THEN parsed
             ELSE IF WordOf(w, 3) = <<>> THEN Throw(parsed)
             ELSE parsed
  BY DEF ParseLine, Words, WordOf
<1>3. m \in Methods /\ UriGood(t) /\ p # <<>>
  BY LineAccepted
<1>4. m # <<>> /\ t # <<>>
  <2>1. <<>> \notin Methods
    <3>1. Len(<<>>) = 0 /\ Len(<<"GET">>) = 1 /\ Len(<<"POST">>) = 1 /\ Len(<<"DELETE">>) = 1
      OBVIOUS
    <3>2. \A x \in Methods : x = <<"GET">> \/ x = <<"POST">> \/ x = <<"DELETE">>
      BY DEF Methods
    <3> QED
      BY <3>1, <3>2
  <2> QED
    BY <1>3, <2>1 DEF UriGood
<1>5. m \in Seq(Wordly) /\ t \in Seq(Wordly) /\ p \in Seq(Wordly)
  BY DEF Sendable
<1>6. w = Parts(l, Blanks)
  BY <1>1 DEF Words, Blanks, LineOf, LineAt
<1>7. Placed(l, m, t, p)
  <2> HIDE DEF m, t, p
  <2> QED
    BY <1>5, LinePlaces
<1>8. m \in Texts /\ p \in Texts
  BY DEF Intent
<1> HIDE DEF l, w, m, t, p, h
<1>9. WordOf(w, 1) = m /\ WordOf(w, 2) = t /\ WordOf(w, 3) = p
  BY <1>3, <1>4, <1>5, <1>6, <1>7, ThreeWords
<1>10. read \in RequestType /\ read.error = FALSE
  <2>1. NewRequest \in RequestType /\ NewRequest.error = FALSE
    BY NewTyped
  <2> HIDE DEF Maps
  <2> QED
    BY <1>8, <1>9, <2>1, ZenonT(60) DEF RequestType
<1> HIDE DEF read
<1>11. line = parsed
  <2>1. WordOf(w, 1) \in Methods /\ WordOf(w, 3) # <<>>
    BY <1>3, <1>9
  <2>2. line = IF parsed.error THEN parsed ELSE parsed
    BY <1>2, <2>1
  <2> QED
    BY <2>2
<1>12. line = ParseUri(read, t)
  BY <1>9, <1>11
<1> QED
  BY <1>3, <1>10, <1>12 DEF h, t

\* A header leaves path and queries alone.
LEMMA HeaderLeaves ==
  ASSUME NEW r \in RequestType, NEW line \in Texts
  PROVE  ParseHeader(r, line).path = r.path /\ ParseHeader(r, line).queries = r.queries
<1> DEFINE h == Put(r.headers, Key(line), Value(line))
<1>1. ParseHeader(r, line) = r \/ ParseHeader(r, line) = [r EXCEPT !.error = TRUE]
      \/ ParseHeader(r, line) = [r EXCEPT !.headers = h]
  BY DEF ParseHeader, Throw
<1> HIDE DEF h
<1>2. [r EXCEPT !.error = TRUE].path = r.path /\ [r EXCEPT !.error = TRUE].queries = r.queries
  BY DEF RequestType
<1>3. [r EXCEPT !.headers = h].path = r.path /\ [r EXCEPT !.headers = h].queries = r.queries
  BY DEF RequestType
<1> QED
  BY <1>1, <1>2, <1>3

\* What the target says is what the request holds, in the end.
LEMMA RequestKeeps ==
  ASSUME NEW it \in Intent, Sendable(it), ~ParseRequest(HeadOf(it)).error
  PROVE  /\ ~ParseLine(HeadOf(it)).error
         /\ ParseRequest(HeadOf(it)).path = ParseLine(HeadOf(it)).path
         /\ ParseRequest(HeadOf(it)).queries = ParseLine(HeadOf(it)).queries
<1> DEFINE h == HeadOf(it)
           line == ParseLine(h)
           t == HeaderLines(h)
           r == ParseRequest(h)
           K == {q \in RequestType : q.path = line.path /\ q.queries = line.queries}
<1>1. h \in Texts /\ Found(CRLF, h)
  BY SendableUnbroken, LinesFound
<1>2. line \in RequestType /\ t \in Seq(Texts)
  BY <1>1, LineTyped, HeaderLinesTyped
<1>3. r = IF line.error THEN line ELSE FoldLeft(ParseHeader, line, t)
  BY DEF ParseRequest
<1>4. ~line.error /\ r = FoldLeft(ParseHeader, line, t)
  BY <1>3
<1> HIDE DEF line, t, r
<1>5. Len(t) \in Nat /\ \A i \in 1..Len(t) : t[i] \in Texts
  BY <1>2, LenProperties, ElementOfSeq
<1>6. line \in K
  BY <1>2
<1>7. \A k \in K, x \in Texts : ParseHeader(k, x) \in K
  BY HeaderTyped, HeaderLeaves
<1> HIDE DEF K
<1>8. PICK g : HeaderSteps(g, line, t)
  <2> DEFINE T == Texts
  <2>1. line \in K /\ t \in Seq(T) /\ \A k \in K, x \in T : ParseHeader(k, x) \in K
    BY <1>2, <1>6, <1>7
  <2> HIDE DEF T
  <2> QED
    BY <2>1, HeaderFolds
<1>9. \A i \in 0..Len(t) : g[i] \in K
  <2>1. g[0] \in K
    BY <1>6, <1>8 DEF HeaderSteps
  <2>2. \A i \in 1..Len(t) : g[i - 1] \in K => g[i] \in K
    BY <1>5, <1>7, <1>8 DEF HeaderSteps
  <2> QED
    BY <1>5, <2>1, <2>2, StepsStay
<1>10. r \in K
  BY <1>4, <1>5, <1>8, <1>9 DEF HeaderSteps
<1> QED
  BY <1>4, <1>10 DEF K, r, line, h

\* A sequence whose members are in a set is one over that set.
LEMMA SeqOver ==
  ASSUME NEW S, NEW T, NEW s \in Seq(S), \A i \in 1..Len(s) : s[i] \in T
  PROVE  s \in Seq(T)
<1>1. Len(s) \in Nat /\ s \in [1..Len(s) -> S]
  BY LenProperties
<1>2. s \in [1..Len(s) -> T]
  BY <1>1
<1> QED
  BY <1>1, <1>2, SeqDef

\* A script is told every name of the query the client sent.
LEMMA QueryTruth ==
  ASSUME NEW it \in Intent, Sendable(it), ~ParseRequest(HeadOf(it)).error, Plain(it.target)
  PROVE  ToldOnce(ScriptReads(QueryOf(ParseRequest(HeadOf(it)))), ScriptReads(QueryIn(it.target)))
<1> DEFINE r == ParseRequest(HeadOf(it))
           line == ParseLine(HeadOf(it))
           q == QueryIn(it.target)
           m == ParseQuery(q)
<1>1. r \in RequestType
  BY ParsedAs
<1>2. ~line.error /\ r.path = line.path /\ r.queries = line.queries
  BY RequestKeeps
<1>3. UriGood(it.target) /\ \E read \in RequestType : line = ParseUri(read, it.target)
  BY <1>2, LineTarget
<1>4. it.target \in PlainTexts
  <2> DEFINE t == it.target
  <2>1. t \in Seq(Piece) /\ Plain(t)
    BY DEF Intent, Texts
  <2> HIDE DEF t
  <2>2. Len(t) \in Nat /\ DOMAIN t = 1..Len(t) /\ \A i \in 1..Len(t) : t[i] \in Piece
    BY <2>1, LenProperties, ElementOfSeq
  <2>3. \A i \in 1..Len(t) : t[i] \in PlainPiece
    BY <2>1, <2>2 DEF Plain, PlainPiece
  <2> QED
    BY <2>1, <2>3, SeqOver DEF t, PlainTexts
<1>5. PICK read \in RequestType : line = ParseUri(read, it.target)
  BY <1>3
<1>6. q \in PlainTexts /\ line.queries = m /\ FromPath(line) = <<>>
  BY <1>3, <1>4, <1>5, UriPlain
<1>7. m \in PlainMaps /\ ToldOnce(PairsOf(m), ScriptReads(q))
  BY <1>6, QueryRead
<1>8. FromPath(r) = <<>>
  BY <1>2, <1>6 DEF FromPath
<1>9. r.queries = m
  BY <1>2, <1>6
<1> HIDE DEF r, line, q, m
<1>10. CASE DOMAIN r.queries = {}
  <2>4. QueryOf(r) = <<>>
    BY <1>8, <1>10 DEF QueryOf
  <2>5. PairsOf(m) = {}
    BY <1>9, <1>10 DEF PairsOf
  <2>6. ScriptReads(QueryOf(r)) = {}
    BY <2>4, NoQuery
  <2> QED
    BY <1>7, <2>5, <2>6 DEF r, q
<1>11. CASE DOMAIN r.queries # {}
  <2>1. ScriptReads(QueryString(r)) = PairsOf(r.queries)
    BY <1>1, <1>7, <1>9, QueryBack
  <2>2. QueryOf(r) = QueryString(r)
    BY <1>11 DEF QueryOf
  <2> QED
    BY <1>7, <1>9, <2>1, <2>2 DEF r, q
<1> QED
  BY <1>10, <1>11

\* A text is what stands before a piece that is found in it, the piece, and what
\* stands behind.
LEMMA CutTogether ==
  ASSUME NEW S, NEW x \in S, NEW s \in Seq(S), Found(<<x>>, s)
  PROVE  s = Before(<<x>>, s) \o (<<x>> \o Behind(<<x>>, s))
<1> DEFINE p == <<x>>
           f == From(p, s)
           n == Find(p, s)
<1>1. p \in Seq(S) /\ Len(p) = 1 /\ p[1] = x
  OBVIOUS
<1>2. Found(p, s)
  OBVIOUS
<1>3. \A i : i \in Occurrences(p, s) <=> i \in 1..Len(s) /\ s[i] = x
  BY OccursOne
<1> HIDE DEF p
<1>4. n \in Occurrences(p, s) /\ n \in Nat /\ n >= 1 /\ n + 1 <= Len(s) + 1
  BY <1>1, <1>2, FindFacts
<1>5. f \in Seq(S) /\ f = Drop(n - 1, s) /\ Before(p, s) \o f = s
  BY <1>1, <1>2, BeforeFrom
<1>6. Len(s) \in Nat /\ s[n] = x
  BY <1>3, <1>4, LenProperties
<1>7. Behind(p, s) = Drop(1, f)
  BY <1>1 DEF Behind
<1> HIDE DEF n, f
<1>8. f[1] = x /\ Len(f) \in Nat /\ Len(f) >= 1
  <2>1. n - 1 \in Nat /\ n - 1 <= Len(s) /\ 1 \in 1..(Len(s) - (n - 1)) /\ (n - 1) + 1 = n
    BY <1>4, <1>6
  <2>2. /\ Len(Drop(n - 1, s)) = Len(s) - (n - 1)
        /\ Drop(n - 1, s)[1] = s[(n - 1) + 1]
    BY <2>1, DropFacts
  <2> QED
    BY <1>4, <1>5, <1>6, <2>1, <2>2
<1>9. SubSeq(f, 1, 1) = p
  <2> DEFINE w == SubSeq(f, 1, 1)
  <2>1. w \in Seq(S) /\ Len(w) = 1 /\ w[1] = f[1]
    BY <1>5, <1>8, SubSeqFacts
  <2> HIDE DEF w
  <2>2. \A i \in 1..1 : w[i] = p[i]
    BY <1>1, <1>8, <2>1
  <2>3. w = p
    BY <1>1, <2>1, <2>2, SeqEqual
  <2> QED
    BY <2>3 DEF w
<1>10. SubSeq(f, 1, 1) \o Drop(1, f) = f
  <2>1. 1 \in 0..Len(f)
    BY <1>8
  <2> QED
    BY <1>5, <2>1, TakeAndDrop
<1>11. f = p \o Behind(p, s)
  BY <1>7, <1>9, <1>10
<1> QED
  BY <1>5, <1>11 DEF p

\* The host a script is told of is the one the request names.
LEMMA HostTruth ==
  ASSUME NEW r \in RequestType
  PROVE  HostOf(r) = NameOf(r) \o (IF Found(<<":">>, HostOf(r)) THEN <<":">> \o PortOf(r) ELSE <<>>)
<1> DEFINE x == ":"
           h == HostOf(r)
           W == Piece \cup Names
<1>1. x \in W
  BY PieceFacts
<1>2. h \in Seq(W)
  <2> DEFINE b == "localhost"
  <2>1. b \in W
    BY DEF Names
  <2> HIDE DEF b, W
  <2>2. <<b>> \in Seq(W)
    BY <2>1
  <2> QED
    BY <2>2, HeaderOrTyped DEF HostOf, b, W, EnvTexts
<1>3. NameOf(r) = IF Found(<<x>>, h) THEN Before(<<x>>, h) ELSE h
  BY DEF NameOf
<1>4. PortOf(r) = IF Found(<<x>>, h) THEN Behind(<<x>>, h) ELSE <<"80">>
  BY DEF PortOf
<1>5. <<":">> = <<x>>
  OBVIOUS
<1> HIDE DEF x, h, W
<1>6. CASE Found(<<x>>, h)
  <2>1. h = Before(<<x>>, h) \o (<<x>> \o Behind(<<x>>, h))
    BY <1>1, <1>2, <1>6, CutTogether
  <2> QED
    BY <1>3, <1>4, <1>5, <1>6, <2>1 DEF h
<1>7. CASE ~Found(<<x>>, h)
  <2>1. h \o <<>> = h
    BY <1>2, ConcatEmptySeq
  <2> QED
    BY <1>3, <1>5, <1>7, <2>1 DEF h
<1> QED
  BY <1>6, <1>7

\* An environment is that of a request whose head is there and was accepted.
ToldInv ==
  env # <<>> => client.endHeaders /\ ~client.requestError /\ env = EnvMap(request)

\* At the start there is none,
LEMMA StartsTold == Init => ToldInv
BY DEF Init, ToldInv

\* and once there is one, nothing is appended any more.
LEMMA StepTold == ToldInv /\ [Next]_vars => ToldInv'
<1> SUFFICES ASSUME ToldInv, [Next]_vars PROVE ToldInv'
  OBVIOUS
<1>1. ASSUME NEW n \in 1..MaxSegment, AppendData(n)
      PROVE  ToldInv'
  <2>1. ~client.endHeaders /\ env' = env
    BY <1>1 DEF AppendData
  <2> QED
    BY <2>1 DEF ToldInv
<1>2. CASE BuildCGIEnv
  BY <1>2 DEF BuildCGIEnv, ToldInv
<1>3. CASE UNCHANGED vars
  BY <1>3 DEF vars, ToldInv
<1> QED
  BY <1>1, <1>2, <1>3 DEF Next

\* What a script is told is what the client said.
LEMMA TruthTold ==
  ASSUME AllSendable, intent \in Intents, HInv, FieldsFound, ToldInv
  PROVE  ScriptToldTruth
<1> DEFINE it == intent
           r == request
           Spoken(name) == ToLowerCase(LastValue(it, name))
<1> SUFFICES ASSUME env # <<>>
             PROVE  /\ Plain(it.target) =>
                         ToldOnce(ScriptReads(env[<<"QUERY_STRING">>]), ScriptReads(QueryIn(it.target)))
                    /\ env[<<"REQUEST_METHOD">>] = it.method
                    /\ Named(it, ContentLength) # {} => env[<<"CONTENT_LENGTH">>] = Spoken(ContentLength)
                    /\ Named(it, Host) # {} =>
                         Spoken(Host) = env[<<"SERVER_NAME">>]
                           \o (IF Found(<<":">>, Spoken(Host)) THEN <<":">> \o env[<<"SERVER_PORT">>]
                               ELSE <<>>)
  BY DEF ScriptToldTruth, QueryIn, Whole
<1>1. client.endHeaders /\ ~client.requestError /\ env = EnvMap(r)
  BY DEF ToldInv
<1>2. it \in Intent /\ Sendable(it) /\ r = ParseRequest(HeadOf(it)) /\ ~r.error
  <2>1. client.requestError <=> r.error
    BY <1>1 DEF HInv, Decided
  <2> QED
    BY <1>1, <2>1, IntentsAssumption DEF AllSendable, HInv
<1>3. r \in RequestType /\ r.method = it.method
  <2> HIDE DEF it, r
  <2> QED
    BY <1>2, ParsedAs
<1>4. /\ DOMAIN r.headers = {ToLowerCase(it.fields[k].name) : k \in DOMAIN it.fields} \ {<<>>}
      /\ \A name \in DOMAIN r.headers : r.headers[name] = Spoken(name)
  BY <1>1 DEF FieldsFound
<1> HIDE DEF it, r
<1>5. ASSUME NEW name, name # <<>>, Named(it, name) # {}
      PROVE  name \in DOMAIN r.headers /\ r.headers[name] = Spoken(name)
  <2>1. PICK k \in DOMAIN it.fields : ToLowerCase(it.fields[k].name) = name
    BY <1>5 DEF Named
  <2>2. name \in DOMAIN r.headers
    BY <1>4, <1>5, <2>1
  <2> QED
    BY <1>4, <2>2
<1> HIDE DEF Spoken
<1>6. /\ env[<<"REQUEST_METHOD">>] = r.method
      /\ env[<<"QUERY_STRING">>] = QueryOf(r)
      /\ env[<<"SERVER_NAME">>] = NameOf(r)
      /\ env[<<"SERVER_PORT">>] = PortOf(r)
      /\ env[<<"CONTENT_LENGTH">>] = HeaderOr(r, ContentLength, <<"0">>)
  <2>1. \A k \in 1..9 : env[<<Numbered[k]>>] = Said(r)[k]
    BY <1>1, <1>3, ServerTold
  <2>2. 1 \in 1..9 /\ 5 \in 1..9 /\ 6 \in 1..9 /\ 7 \in 1..9 /\ 9 \in 1..9
    OBVIOUS
  <2>3. /\ Said(r)[1] = r.method /\ Said(r)[5] = QueryOf(r) /\ Said(r)[6] = NameOf(r)
        /\ Said(r)[7] = PortOf(r) /\ Said(r)[9] = HeaderOr(r, ContentLength, <<"0">>)
    BY DEF Said
  <2>4. /\ Numbered[1] = "REQUEST_METHOD" /\ Numbered[5] = "QUERY_STRING"
        /\ Numbered[6] = "SERVER_NAME" /\ Numbered[7] = "SERVER_PORT"
        /\ Numbered[9] = "CONTENT_LENGTH"
    BY DEF Numbered
  <2>5. /\ env[<<Numbered[1]>>] = r.method /\ env[<<Numbered[5]>>] = QueryOf(r)
        /\ env[<<Numbered[6]>>] = NameOf(r) /\ env[<<Numbered[7]>>] = PortOf(r)
        /\ env[<<Numbered[9]>>] = HeaderOr(r, ContentLength, <<"0">>)
    BY <2>1, <2>2, <2>3
  <2> QED
    BY <2>4, <2>5
<1>7. ContentLength # <<>> /\ Host # <<>>
  BY DEF ContentLength, Host
<1>8. Plain(it.target) =>
        ToldOnce(ScriptReads(env[<<"QUERY_STRING">>]), ScriptReads(QueryIn(it.target)))
  BY <1>2, <1>6, QueryTruth
<1>9. Named(it, ContentLength) # {} => env[<<"CONTENT_LENGTH">>] = Spoken(ContentLength)
  BY <1>5, <1>6, <1>7 DEF HeaderOr
<1>10. ASSUME Named(it, Host) # {}
       PROVE  Spoken(Host) = env[<<"SERVER_NAME">>]
                \o (IF Found(<<":">>, Spoken(Host)) THEN <<":">> \o env[<<"SERVER_PORT">>]
                    ELSE <<>>)
  <2>1. HostOf(r) = Spoken(Host)
    BY <1>5, <1>7, <1>10 DEF HostOf, HeaderOr
  <2>2. HostOf(r) = NameOf(r) \o (IF Found(<<":">>, HostOf(r)) THEN <<":">> \o PortOf(r) ELSE <<>>)
    BY <1>3, HostTruth
  <2> QED
    BY <1>6, <2>1, <2>2
<1> QED
  BY <1>3, <1>6, <1>8, <1>9, <1>10

\* A script is told what the client said: of a query without escapes every name, with one
\* value that was sent for it and nothing that was not, the very query if no name is sent
\* with two values; and no header takes the place of a variable the server sets itself.
THEOREM ScriptsAreToldTruth ==
  ASSUME AllSendable
  PROVE  Spec => []ScriptToldTruth
<1>1. AllUnbroken
  BY SendableInv
<1>2. Init => IInv /\ HInv /\ ToldInv
  BY <1>1, StartsTyped, StartsExactly, StartsTold
<1>3. IInv /\ HInv /\ ToldInv /\ [Next]_vars => (IInv /\ HInv /\ ToldInv)'
  BY <1>1, StepTyped, StepExactly, StepTold
<1>4. IInv /\ HInv /\ ToldInv => ScriptToldTruth
  BY FoundFields, TruthTold DEF IInv
<1> QED
  BY <1>2, <1>3, <1>4, PTL DEF Spec
=============================================================================
