------------------------------ MODULE TextProofs ------------------------------
(***************************************************************************)
(* What the operators of Text and of the community modules it rests on     *)
(* return, for sequences of any length over any set.                       *)
(***************************************************************************)
EXTENDS Text, Integers, SequenceTheorems, WellFoundedInduction, TLAPS

----------------------------------------------------------------------------
(* Natural numbers: induction over a set of them, minima and maxima.       *)

Smaller == {p \in Nat \X Nat : p[1] < p[2]}

\* A set of numbers has a least member, which is the well-foundedness of <.
LEMMA LeastNumber ==
  ASSUME NEW S \in SUBSET Nat, S # {}
  PROVE  \E m \in S : \A n \in S : m <= n
<1>1. Smaller = OpToRel(<, Nat)
  BY DEF Smaller, OpToRel
<1>2. IsWellFoundedOn(Smaller, Nat)
  BY <1>1, NatLessThanWellFounded
<1>3. PICK m \in S : \A n \in S : ~(<<n, m>> \in Smaller)
  BY <1>2, WFMin
<1>4. \A n \in S : ~(n < m)
  BY <1>3 DEF Smaller
<1> QED
  BY <1>3, <1>4

\* A set with 0 that is closed under successor holds every number.
LEMMA Induction ==
  ASSUME NEW S, 0 \in S, \A n \in Nat : n \in S => n + 1 \in S
  PROVE  \A n \in Nat : n \in S
<1> SUFFICES ASSUME NEW n \in Nat \ S PROVE FALSE
  OBVIOUS
<1>1. PICK m \in Nat \ S : \A k \in Nat \ S : m <= k
  BY LeastNumber
<1>2. m # 0 /\ m - 1 \in Nat
  BY <1>1
<1>3. m - 1 \in S
  BY <1>1, <1>2
<1>4. (m - 1) + 1 \in S
  BY <1>2, <1>3
<1> QED
  BY <1>1, <1>2, <1>4

\* The least member of a set of numbers.
LEMMA MinFacts ==
  ASSUME NEW S \in SUBSET Nat, S # {}
  PROVE  Min(S) \in S /\ \A n \in S : Min(S) <= n
<1>1. \E m \in S : \A n \in S : m <= n
  BY LeastNumber
<1> QED
  BY <1>1 DEF Min

\* The greatest member of a set of numbers with a bound.
LEMMA MaxFacts ==
  ASSUME NEW S \in SUBSET Nat, S # {}, NEW b \in Nat, \A n \in S : n <= b
  PROVE  Max(S) \in S /\ \A n \in S : n <= Max(S)
<1> DEFINE Room == {b - n : n \in S}
<1>1. Room \in SUBSET Nat /\ Room # {}
  <2>1. \A n \in S : b - n \in Nat
    OBVIOUS
  <2> QED
    BY <2>1
<1>2. PICK r \in Room : \A k \in Room : r <= k
  BY <1>1, LeastNumber
<1>3. PICK m \in S : r = b - m
  BY <1>2
<1>4. \A n \in S : m >= n
  <2> TAKE n \in S
  <2>1. r <= b - n
    BY <1>2
  <2>2. n \in Nat /\ m \in Nat
    OBVIOUS
  <2> QED
    BY <1>3, <2>1, <2>2
<1>5. \E x \in S : \A y \in S : x >= y
  BY <1>3, <1>4
<1>6. Max(S) \in S /\ \A y \in S : Max(S) >= y
  BY <1>5 DEF Max
<1> QED
  BY <1>6

----------------------------------------------------------------------------
(* Parts of a sequence.                                                    *)

\* A part of a text is a text, of its places.
LEMMA SubSeqFacts ==
  ASSUME NEW S, NEW s \in Seq(S), NEW m \in Nat, NEW n \in Nat, m >= 1, n <= Len(s)
  PROVE  /\ SubSeq(s, m, n) \in Seq(S)
         /\ Len(SubSeq(s, m, n)) = IF m <= n THEN n - m + 1 ELSE 0
         /\ \A i \in 1..(n - m + 1) : SubSeq(s, m, n)[i] = s[m + i - 1]
<1>1. \A i \in m..n : s[i] \in S
  BY LenProperties, ElementOfSeq
<1> QED
  BY <1>1, SubSeqProperties

\* What is behind the first members of a text.
LEMMA DropFacts ==
  ASSUME NEW S, NEW s \in Seq(S), NEW n \in Nat
  PROVE  /\ Drop(n, s) \in Seq(S)
         /\ Len(Drop(n, s)) = IF n <= Len(s) THEN Len(s) - n ELSE 0
         /\ \A i \in 1..(Len(s) - n) : Drop(n, s)[i] = s[n + i]
<1>1. Len(s) \in Nat
  BY LenProperties
<1>2. \A i \in (n + 1)..Len(s) : s[i] \in S
  BY <1>1, ElementOfSeq
<1>3. /\ Drop(n, s) \in Seq(S)
      /\ Len(Drop(n, s)) = IF n + 1 <= Len(s) THEN Len(s) - (n + 1) + 1 ELSE 0
      /\ \A i \in 1..(Len(s) - (n + 1) + 1) : Drop(n, s)[i] = s[(n + 1) + i - 1]
  BY <1>1, <1>2, SubSeqProperties DEF Drop
<1> QED
  BY <1>1, <1>3

\* A text without its first no members is the text.
LEMMA DropNothing ==
  ASSUME NEW S, NEW s \in Seq(S)
  PROVE  Drop(0, s) = s
BY SubSeqFull DEF Drop

\* A sequence is what is taken from its front and what is left.
LEMMA TakeAndDrop ==
  ASSUME NEW S, NEW s \in Seq(S), NEW n \in 0..Len(s)
  PROVE  SubSeq(s, 1, n) \o Drop(n, s) = s
<1>1. Len(s) \in Nat
  BY LenProperties
<1> DEFINE front == SubSeq(s, 1, n)
           back == Drop(n, s)
<1>2. front \in Seq(S) /\ Len(front) = n /\ \A i \in 1..n : front[i] = s[i]
  BY <1>1, SubSeqFacts
<1>3. back \in Seq(S) /\ Len(back) = Len(s) - n /\ \A i \in 1..(Len(s) - n) : back[i] = s[n + i]
  BY <1>1, DropFacts
<1> HIDE DEF front, back
<1>4. /\ front \o back \in Seq(S) /\ Len(front \o back) = Len(front) + Len(back)
      /\ \A i \in 1..(Len(front) + Len(back)) :
           (front \o back)[i] = IF i <= Len(front) THEN front[i] ELSE back[i - Len(front)]
  BY <1>2, <1>3, ConcatProperties
<1>5. Len(front \o back) = Len(s)
  BY <1>1, <1>2, <1>3, <1>4
<1>6. \A i \in 1..Len(s) : (front \o back)[i] = s[i]
  BY <1>1, <1>2, <1>3, <1>4
<1>7. front \o back = s
  BY <1>4, <1>5, <1>6, SeqEqual
<1> QED
  BY <1>7 DEF front, back

\* The front of a text with more behind it is the front of the text.
LEMMA FrontOfConcat ==
  ASSUME NEW S, NEW s \in Seq(S), NEW t \in Seq(S)
  PROVE  /\ s \o t \in Seq(S)
         /\ Len(s \o t) = Len(s) + Len(t)
         /\ SubSeq(s \o t, 1, Len(s)) = s
         /\ \A n \in 0..Len(s) : SubSeq(s \o t, 1, n) = SubSeq(s, 1, n)
<1>1. Len(s) \in Nat /\ Len(t) \in Nat
  BY LenProperties
<1> DEFINE u == s \o t
<1>2. /\ u \in Seq(S) /\ Len(u) = Len(s) + Len(t)
      /\ \A i \in 1..(Len(s) + Len(t)) : u[i] = IF i <= Len(s) THEN s[i] ELSE t[i - Len(s)]
  BY ConcatProperties
<1> HIDE DEF u
<1>3. ASSUME NEW k \in 0..Len(s) PROVE SubSeq(u, 1, k) = SubSeq(s, 1, k)
  <2> DEFINE a == SubSeq(u, 1, k)
             b == SubSeq(s, 1, k)
  <2>1. a \in Seq(S) /\ Len(a) = k /\ \A i \in 1..k : a[i] = u[i]
    BY <1>1, <1>2, <1>3, SubSeqFacts
  <2>2. b \in Seq(S) /\ Len(b) = k /\ \A i \in 1..k : b[i] = s[i]
    BY <1>1, <1>3, SubSeqFacts
  <2> HIDE DEF a, b
  <2>3. \A i \in 1..k : u[i] = s[i]
    BY <1>1, <1>2, <1>3
  <2>4. a = b
    BY <2>1, <2>2, <2>3, SeqEqual
  <2> QED
    BY <2>4 DEF a, b
<1>4. SubSeq(u, 1, Len(s)) = SubSeq(s, 1, Len(s))
  BY <1>1, <1>3
<1>5. SubSeq(s, 1, Len(s)) = s
  BY SubSeqFull
<1> QED
  BY <1>2, <1>3, <1>4, <1>5 DEF u

\* The front of the front.
LEMMA FrontOfFront ==
  ASSUME NEW S, NEW s \in Seq(S), NEW n \in 0..Len(s), NEW m \in 0..n
  PROVE  SubSeq(SubSeq(s, 1, n), 1, m) = SubSeq(s, 1, m)
<1>1. Len(s) \in Nat
  BY LenProperties
<1>2. /\ SubSeq(s, 1, n) \in Seq(S) /\ Len(SubSeq(s, 1, n)) = n
      /\ \A i \in 1..n : SubSeq(s, 1, n)[i] = s[i]
  BY <1>1, SubSeqFacts
<1> DEFINE t == SubSeq(s, 1, n)
<1> HIDE DEF t
<1>3. t \in Seq(S) /\ Len(t) = n /\ \A i \in 1..n : t[i] = s[i]
  BY <1>2 DEF t
<1> DEFINE a == SubSeq(t, 1, m)
           b == SubSeq(s, 1, m)
<1>4. a \in Seq(S) /\ Len(a) = m /\ \A i \in 1..m : a[i] = t[i]
  BY <1>3, SubSeqFacts
<1>5. b \in Seq(S) /\ Len(b) = m /\ \A i \in 1..m : b[i] = s[i]
  BY <1>1, SubSeqFacts
<1> HIDE DEF a, b
<1>6. a = b
  BY <1>3, <1>4, <1>5, SeqEqual
<1> QED
  BY <1>6 DEF a, b, t

\* Of what is left of a text, the front follows what was taken before.
LEMMA TakeMore ==
  ASSUME NEW S, NEW s \in Seq(S), NEW n \in 0..Len(s), NEW m \in 0..(Len(s) - n)
  PROVE  /\ SubSeq(s, 1, n) \o SubSeq(Drop(n, s), 1, m) = SubSeq(s, 1, n + m)
         /\ Drop(m, Drop(n, s)) = Drop(n + m, s)
<1>1. Len(s) \in Nat /\ n \in Nat /\ m \in Nat /\ n + m \in 0..Len(s)
  BY LenProperties
<1> DEFINE d == Drop(n, s)
<1>2. d \in Seq(S) /\ Len(d) = Len(s) - n /\ \A i \in 1..(Len(s) - n) : d[i] = s[n + i]
  BY <1>1, DropFacts
<1> HIDE DEF d
<1> DEFINE a == SubSeq(s, 1, n)
           b == SubSeq(d, 1, m)
           c == SubSeq(s, 1, n + m)
<1>3. a \in Seq(S) /\ Len(a) = n /\ \A i \in 1..n : a[i] = s[i]
  BY <1>1, SubSeqFacts
<1>4. b \in Seq(S) /\ Len(b) = m /\ \A i \in 1..m : b[i] = d[i]
  BY <1>1, <1>2, SubSeqFacts
<1>5. c \in Seq(S) /\ Len(c) = n + m /\ \A i \in 1..(n + m) : c[i] = s[i]
  BY <1>1, SubSeqFacts
<1> HIDE DEF a, b, c
<1> DEFINE u == a \o b
<1>6. /\ u \in Seq(S) /\ Len(u) = Len(a) + Len(b)
      /\ \A i \in 1..(Len(a) + Len(b)) : u[i] = IF i <= Len(a) THEN a[i] ELSE b[i - Len(a)]
  BY <1>3, <1>4, ConcatProperties
<1> HIDE DEF u
<1>7. \A i \in 1..(n + m) : u[i] = c[i]
  <2> TAKE i \in 1..(n + m)
  <2>1. CASE i <= n
    BY <1>1, <1>3, <1>4, <1>5, <1>6, <2>1
  <2>2. CASE i > n
    <3>1. i - n \in 1..m /\ ~(i <= n) /\ n + (i - n) = i /\ i - n \in 1..(Len(s) - n)
      BY <1>1, <2>2
    <3>2. u[i] = b[i - n] /\ b[i - n] = d[i - n] /\ d[i - n] = s[n + (i - n)]
      BY <1>2, <1>3, <1>4, <1>6, <3>1
    <3> QED
      BY <1>5, <3>1, <3>2
  <2> QED
    BY <1>1, <2>1, <2>2
<1>8. u = c
  BY <1>3, <1>4, <1>5, <1>6, <1>7, SeqEqual
<1> DEFINE e == Drop(m, d)
           f == Drop(n + m, s)
<1>9. e \in Seq(S) /\ Len(e) = Len(d) - m /\ \A i \in 1..(Len(d) - m) : e[i] = d[m + i]
  <2>1. /\ Drop(m, d) \in Seq(S)
        /\ Len(Drop(m, d)) = IF m <= Len(d) THEN Len(d) - m ELSE 0
        /\ \A i \in 1..(Len(d) - m) : Drop(m, d)[i] = d[m + i]
    <3>1. d \in Seq(S) /\ m \in Nat
      BY <1>1, <1>2
    <3> QED
      BY <3>1, DropFacts
  <2>2. m <= Len(d)
    BY <1>1, <1>2
  <2> QED
    BY <2>1, <2>2
<1>10. /\ f \in Seq(S) /\ Len(f) = Len(s) - (n + m)
       /\ \A i \in 1..(Len(s) - (n + m)) : f[i] = s[n + m + i]
  BY <1>1, DropFacts
<1> HIDE DEF e, f
<1>11. \A i \in 1..Len(e) : e[i] = f[i]
  <2> TAKE i \in 1..Len(e)
  <2>1. i \in 1..(Len(d) - m) /\ m + i \in 1..(Len(s) - n) /\ n + (m + i) = n + m + i
        /\ i \in 1..(Len(s) - (n + m))
    BY <1>1, <1>2, <1>9
  <2> QED
    BY <1>2, <1>9, <1>10, <2>1
<1>12. Len(e) = Len(f)
  BY <1>1, <1>2, <1>9, <1>10
<1>13. e = f
  BY <1>9, <1>10, <1>11, <1>12, SeqEqual
<1> QED
  BY <1>8, <1>13 DEF a, b, c, d, e, f, u

\* A prefix, element by element.
LEMMA PrefixFacts ==
  ASSUME NEW S, NEW s \in Seq(S), NEW t \in Seq(S)
  PROVE  IsPrefix(s, t) <=>
           Len(s) <= Len(t) /\ \A i \in 1..Len(s) : s[i] = t[i]
<1>1. Len(s) \in Nat /\ Len(t) \in Nat
  BY LenProperties
<1>2. SubSeq(s, 1, Len(s)) = s
  BY SubSeqFull
<1>3. ASSUME Len(s) <= Len(t)
      PROVE  SubSeq(t, 1, Len(s)) = s <=> \A i \in 1..Len(s) : s[i] = t[i]
  <2>1. /\ SubSeq(t, 1, Len(s)) \in Seq(S)
        /\ Len(SubSeq(t, 1, Len(s))) = Len(s)
        /\ \A i \in 1..Len(s) : SubSeq(t, 1, Len(s))[i] = t[i]
    BY <1>1, <1>3, SubSeqFacts
  <2> DEFINE u == SubSeq(t, 1, Len(s))
  <2> HIDE DEF u
  <2>2. u \in Seq(S) /\ Len(u) = Len(s) /\ \A i \in 1..Len(s) : u[i] = t[i]
    BY <2>1 DEF u
  <2>3. (\A i \in 1..Len(s) : s[i] = t[i]) => u = s
    BY <2>2, SeqEqual
  <2> QED
    BY <2>2, <2>3 DEF u
<1> QED
  BY <1>2, <1>3 DEF IsPrefix

\* A suffix, element by element.
LEMMA SuffixFacts ==
  ASSUME NEW S, NEW s \in Seq(S), NEW t \in Seq(S)
  PROVE  IsSuffix(s, t) <=>
           /\ Len(s) <= Len(t)
           /\ \A i \in 1..Len(s) : s[i] = t[Len(t) - Len(s) + i]
<1>1. /\ Len(s) \in Nat /\ Len(t) \in Nat
      /\ \A i \in 1..Len(s) : s[i] \in S /\ \A j \in 1..Len(t) : t[j] \in S
  BY LenProperties, ElementOfSeq
<1>2. /\ Reverse(s) \in [1..Len(s) -> S] /\ Reverse(t) \in [1..Len(t) -> S]
      /\ \A i \in 1..Len(s) : Reverse(s)[i] = s[Len(s) - i + 1]
      /\ \A i \in 1..Len(t) : Reverse(t)[i] = t[Len(t) - i + 1]
  BY <1>1, LenProperties, ElementOfSeq DEF Reverse
<1>3. /\ Reverse(s) \in Seq(S) /\ Len(Reverse(s)) = Len(s)
      /\ Reverse(t) \in Seq(S) /\ Len(Reverse(t)) = Len(t)
  <2>1. Reverse(s) \in Seq(S) /\ Reverse(t) \in Seq(S)
    BY ZenonT(90), <1>1, <1>2, SeqDef
  <2>2. DOMAIN Reverse(s) = 1..Len(s) /\ DOMAIN Reverse(t) = 1..Len(t)
    BY <1>2
  <2>3. \A m, n \in Nat : 1..m = 1..n => m = n
    OBVIOUS
  <2> QED
    BY <1>1, <2>1, <2>2, <2>3, LenProperties
<1>4. IsSuffix(s, t) <=>
        Len(s) <= Len(t) /\ \A i \in 1..Len(s) : Reverse(s)[i] = Reverse(t)[i]
  BY <1>3, PrefixFacts DEF IsSuffix
<1>5. ASSUME Len(s) <= Len(t), \A i \in 1..Len(s) : Reverse(s)[i] = Reverse(t)[i],
             NEW i \in 1..Len(s)
      PROVE  s[i] = t[Len(t) - Len(s) + i]
  <2> DEFINE j == Len(s) - i + 1
  <2>1. j \in 1..Len(s) /\ j \in 1..Len(t)
    BY <1>1, <1>5
  <2>2. s[Len(s) - j + 1] = t[Len(t) - j + 1]
    BY SMTT(90), <1>2, <1>5, <2>1
  <2>3. Len(s) - j + 1 = i /\ Len(t) - j + 1 = Len(t) - Len(s) + i
    BY <1>1
  <2> QED
    BY <2>2, <2>3
<1>6. ASSUME Len(s) <= Len(t), \A i \in 1..Len(s) : s[i] = t[Len(t) - Len(s) + i],
             NEW i \in 1..Len(s)
      PROVE  Reverse(s)[i] = Reverse(t)[i]
  <2> DEFINE j == Len(s) - i + 1
  <2>1. j \in 1..Len(s) /\ i \in 1..Len(t) /\ Len(t) - Len(s) + j = Len(t) - i + 1
    BY <1>1, <1>6
  <2>2. s[j] = t[Len(t) - Len(s) + j]
    BY <1>6, <2>1
  <2> QED
    BY <1>2, <2>1, <2>2
<1> QED
  BY <1>4, <1>5, <1>6

\* A suffix of a text is one of the text with more behind both.
LEMMA SuffixGrows ==
  ASSUME NEW S, NEW s \in Seq(S), NEW t \in Seq(S), NEW u \in Seq(S), IsSuffix(s, t)
  PROVE  IsSuffix(s \o u, t \o u)
<1>1. Len(s) \in Nat /\ Len(t) \in Nat /\ Len(u) \in Nat
  BY LenProperties
<1>2. Len(s) <= Len(t) /\ \A i \in 1..Len(s) : s[i] = t[Len(t) - Len(s) + i]
  BY SuffixFacts
<1> DEFINE a == s \o u
           b == t \o u
<1>3. /\ a \in Seq(S) /\ Len(a) = Len(s) + Len(u)
      /\ \A i \in 1..(Len(s) + Len(u)) : a[i] = IF i <= Len(s) THEN s[i] ELSE u[i - Len(s)]
  BY ConcatProperties
<1>4. /\ b \in Seq(S) /\ Len(b) = Len(t) + Len(u)
      /\ \A i \in 1..(Len(t) + Len(u)) : b[i] = IF i <= Len(t) THEN t[i] ELSE u[i - Len(t)]
  BY ConcatProperties
<1> HIDE DEF a, b
<1>5. ASSUME NEW i \in 1..Len(a) PROVE a[i] = b[Len(b) - Len(a) + i]
  <2> DEFINE j == Len(b) - Len(a) + i
  <2>1. j = Len(t) - Len(s) + i /\ j \in 1..(Len(t) + Len(u)) /\ i \in 1..(Len(s) + Len(u))
    BY <1>1, <1>2, <1>3, <1>4
  <2>2. CASE i <= Len(s)
    <3>1. b[j] = t[j] /\ a[i] = s[i] /\ i \in 1..Len(s)
      BY SMTT(90), <1>1, <1>2, <1>3, <1>4, <2>1, <2>2
    <3> QED
      BY <1>2, <2>1, <3>1
  <2>3. CASE i > Len(s)
    <3>1. j > Len(t) /\ j - Len(t) = i - Len(s)
      BY <1>1, <2>1, <2>3
    <3>2. ~(i <= Len(s)) /\ ~(j <= Len(t))
      BY <1>1, <2>1, <2>3, <3>1
    <3> QED
      BY <1>3, <1>4, <2>1, <3>1, <3>2
  <2> QED
    BY <1>1, <2>2, <2>3
<1>6. Len(a) <= Len(b)
  BY <1>1, <1>2, <1>3, <1>4
<1>7. IsSuffix(a, b)
  BY <1>3, <1>4, <1>5, <1>6, SuffixFacts
<1> QED
  BY <1>7 DEF a, b

\* A suffix of a text stays one when less of it is asked for.
LEMMA SuffixShrinks ==
  ASSUME NEW S, NEW s \in Seq(S), NEW t \in Seq(S), NEW u \in Seq(S), IsSuffix(u \o s, t)
  PROVE  IsSuffix(s, t)
<1>1. Len(s) \in Nat /\ Len(t) \in Nat /\ Len(u) \in Nat
  BY LenProperties
<1> DEFINE a == u \o s
<1>2. /\ a \in Seq(S) /\ Len(a) = Len(u) + Len(s)
      /\ \A i \in 1..(Len(u) + Len(s)) : a[i] = IF i <= Len(u) THEN u[i] ELSE s[i - Len(u)]
  BY ConcatProperties
<1>3. Len(a) <= Len(t) /\ \A i \in 1..Len(a) : a[i] = t[Len(t) - Len(a) + i]
  BY <1>2, SuffixFacts
<1> HIDE DEF a
<1>4. ASSUME NEW i \in 1..Len(s) PROVE s[i] = t[Len(t) - Len(s) + i]
  <2> DEFINE j == Len(u) + i
  <2>1. j \in 1..Len(a) /\ ~(j <= Len(u)) /\ j - Len(u) = i
        /\ Len(t) - Len(a) + j = Len(t) - Len(s) + i
    BY <1>1, <1>2
  <2> QED
    BY <1>2, <1>3, <2>1
<1>5. Len(s) <= Len(t)
  BY <1>1, <1>2, <1>3
<1> QED
  BY <1>4, <1>5, SuffixFacts

\* A text is its own end.
LEMMA SuffixReflexive ==
  ASSUME NEW S, NEW s \in Seq(S)
  PROVE  IsSuffix(s, s) /\ IsSuffix(<<>>, s)
<1>1. Len(s) \in Nat
  BY LenProperties
<1>2. <<>> \in Seq(S) /\ Len(<<>>) = 0
  BY EmptySeq
<1>3. IsSuffix(s, s)
  BY <1>1, SuffixFacts
<1>4. IsSuffix(<<>>, s)
  <2> DEFINE none == <<>>
  <2>1. none \in Seq(S) /\ Len(none) = 0
    BY <1>2
  <2> HIDE DEF none
  <2>2. Len(none) <= Len(s)
        /\ \A i \in 1..Len(none) : none[i] = s[Len(s) - Len(none) + i]
    BY <1>1, <2>1
  <2>3. IsSuffix(none, s)
    BY <2>1, <2>2, SuffixFacts
  <2> QED
    BY <2>3 DEF none
<1> QED
  BY <1>3, <1>4

----------------------------------------------------------------------------
(* Searching.                                                              *)

\* p occurs in s at i, element by element.
LEMMA OccurrenceFacts ==
  ASSUME NEW S, NEW p \in Seq(S), NEW s \in Seq(S)
  PROVE  /\ Occurrences(p, s) \subseteq Nat
         /\ \A i : i \in Occurrences(p, s) <=>
              /\ i \in Nat /\ 1 <= i /\ i + Len(p) <= Len(s) + 1
              /\ \A k \in 1..Len(p) : s[i + k - 1] = p[k]
<1>1. Len(p) \in Nat /\ Len(s) \in Nat
  BY LenProperties
<1>2. ASSUME NEW i \in 1..(Len(s) - Len(p) + 1)
      PROVE  SubSeq(s, i, i + Len(p) - 1) = p <=> \A k \in 1..Len(p) : s[i + k - 1] = p[k]
  <2> DEFINE u == SubSeq(s, i, i + Len(p) - 1)
             n == i + Len(p) - 1
  <2>1. n \in Nat /\ n <= Len(s) /\ i \in Nat /\ i >= 1 /\ n - i + 1 = Len(p)
        /\ (i <= n \/ Len(p) = 0)
    BY <1>1
  <2>2. /\ u \in Seq(S) /\ Len(u) = (IF i <= n THEN n - i + 1 ELSE 0)
        /\ \A k \in 1..(n - i + 1) : u[k] = s[i + k - 1]
    BY <2>1, SubSeqFacts
  <2> HIDE DEF u
  <2>3. Len(u) = Len(p)
    BY <1>1, <2>1, <2>2
  <2>4. \A k \in 1..Len(p) : u[k] = s[i + k - 1]
    BY <2>1, <2>2
  <2>5. (\A k \in 1..Len(p) : u[k] = p[k]) => u = p
    BY <2>2, <2>3, SeqEqual
  <2>6. u = p <=> \A k \in 1..Len(p) : s[i + k - 1] = p[k]
    BY <2>4, <2>5
  <2> QED
    BY <2>6 DEF u
<1>3. \A i : i \in 1..(Len(s) - Len(p) + 1) <=> i \in Nat /\ 1 <= i /\ i + Len(p) <= Len(s) + 1
  BY <1>1
<1> QED
  BY <1>1, <1>2, <1>3 DEF Occurrences

\* What is found is at the first place it occurs.
LEMMA FindFacts ==
  ASSUME NEW S, NEW p \in Seq(S), NEW s \in Seq(S), Found(p, s)
  PROVE  /\ Find(p, s) \in Occurrences(p, s)
         /\ \A i \in Occurrences(p, s) : Find(p, s) <= i
         /\ Find(p, s) \in Nat /\ 1 <= Find(p, s) /\ Find(p, s) + Len(p) <= Len(s) + 1
<1>1. Occurrences(p, s) \in SUBSET Nat /\ Occurrences(p, s) # {}
  BY OccurrenceFacts DEF Found
<1>2. Find(p, s) \in Occurrences(p, s) /\ \A i \in Occurrences(p, s) : Find(p, s) <= i
  BY <1>1, MinFacts DEF Find
<1> QED
  BY <1>2, OccurrenceFacts

\* A sequence over a set is one over a larger set.
LEMMA Wider ==
  ASSUME NEW S, NEW T, NEW s \in Seq(S)
  PROVE  s \in Seq(S \cup T)
<1>1. Len(s) \in Nat /\ DOMAIN s = 1..Len(s) /\ s \in [1..Len(s) -> S]
  BY LenProperties
<1>2. s \in [1..Len(s) -> S \cup T]
  BY <1>1
<1> QED
  BY <1>1, <1>2, SeqDef

\* The text is what comes before the place found, and what follows.
LEMMA BeforeFrom ==
  ASSUME NEW S, NEW T, NEW p \in Seq(T), NEW s \in Seq(S), Found(p, s)
  PROVE  /\ Find(p, s) \in Nat /\ Find(p, s) >= 1
         /\ Before(p, s) \in Seq(S) /\ Len(Before(p, s)) = Find(p, s) - 1
         /\ From(p, s) \in Seq(S)
         /\ From(p, s) = Drop(Find(p, s) - 1, s)
         /\ Before(p, s) \o From(p, s) = s
         /\ Find(p, s) + Len(p) <= Len(s) + 1
<1> DEFINE n == Find(p, s) - 1
<1>1. s \in Seq(S \cup T) /\ p \in Seq(S \cup T)
  <2>1. p \in Seq(T \cup S) /\ T \cup S = S \cup T
    BY Wider
  <2> QED
    BY <2>1, Wider
<1>2. Find(p, s) \in Nat /\ 1 <= Find(p, s) /\ Find(p, s) + Len(p) <= Len(s) + 1
  BY <1>1, FindFacts
<1>3. Len(s) \in Nat /\ Len(p) \in Nat
  BY LenProperties
<1>4. n \in 0..Len(s) /\ n + 1 = Find(p, s)
  BY <1>2, <1>3
<1>5. From(p, s) = Drop(n, s)
  BY <1>4 DEF From, Drop
<1> HIDE DEF n
<1>6. SubSeq(s, 1, n) \o Drop(n, s) = s
  BY <1>4, TakeAndDrop
<1>7. Drop(n, s) \in Seq(S)
  BY <1>3, <1>4, DropFacts
<1>8. SubSeq(s, 1, n) \in Seq(S) /\ Len(SubSeq(s, 1, n)) = n
  BY <1>3, <1>4, SubSeqFacts
<1> QED
  BY <1>2, <1>5, <1>6, <1>7, <1>8 DEF Before, n

\* A front of a text is a prefix of it.
LEMMA FrontIsPrefix ==
  ASSUME NEW S, NEW s \in Seq(S), NEW n \in 0..Len(s)
  PROVE  IsPrefix(SubSeq(s, 1, n), s)
<1>1. Len(s) \in Nat
  BY LenProperties
<1> DEFINE u == SubSeq(s, 1, n)
<1>2. u \in Seq(S) /\ Len(u) = n /\ \A i \in 1..n : u[i] = s[i]
  BY <1>1, SubSeqFacts
<1> HIDE DEF u
<1>3. IsPrefix(u, s)
  BY <1>1, <1>2, PrefixFacts
<1> QED
  BY <1>3 DEF u

\* Where a text of one piece occurs.
LEMMA OccursOne ==
  ASSUME NEW S, NEW x \in S, NEW s \in Seq(S)
  PROVE  \A i : i \in Occurrences(<<x>>, s) <=> i \in 1..Len(s) /\ s[i] = x
<1>1. <<x>> \in Seq(S) /\ Len(<<x>>) = 1 /\ Len(s) \in Nat
  BY LenProperties
<1> DEFINE p == <<x>>
<1>2. p \in Seq(S) /\ Len(p) = 1 /\ p[1] = x
  BY <1>1
<1> HIDE DEF p
<1>3. \A i : i \in Occurrences(p, s) <=>
        /\ i \in Nat /\ 1 <= i /\ i + Len(p) <= Len(s) + 1
        /\ \A k \in 1..Len(p) : s[i + k - 1] = p[k]
  BY <1>2, OccurrenceFacts
<1>4. ASSUME NEW i
      PROVE  i \in Occurrences(p, s) <=> i \in 1..Len(s) /\ s[i] = x
  <2>1. i \in Nat => ((\A k \in 1..1 : s[i + k - 1] = p[k]) <=> s[i] = x)
    BY <1>2
  <2>2. i \in Nat => (1 <= i /\ i + 1 <= Len(s) + 1 <=> i \in 1..Len(s))
    BY <1>1
  <2> QED
    BY <1>2, <1>3, <2>1, <2>2
<1> QED
  BY <1>4 DEF p

\* Of two pieces.
LEMMA OccursTwo ==
  ASSUME NEW S, NEW x \in S, NEW y \in S, NEW s \in Seq(S)
  PROVE  \A i : i \in Occurrences(<<x, y>>, s) <=>
                  i \in 1..(Len(s) - 1) /\ s[i] = x /\ s[i + 1] = y
<1>1. <<x, y>> \in Seq(S) /\ Len(<<x, y>>) = 2 /\ Len(s) \in Nat
  BY LenProperties
<1> DEFINE p == <<x, y>>
<1>2. p \in Seq(S) /\ Len(p) = 2 /\ p[1] = x /\ p[2] = y
  BY <1>1
<1> HIDE DEF p
<1>3. \A i : i \in Occurrences(p, s) <=>
        /\ i \in Nat /\ 1 <= i /\ i + Len(p) <= Len(s) + 1
        /\ \A k \in 1..Len(p) : s[i + k - 1] = p[k]
  BY ZenonT(90), <1>2, OccurrenceFacts
<1>4. ASSUME NEW i
      PROVE  i \in Occurrences(p, s) <=> i \in 1..(Len(s) - 1) /\ s[i] = x /\ s[i + 1] = y
  <2>1. i \in Nat => ((\A k \in 1..2 : s[i + k - 1] = p[k]) <=> s[i] = x /\ s[i + 1] = y)
    BY <1>2
  <2>2. i \in Nat => (1 <= i /\ i + 2 <= Len(s) + 1 <=> i \in 1..(Len(s) - 1))
    BY <1>1
  <2> QED
    BY <1>2, <1>3, <2>1, <2>2
<1> QED
  BY <1>4 DEF p

\* Of three pieces.
LEMMA OccursThree ==
  ASSUME NEW S, NEW x \in S, NEW y \in S, NEW z \in S, NEW s \in Seq(S)
  PROVE  \A i : i \in Occurrences(<<x, y, z>>, s) <=>
                  i \in 1..(Len(s) - 2) /\ s[i] = x /\ s[i + 1] = y /\ s[i + 2] = z
<1>1. <<x, y, z>> \in Seq(S) /\ Len(<<x, y, z>>) = 3 /\ Len(s) \in Nat
  BY LenProperties
<1> DEFINE p == <<x, y, z>>
<1>2. p \in Seq(S) /\ Len(p) = 3 /\ p[1] = x /\ p[2] = y /\ p[3] = z
  BY <1>1
<1> HIDE DEF p
<1>3. \A i : i \in Occurrences(p, s) <=>
        /\ i \in Nat /\ 1 <= i /\ i + Len(p) <= Len(s) + 1
        /\ \A k \in 1..Len(p) : s[i + k - 1] = p[k]
  BY ZenonT(90), <1>2, OccurrenceFacts
<1>4. ASSUME NEW i
      PROVE  i \in Occurrences(p, s) <=>
               i \in 1..(Len(s) - 2) /\ s[i] = x /\ s[i + 1] = y /\ s[i + 2] = z
  <2>1. i \in Nat => ((\A k \in 1..3 : s[i + k - 1] = p[k])
                        <=> s[i] = x /\ s[i + 1] = y /\ s[i + 2] = z)
    BY <1>2
  <2>2. i \in Nat => (1 <= i /\ i + 3 <= Len(s) + 1 <=> i \in 1..(Len(s) - 2))
    BY <1>1
  <2> QED
    BY <1>2, <1>3, <2>1, <2>2
<1> QED
  BY <1>4 DEF p

\* Of four pieces.
LEMMA OccursFour ==
  ASSUME NEW S, NEW x \in S, NEW y \in S, NEW z \in S, NEW w \in S, NEW s \in Seq(S)
  PROVE  \A i : i \in Occurrences(<<x, y, z, w>>, s) <=>
                  i \in 1..(Len(s) - 3) /\ s[i] = x /\ s[i + 1] = y /\ s[i + 2] = z /\ s[i + 3] = w
<1>1. <<x, y, z, w>> \in Seq(S) /\ Len(<<x, y, z, w>>) = 4 /\ Len(s) \in Nat
  BY LenProperties
<1> DEFINE p == <<x, y, z, w>>
<1>2. p \in Seq(S) /\ Len(p) = 4 /\ p[1] = x /\ p[2] = y /\ p[3] = z /\ p[4] = w
  BY <1>1
<1> HIDE DEF p
<1>3. \A i : i \in Occurrences(p, s) <=>
        /\ i \in Nat /\ 1 <= i /\ i + Len(p) <= Len(s) + 1
        /\ \A k \in 1..Len(p) : s[i + k - 1] = p[k]
  BY ZenonT(90), <1>2, OccurrenceFacts
<1>4. ASSUME NEW i
      PROVE  i \in Occurrences(p, s) <=>
               i \in 1..(Len(s) - 3) /\ s[i] = x /\ s[i + 1] = y /\ s[i + 2] = z /\ s[i + 3] = w
  <2>1. i \in Nat => ((\A k \in 1..4 : s[i + k - 1] = p[k])
                        <=> s[i] = x /\ s[i + 1] = y /\ s[i + 2] = z /\ s[i + 3] = w)
    BY <1>2
  <2>2. i \in Nat => (1 <= i /\ i + 4 <= Len(s) + 1 <=> i \in 1..(Len(s) - 3))
    BY <1>1
  <2> QED
    BY <1>2, <1>3, <2>1, <2>2
<1> QED
  BY <1>4 DEF p

\* The first place where a text occurs is where it is found.
LEMMA FoundAt ==
  ASSUME NEW S, NEW p \in Seq(S), NEW s \in Seq(S), NEW n \in Occurrences(p, s),
         \A i \in Occurrences(p, s) : n <= i
  PROVE  Found(p, s) /\ Find(p, s) = n
<1>1. Found(p, s)
  BY DEF Found
<1>2. /\ Find(p, s) \in Occurrences(p, s) /\ \A i \in Occurrences(p, s) : Find(p, s) <= i
  BY <1>1, FindFacts
<1>3. n \in Nat /\ Find(p, s) \in Nat
  BY <1>2, OccurrenceFacts
<1> QED
  BY <1>1, <1>2, <1>3

----------------------------------------------------------------------------
(* Folds from the left.                                                    *)

\* F folds members of E into members of K.
FoldsInto(F, K, E) == F \in [K \X E -> K]

\* f tells what folding F from base makes of the members of t in each set of places.
FoldsOver(f, F, base, t, places) ==
  f = [s \in SUBSET places |->
         IF s = {} THEN base ELSE F[<<f[s \ {Max(s)}], t[Max(s)]>>]]

\* What is the largest of 1..n and of a set that n + 1 is added to.
LEMMA MaxOfPlaces ==
  ASSUME NEW n \in Nat
  PROVE  /\ \A s \in SUBSET (1..n) : s # {} => Max(s) \in s /\ Max(s) \in 1..n
         /\ \A s \in SUBSET (1..(n + 1)) : n + 1 \in s => Max(s) = n + 1
<1>1. ASSUME NEW m \in Nat, NEW s \in SUBSET (1..m), s # {}
      PROVE  Max(s) \in s /\ \A k \in s : k <= Max(s)
  <2>1. s \in SUBSET Nat /\ \A k \in s : k <= m
    OBVIOUS
  <2> QED
    BY <1>1, <2>1, MaxFacts
<1>2. ASSUME NEW s \in SUBSET (1..n), s # {}
      PROVE  Max(s) \in s /\ Max(s) \in 1..n
  BY <1>1, <1>2
<1>3. ASSUME NEW s \in SUBSET (1..(n + 1)), n + 1 \in s
      PROVE  Max(s) = n + 1
  <2>1. n + 1 \in Nat /\ s # {}
    BY <1>3
  <2>2. Max(s) \in s /\ n + 1 <= Max(s)
    BY <1>1, <1>3, <2>1
  <2>3. Max(s) \in 1..(n + 1)
    BY <2>2
  <2> QED
    BY <2>2, <2>3
<1> QED
  BY <1>2, <1>3

\* Folding a sequence of E with a function F on K reaches something in K for
\* every set of places.
LEMMA FoldExists ==
  ASSUME NEW K, NEW E, NEW F, FoldsInto(F, K, E), NEW base \in K, NEW t \in Seq(E)
  PROVE  \E f \in [SUBSET (DOMAIN t) -> K] : FoldsOver(f, F, base, t, DOMAIN t)
<1>0. F \in [K \X E -> K]
  BY DEF FoldsInto
<1> DEFINE Has(n) == \E f \in [SUBSET (1..n) -> K] : FoldsOver(f, F, base, t, 1..n)
           Good == {n \in Nat : n <= Len(t) => Has(n)}
<1>1. Len(t) \in Nat /\ DOMAIN t = 1..Len(t) /\ \A i \in 1..Len(t) : t[i] \in E
  BY LenProperties, ElementOfSeq
<1>2. 0 \in Good
  <2> DEFINE f == [s \in SUBSET (1..0) |-> base]
  <2>1. f \in [SUBSET (1..0) -> K]
    OBVIOUS
  <2>2. \A s \in SUBSET (1..0) : s = {}
    OBVIOUS
  <2>3. FoldsOver(f, F, base, t, 1..0)
    BY <2>2 DEF FoldsOver
  <2>4. Has(0)
    BY <2>1, <2>3
  <2> HIDE DEF Has
  <2> QED
    BY <2>4
<1>3. ASSUME NEW n \in Nat, n <= Len(t) => Has(n), n + 1 <= Len(t)
      PROVE  Has(n + 1)
  <2>0. Has(n)
    <3>1. n <= Len(t)
      BY <1>1, <1>3
    <3> HIDE DEF Has
    <3> QED
      BY <1>3, <3>1
  <2>1. PICK f \in [SUBSET (1..n) -> K] : FoldsOver(f, F, base, t, 1..n)
    BY <2>0
  <2>2. \A s \in SUBSET (1..n) :
          f[s] = IF s = {} THEN base ELSE F[<<f[s \ {Max(s)}], t[Max(s)]>>]
    BY <2>1 DEF FoldsOver
  <2>3. t[n + 1] \in E
    <3>1. n + 1 \in 1..Len(t)
      BY <1>1, <1>3
    <3> QED
      BY <1>1, <3>1
  <2> DEFINE g == [s \in SUBSET (1..(n + 1)) |->
                     IF n + 1 \in s THEN F[<<f[s \ {n + 1}], t[n + 1]>>] ELSE f[s]]
  <2>4. \A s \in SUBSET (1..(n + 1)) :
          /\ n + 1 \in s => s \ {n + 1} \in SUBSET (1..n)
          /\ n + 1 \notin s => s \in SUBSET (1..n)
    OBVIOUS
  <2>5. g \in [SUBSET (1..(n + 1)) -> K]
    BY <1>0, <2>3, <2>4
  <2>6. ASSUME NEW s \in SUBSET (1..(n + 1))
        PROVE  g[s] = IF s = {} THEN base ELSE F[<<g[s \ {Max(s)}], t[Max(s)]>>]
    <3>1. CASE n + 1 \in s
      <4>1. Max(s) = n + 1 /\ s # {}
        BY <3>1, MaxOfPlaces
      <4>2. s \ {n + 1} \in SUBSET (1..(n + 1)) /\ n + 1 \notin s \ {n + 1}
        OBVIOUS
      <4>3. g[s \ {n + 1}] = f[s \ {n + 1}]
        BY <4>2
      <4>4. g[s] = F[<<f[s \ {n + 1}], t[n + 1]>>]
        BY <3>1
      <4> QED
        BY <4>1, <4>3, <4>4
    <3>2. CASE n + 1 \notin s
      <4>1. s \in SUBSET (1..n) /\ g[s] = f[s]
        BY <3>2, <2>4
      <4>2. CASE s = {}
        BY <4>1, <4>2, <2>2
      <4>3. CASE s # {}
        <5> DEFINE r == s \ {Max(s)}
        <5>1. r \in SUBSET (1..n)
          BY <4>1
        <5> HIDE DEF r
        <5>3. n + 1 \notin r /\ r \in SUBSET (1..(n + 1))
          BY <5>1
        <5>4. g[r] = f[r]
          BY <5>3
        <5>2. g[s \ {Max(s)}] = f[s \ {Max(s)}]
          BY <5>4 DEF r
        <5> QED
          BY <4>1, <4>3, <5>2, <2>2
      <4> QED
        BY <4>2, <4>3
    <3> QED
      BY <3>1, <3>2
  <2>7. FoldsOver(g, F, base, t, 1..(n + 1))
    <3> HIDE DEF g
    <3>1. g = [s \in SUBSET (1..(n + 1)) |-> g[s]]
      BY <2>5
    <3> QED
      BY <2>6, <3>1 DEF FoldsOver
  <2> QED
    BY <2>5, <2>7
<1> HIDE DEF Has
<1>4. \A n \in Nat : n \in Good => n + 1 \in Good
  BY <1>1, <1>3
<1> HIDE DEF Good
<1>5. \A n \in Nat : n \in Good
  BY <1>2, <1>4, Induction
<1>6. Has(Len(t))
  BY <1>1, <1>5 DEF Good
<1> QED
  BY <1>1, <1>6 DEF Has

\* g is what F makes of base, one member of t after the other.
StepsOf(g, F, base, t) ==
  g[0] = base /\ \A i \in 1..Len(t) : g[i] = F[<<g[i - 1], t[i]>>]

\* What such a fold makes of t is reached in steps, one for each member.
LEMMA FoldSteps ==
  ASSUME NEW K, NEW E, NEW F, FoldsInto(F, K, E), NEW base \in K, NEW t \in Seq(E),
         NEW f, FoldsOver(f, F, base, t, DOMAIN t)
  PROVE  \E g \in [0..Len(t) -> K] : StepsOf(g, F, base, t) /\ g[Len(t)] = f[DOMAIN t]
<1>1. Len(t) \in Nat /\ DOMAIN t = 1..Len(t) /\ \A i \in 1..Len(t) : t[i] \in E
  BY LenProperties, ElementOfSeq
<1> DEFINE g == [i \in 0..Len(t) |-> f[1..i]]
<1>2. \A s \in SUBSET (1..Len(t)) :
        f[s] = IF s = {} THEN base ELSE F[<<f[s \ {Max(s)}], t[Max(s)]>>]
  BY <1>1 DEF FoldsOver
<1>3. g[0] = base
  <2>1. 1..0 = {} /\ 1..0 \in SUBSET (1..Len(t)) /\ 0 \in 0..Len(t)
    BY <1>1
  <2> QED
    BY <1>2, <2>1
<1>4. ASSUME NEW i \in 1..Len(t)
      PROVE  g[i] = F[<<g[i - 1], t[i]>>]
  <2>0. i - 1 \in Nat /\ i - 1 \in 0..Len(t) /\ i \in 0..Len(t) /\ i \in 1..i
    BY <1>1
  <2>4. (1..i) \ {i} = 1..(i - 1)
    <3>1. i \in Nat
      BY <1>1
    <3>2. \A k : k \in (1..i) \ {i} <=> k \in 1..(i - 1)
      BY <3>1
    <3> QED
      BY <3>2
  <2>5. 1..i \in SUBSET (1..Len(t)) /\ 1..i # {}
    <3>1. i \in Nat /\ i <= Len(t) /\ i \in 1..i
      BY <1>1
    <3>2. \A k \in 1..i : k \in 1..Len(t)
      BY <1>1, <3>1
    <3> QED
      BY <3>1, <3>2
  <2>1. 1..i \in SUBSET (1..Len(t)) /\ 1..i # {} /\ (1..i) \ {i} = 1..(i - 1)
        /\ i - 1 \in Nat /\ i - 1 \in 0..Len(t) /\ i \in 0..Len(t) /\ i \in 1..i
    BY <2>0, <2>4, <2>5
  <2>2. Max(1..i) = i
    <3> DEFINE n == i - 1
    <3>1. n \in Nat /\ i = n + 1 /\ 1..i \in SUBSET (1..(n + 1))
      BY <2>1
    <3> QED
      BY <2>1, <3>1, MaxOfPlaces
  <2>3. f[1..i] = F[<<f[(1..i) \ {i}], t[i]>>]
    BY <1>2, <2>1, <2>2
  <2> QED
    BY <2>1, <2>3
<1>5. \A i \in 0..Len(t) : g[i] \in K
  <2> DEFINE Good == {n \in Nat : n <= Len(t) => g[n] \in K}
  <2>1. 0 \in Good
    BY <1>1, <1>3
  <2>2. ASSUME NEW n \in Nat, n \in Good
        PROVE  n + 1 \in Good
    <3> HIDE DEF g
    <3> SUFFICES ASSUME n + 1 <= Len(t) PROVE g[n + 1] \in K
      OBVIOUS
    <3>1. g[n] \in K /\ n + 1 \in 1..Len(t) /\ (n + 1) - 1 = n
      BY <1>1, <2>2
    <3>2. g[n + 1] = F[<<g[n], t[n + 1]>>] /\ t[n + 1] \in E
      BY <1>1, <1>4, <3>1
    <3> QED
      BY <3>1, <3>2 DEF FoldsInto
  <2> HIDE DEF Good
  <2>3. \A n \in Nat : n \in Good
    BY <2>1, <2>2, Induction
  <2>4. \A n \in Nat : n <= Len(t) => g[n] \in K
    BY <2>3 DEF Good
  <2> HIDE DEF g
  <2> QED
    BY <1>1, <2>4
<1>6. g \in [0..Len(t) -> K] /\ g[Len(t)] = f[DOMAIN t]
  BY <1>1, <1>5
<1>7. StepsOf(g, F, base, t)
  BY <1>3, <1>4 DEF StepsOf
<1> HIDE DEF g
<1> QED
  BY <1>6, <1>7

\* The steps of two folds that begin alike are alike.
LEMMA SameSteps ==
  ASSUME NEW n \in Nat, NEW g, NEW h, g[0] = h[0],
         \A i \in 1..n : g[i - 1] = h[i - 1] => g[i] = h[i]
  PROVE  g[n] = h[n]
<1> DEFINE Good == {k \in Nat : k <= n => g[k] = h[k]}
<1>1. 0 \in Good
  OBVIOUS
<1>2. ASSUME NEW k \in Nat, k \in Good
      PROVE  k + 1 \in Good
  <2>1. k + 1 <= n => k + 1 \in 1..n /\ (k + 1) - 1 = k /\ k <= n
    OBVIOUS
  <2> QED
    BY <1>2, <2>1
<1> HIDE DEF Good
<1>3. \A k \in Nat : k \in Good
  BY <1>1, <1>2, Induction
<1> QED
  BY <1>3 DEF Good

\* What is folded is in K, and one member more is one application more.
LEMMA FoldMore ==
  ASSUME NEW K, NEW E, NEW F, FoldsInto(F, K, E), NEW base \in K, NEW t \in Seq(E),
         NEW x \in E, NEW f, FoldsOver(f, F, base, t, DOMAIN t),
         NEW h, FoldsOver(h, F, base, Append(t, x), DOMAIN Append(t, x))
  PROVE  /\ f[DOMAIN t] \in K
         /\ h[DOMAIN Append(t, x)] = F[<<f[DOMAIN t], x>>]
<1> DEFINE u == Append(t, x)
           n == Len(t)
<1>1. /\ n \in Nat /\ u \in Seq(E) /\ Len(u) = n + 1 /\ u[n + 1] = x
      /\ \A i \in 1..n : u[i] = t[i]
  BY LenProperties, AppendProperties
<1>2. FoldsOver(h, F, base, u, DOMAIN u)
  OBVIOUS
<1> HIDE DEF u
<1>3. PICK a \in [0..Len(t) -> K] : StepsOf(a, F, base, t) /\ a[Len(t)] = f[DOMAIN t]
  BY FoldSteps
<1>4. PICK b \in [0..Len(u) -> K] : StepsOf(b, F, base, u) /\ b[Len(u)] = h[DOMAIN u]
  <2>1. u \in Seq(E)
    BY <1>1
  <2> QED
    BY <1>2, <2>1, FoldSteps
<1> HIDE DEF n
<1>5. /\ \A i \in 1..n : a[i] = F[<<a[i - 1], t[i]>>] /\ b[i] = F[<<b[i - 1], t[i]>>]
      /\ b[n + 1] = F[<<b[n], x>>]
  <2>1. n + 1 \in 1..(n + 1) /\ (n + 1) - 1 = n /\ \A i \in 1..n : i \in 1..(n + 1)
    BY <1>1
  <2>2. \A i \in 1..(n + 1) : b[i] = F[<<b[i - 1], u[i]>>]
    BY <1>1, <1>4 DEF StepsOf
  <2>3. \A i \in 1..n : a[i] = F[<<a[i - 1], t[i]>>]
    BY <1>3 DEF n, StepsOf
  <2>4. b[n + 1] = F[<<b[n], u[n + 1]>>]
    BY <2>1, <2>2
  <2>5. \A i \in 1..n : b[i] = F[<<b[i - 1], t[i]>>]
    BY <1>1, <2>1, <2>2
  <2> QED
    BY <1>1, <2>3, <2>4, <2>5
<1>6. a[n] = b[n]
  <2>1. \A i \in 1..n : a[i - 1] = b[i - 1] => a[i] = b[i]
    BY <1>5
  <2>2. a[0] = b[0]
    BY <1>3, <1>4 DEF StepsOf
  <2> QED
    BY <1>1, <2>1, <2>2, SameSteps
<1>7. f[DOMAIN t] = a[n] /\ a[n] \in K
  <2>1. Len(t) \in 0..Len(t)
    BY <1>1 DEF n
  <2> QED
    BY <1>3, <2>1 DEF n
<1>8. h[DOMAIN u] = b[n + 1]
  BY <1>1, <1>4
<1> QED
  BY <1>5, <1>6, <1>7, <1>8 DEF u

\* A function of sets of places that stays in K when the largest place is added to
\* the others never leaves K.
LEMMA FoldStays ==
  ASSUME NEW K, NEW n \in Nat, NEW f, f[{}] \in K,
         \A s \in SUBSET (1..n) : s # {} /\ f[s \ {Max(s)}] \in K => f[s] \in K
  PROVE  \A s \in SUBSET (1..n) : f[s] \in K
<1> DEFINE Good == {m \in Nat : m <= n => \A s \in SUBSET (1..m) : f[s] \in K}
<1>1. 0 \in Good
  <2>1. \A s \in SUBSET (1..0) : s = {}
    OBVIOUS
  <2> QED
    BY <2>1
<1>2. ASSUME NEW m \in Nat, m \in Good, m + 1 <= n, NEW s \in SUBSET (1..(m + 1))
      PROVE  f[s] \in K
  <2>0. m <= n
    BY <1>2
  <2>1. \A r \in SUBSET (1..m) : f[r] \in K
    BY <1>2, <2>0
  <2>2. CASE m + 1 \notin s
    <3>1. s \in SUBSET (1..m)
      BY <2>2
    <3> QED
      BY <2>1, <3>1
  <2>3. CASE m + 1 \in s
    <3>1. Max(s) = m + 1 /\ s # {}
      BY <2>3, MaxOfPlaces
    <3>2. s \ {m + 1} \in SUBSET (1..m)
      OBVIOUS
    <3>3. s \in SUBSET (1..n)
      BY <1>2
    <3> QED
      BY <2>1, <3>1, <3>2, <3>3
  <2> QED
    BY <2>2, <2>3
<1>3. \A m \in Nat : m \in Good => m + 1 \in Good
  <2> SUFFICES ASSUME NEW m \in Nat, m \in Good, m + 1 <= n
               PROVE  \A s \in SUBSET (1..(m + 1)) : f[s] \in K
    OBVIOUS
  <2> HIDE DEF Good
  <2> QED
    BY <1>2
<1> HIDE DEF Good
<1>4. \A m \in Nat : m \in Good
  BY <1>1, <1>3, Induction
<1>5. n <= n
  OBVIOUS
<1> QED
  BY <1>4, <1>5 DEF Good

\* A set that has the empty sequence, and with a sequence every longer one by one
\* member, has every sequence of S.
LEMMA Growing ==
  ASSUME NEW S, NEW P, <<>> \in P,
         \A s \in Seq(S), x \in S : s \in P => Append(s, x) \in P
  PROVE  \A s \in Seq(S) : s \in P
<1> DEFINE Good == {n \in Nat : \A s \in Seq(S) : Len(s) = n => s \in P}
<1>1. 0 \in Good
  BY EmptySeq
<1>2. ASSUME NEW n \in Nat, n \in Good, NEW s \in Seq(S), Len(s) = n + 1
      PROVE  s \in P
  <2> DEFINE front == SubSeq(s, 1, n)
  <2>1. front \in Seq(S) /\ Len(front) = n /\ \A i \in 1..n : front[i] = s[i]
    BY <1>2, SubSeqFacts
  <2>2. s[n + 1] \in S
    BY <1>2, ElementOfSeq
  <2> HIDE DEF front
  <2>3. Append(front, s[n + 1]) = s
    <3>1. /\ Append(front, s[n + 1]) \in Seq(S) /\ Len(Append(front, s[n + 1])) = n + 1
          /\ \A i \in 1..(n + 1) : Append(front, s[n + 1])[i] = s[i]
      BY <2>1, <2>2, AppendProperties
    <3> QED
      BY <1>2, <3>1, SeqEqual
  <2> QED
    BY <1>2, <2>1, <2>2, <2>3
<1> HIDE DEF Good
<1>3. \A n \in Nat : n \in Good => n + 1 \in Good
  BY <1>2 DEF Good
<1>4. \A n \in Nat : n \in Good
  BY <1>1, <1>3, Induction
<1> QED
  BY <1>4, LenProperties DEF Good

\* All but the last member, and the last one.
LEMMA FrontLast ==
  ASSUME NEW S, NEW s \in Seq(S), NEW x \in S
  PROVE  /\ Front(s) \in Seq(S)
         /\ Append(s, x) # <<>> /\ Len(Append(s, x)) = Len(s) + 1
         /\ Front(Append(s, x)) = s /\ Last(Append(s, x)) = x
         /\ s # <<>> => /\ Len(Front(s)) = Len(s) - 1 /\ Last(s) \in S
                        /\ Append(Front(s), Last(s)) = s
<1>1. Len(s) \in Nat /\ (s = <<>> <=> Len(s) = 0) /\ \A i \in 1..Len(s) : s[i] \in S
  BY LenProperties, EmptySeq, ElementOfSeq
<1>2. /\ Append(s, x) \in Seq(S) /\ Len(Append(s, x)) = Len(s) + 1
      /\ Append(s, x)[Len(s) + 1] = x /\ \A i \in 1..Len(s) : Append(s, x)[i] = s[i]
  BY AppendProperties
<1> DEFINE n == Len(s)
           u == Append(s, x)
           front == SubSeq(s, 1, n - 1)
<1> HIDE DEF u
<1>3. Front(u) = s
  <2>1. /\ SubSeq(u, 1, n) \in Seq(S) /\ Len(SubSeq(u, 1, n)) = n
        /\ \A i \in 1..n : SubSeq(u, 1, n)[i] = u[i]
    <3>1. u \in Seq(S) /\ n \in Nat /\ n <= Len(u) /\ n - 1 + 1 = n
      BY <1>1, <1>2 DEF u
    <3> QED
      BY <3>1, SubSeqFacts
  <2>2. SubSeq(u, 1, n) = s
    BY <1>2, <2>1, SeqEqual DEF u
  <2>3. Len(u) - 1 = n
    BY <1>1, <1>2 DEF u
  <2> QED
    BY <2>2, <2>3 DEF Front
<1>4. Last(u) = x /\ u # <<>>
  BY <1>1, <1>2, EmptySeq DEF Last, u
<1>5. CASE s = <<>>
  <2>1. Front(s) = <<>>
    BY <1>1, <1>5, SubSeqEmpty DEF Front
  <2> QED
    BY <1>2, <1>3, <1>4, <1>5, <2>1, EmptySeq DEF u
<1>6. CASE s # <<>>
  <2>1. n - 1 \in Nat /\ n \in 1..n
    BY <1>1, <1>6
  <2>2. /\ front \in Seq(S) /\ Len(front) = n - 1
        /\ \A i \in 1..(n - 1) : front[i] = s[i]
    <3> DEFINE k == n - 1
    <3>3. k \in Nat /\ k <= Len(s)
      BY <1>1, <2>1
    <3>1. k \in Nat /\ k <= Len(s) /\ (1 <= k => k - 1 + 1 = k) /\ (~(1 <= k) => k = 0)
      <4> HIDE DEF k
      <4> QED
        BY <3>3
    <3> HIDE DEF k
    <3>2. /\ SubSeq(s, 1, k) \in Seq(S) /\ Len(SubSeq(s, 1, k)) = k
          /\ \A i \in 1..k : SubSeq(s, 1, k)[i] = s[i]
      BY <3>1, SubSeqFacts
    <3> QED
      BY <3>2 DEF k
  <2>3. Front(s) = front
    BY DEF Front
  <2>4. Last(s) = s[n] /\ s[n] \in S
    BY <1>1, <2>1 DEF Last
  <2> HIDE DEF front
  <2>5. Append(front, s[n]) = s
    <3>1. /\ Append(front, s[n]) \in Seq(S) /\ Len(Append(front, s[n])) = (n - 1) + 1
          /\ Append(front, s[n])[(n - 1) + 1] = s[n]
          /\ \A i \in 1..(n - 1) : Append(front, s[n])[i] = front[i]
      BY <2>2, <2>4, AppendProperties
    <3>2. \A i \in 1..n : Append(front, s[n])[i] = s[i]
      BY <2>1, <2>2, <3>1
    <3>3. Len(Append(front, s[n])) = n
      BY <2>1, <3>1
    <3> QED
      BY <3>1, <3>2, <3>3, SeqEqual
  <2> QED
    BY <1>2, <1>3, <1>4, <2>2, <2>3, <2>4, <2>5 DEF u
<1> QED
  BY <1>5, <1>6

----------------------------------------------------------------------------
(* What FlattenSeq makes of the texts of a sequence.                       *)

\* f tells what the first of the texts ss are together.
Flattens(f, ss) ==
  f = [i \in 1..Len(ss) |-> IF i = 1 THEN ss[i] ELSE f[i - 1] \o ss[i]]

\* FlattenSeq, of one text and more.
LEMMA FlattenUnfolds ==
  ASSUME NEW ss, Len(ss) # 0
  PROVE  FlattenSeq(ss) = (CHOOSE f : Flattens(f, ss))[Len(ss)]
BY DEF FlattenSeq, Flattens

\* There is such an f.
LEMMA FlattenExists ==
  ASSUME NEW S, NEW ss \in Seq(Seq(S))
  PROVE  \E f \in [1..Len(ss) -> Seq(S)] : Flattens(f, ss)
<1>1. Len(ss) \in Nat /\ \A i \in 1..Len(ss) : ss[i] \in Seq(S)
  BY LenProperties, ElementOfSeq
<1> DEFINE Joins(f, n) ==
             f = [i \in 1..n |-> IF i = 1 THEN ss[i] ELSE f[i - 1] \o ss[i]]
           Has(n) == \E f \in [1..n -> Seq(S)] : Joins(f, n)
           Good == {n \in Nat : n <= Len(ss) => Has(n)}
<1>2. 0 \in Good
  <2> DEFINE f == [i \in 1..0 |-> <<>>]
  <2>1. f \in [1..0 -> Seq(S)] /\ Joins(f, 0)
    OBVIOUS
  <2>2. Has(0)
    BY <2>1
  <2> HIDE DEF Has
  <2> QED
    BY <2>2
<1>3. ASSUME NEW n \in Nat, n <= Len(ss) => Has(n), n + 1 <= Len(ss)
      PROVE  Has(n + 1)
  <2>1. n <= Len(ss) /\ n + 1 \in 1..Len(ss)
    BY <1>1, <1>3
  <2>2. PICK f \in [1..n -> Seq(S)] : Joins(f, n)
    <3> HIDE DEF Joins
    <3> QED
      BY <1>3, <2>1
  <2>3. ss[n + 1] \in Seq(S)
    BY <1>1, <2>1
  <2>4. \A i \in 1..n : f[i] = IF i = 1 THEN ss[i] ELSE f[i - 1] \o ss[i]
    BY <2>2
  <2> DEFINE more == IF n = 0 THEN ss[n + 1] ELSE f[n] \o ss[n + 1]
             g == [i \in 1..(n + 1) |-> IF i = n + 1 THEN more ELSE f[i]]
  <2>5. more \in Seq(S)
    BY <2>3, ConcatProperties
  <2>6. /\ \A i \in 1..n : g[i] = f[i] /\ i \in 1..(n + 1) /\ (i # 1 => i - 1 \in 1..n)
        /\ g[n + 1] = more
    <3> HIDE DEF more
    <3>1. \A i \in 1..n : i # n + 1 /\ i \in 1..(n + 1) /\ (i # 1 => i - 1 \in 1..n)
      OBVIOUS
    <3>2. n + 1 \in 1..(n + 1)
      OBVIOUS
    <3>3. \A i \in 1..n : g[i] = f[i]
      BY <3>1
    <3>4. g[n + 1] = more
      BY <3>2
    <3> QED
      BY <3>1, <3>3, <3>4
  <2> HIDE DEF more
  <2>7. g \in [1..(n + 1) -> Seq(S)]
    BY <2>5
  <2>8. ASSUME NEW i \in 1..(n + 1)
        PROVE  g[i] = IF i = 1 THEN ss[i] ELSE g[i - 1] \o ss[i]
    <3> HIDE DEF g
    <3>1. CASE i \in 1..n
      BY <2>4, <2>6, <3>1
    <3>2. CASE i = n + 1 /\ n = 0
      BY <2>6, <3>2 DEF more
    <3>3. CASE i = n + 1 /\ n # 0
      <4>1. n \in 1..n /\ i # 1 /\ i - 1 = n
        BY <3>3
      <4>2. g[n] = f[n] /\ g[i] = f[n] \o ss[i]
        BY <2>6, <3>3, <4>1 DEF more
      <4> QED
        BY <4>1, <4>2
    <3>4. i \in 1..n \/ i = n + 1
      OBVIOUS
    <3> QED
      BY <3>1, <3>2, <3>3, <3>4
  <2>9. Joins(g, n + 1)
    <3> HIDE DEF g
    <3>1. g = [i \in 1..(n + 1) |-> g[i]]
      BY <2>7
    <3> QED
      BY <2>8, <3>1
  <2> HIDE DEF g, Joins
  <2> QED
    BY <2>7, <2>9
<1> HIDE DEF Has
<1>4. \A n \in Nat : n \in Good => n + 1 \in Good
  BY <1>1, <1>3
<1> HIDE DEF Good
<1>5. \A n \in Nat : n \in Good
  BY <1>2, <1>4, Induction
<1>6. Has(Len(ss))
  BY <1>1, <1>5 DEF Good
<1> QED
  BY <1>6 DEF Has, Flattens

\* One text more is behind the others.
LEMMA FlattenFacts ==
  ASSUME NEW S, NEW ss \in Seq(Seq(S))
  PROVE  /\ FlattenSeq(ss) \in Seq(S)
         /\ FlattenSeq(<<>>) = <<>>
         /\ \A x \in Seq(S) : FlattenSeq(Append(ss, x)) = FlattenSeq(ss) \o x
<1>1. /\ Len(ss) \in Nat /\ \A i \in 1..Len(ss) : ss[i] \in Seq(S)
      /\ ss = <<>> <=> Len(ss) = 0
  BY LenProperties, ElementOfSeq, EmptySeq
<1>2. FlattenSeq(<<>>) = <<>>
  BY DEF FlattenSeq
<1> DEFINE n == Len(ss)
           f == CHOOSE h : Flattens(h, ss)
<1>3. PICK h \in [1..n -> Seq(S)] : Flattens(h, ss)
  BY FlattenExists
<1>4. Flattens(f, ss)
  BY <1>3
<1> HIDE DEF f
<1>5. \A i \in 1..n : f[i] = IF i = 1 THEN ss[i] ELSE f[i - 1] \o ss[i]
  BY <1>4 DEF Flattens
<1>6. n # 0 => FlattenSeq(ss) = f[n]
  BY FlattenUnfolds DEF f
<1> HIDE DEF n
<1>7. \A i \in 1..n : f[i] \in Seq(S)
  <2> DEFINE Good == {k \in Nat : k \in 1..n => f[k] \in Seq(S)}
  <2>1. 0 \in Good
    OBVIOUS
  <2>2. ASSUME NEW k \in Nat, k \in Good
        PROVE  k + 1 \in Good
    <3> SUFFICES ASSUME k + 1 \in 1..n PROVE f[k + 1] \in Seq(S)
      OBVIOUS
    <3>1. ss[k + 1] \in Seq(S)
      BY <1>1 DEF n
    <3>2. CASE k = 0
      BY <1>5, <3>1, <3>2
    <3>3. CASE k # 0
      <4>1. k \in 1..n /\ (k + 1) - 1 = k /\ k + 1 # 1
        BY <1>1, <3>3 DEF n
      <4>2. f[k] \in Seq(S) /\ f[k + 1] = f[k] \o ss[k + 1]
        BY <1>5, <2>2, <4>1
      <4> QED
        BY <3>1, <4>2, ConcatProperties
    <3> QED
      BY <3>2, <3>3
  <2> HIDE DEF Good
  <2>3. \A k \in Nat : k \in Good
    BY <2>1, <2>2, Induction
  <2> QED
    BY <1>1, <2>3 DEF Good, n
<1>8. FlattenSeq(ss) \in Seq(S)
  <2>1. CASE n = 0
    BY <1>1, <1>2, <2>1, EmptySeq DEF n
  <2>2. CASE n # 0
    <3>1. n \in 1..n
      BY <1>1, <2>2 DEF n
    <3> QED
      BY <1>6, <1>7, <2>2, <3>1
  <2> QED
    BY <2>1, <2>2
<1>9. ASSUME NEW x \in Seq(S)
      PROVE  FlattenSeq(Append(ss, x)) = FlattenSeq(ss) \o x
  <2> DEFINE u == Append(ss, x)
             e == CHOOSE d : Flattens(d, u)
  <2>1. /\ u \in Seq(Seq(S)) /\ Len(u) = n + 1 /\ u[n + 1] = x
        /\ \A i \in 1..n : u[i] = ss[i]
    BY AppendProperties DEF n
  <2> HIDE DEF u
  <2>2. n \in Nat
    BY <1>1 DEF n
  <2>3. FlattenSeq(u) = e[n + 1]
    BY <2>1, <2>2, FlattenUnfolds
  <2>4. Flattens(e, u)
    BY <2>1, FlattenExists
  <2> HIDE DEF e
  <2>5. \A i \in 1..(n + 1) : e[i] = IF i = 1 THEN u[i] ELSE e[i - 1] \o u[i]
    BY <2>1, <2>4 DEF Flattens
  <2>6. CASE n = 0
    <3>1. e[1] = x /\ ss = <<>>
      BY <1>1, <2>1, <2>5, <2>6 DEF n
    <3> QED
      BY <1>2, <2>3, <2>6, <3>1, ConcatEmptySeq DEF u
  <2>7. CASE n # 0
    <3>1. e[n + 1] = e[n] \o x
      <4>1. n + 1 \in 1..(n + 1) /\ n + 1 # 1 /\ (n + 1) - 1 = n
        BY <2>2, <2>7
      <4> QED
        BY <2>1, <2>5, <4>1
    <3>2. \A i \in 1..n : i = 1 => e[i] = f[i]
      BY <1>5, <2>1, <2>2, <2>5
    <3>3. \A i \in 1..n : i # 1 /\ e[i - 1] = f[i - 1] => e[i] = f[i]
      BY <1>5, <2>1, <2>2, <2>5
    <3> DEFINE Good == {k \in Nat : k \in 1..n => e[k] = f[k]}
    <3>4. 0 \in Good
      OBVIOUS
    <3>5. ASSUME NEW k \in Nat, k \in Good
          PROVE  k + 1 \in Good
      <4>1. k + 1 \in 1..n /\ k # 0 => k \in 1..n /\ (k + 1) - 1 = k /\ k + 1 # 1
        BY <2>2
      <4> QED
        BY <3>2, <3>3, <3>5, <4>1
    <3> HIDE DEF Good
    <3>6. \A k \in Nat : k \in Good
      BY <3>4, <3>5, Induction
    <3>7. e[n] = f[n]
      BY <2>2, <2>7, <3>6 DEF Good
    <3> QED
      BY <1>6, <2>3, <2>7, <3>1, <3>7 DEF u
  <2> QED
    BY <2>6, <2>7
<1> QED
  BY <1>2, <1>8, <1>9

----------------------------------------------------------------------------
(* Texts put together.                                                    *)

\* A member more behind a concatenation is one behind its second part.
LEMMA ConcatAppend ==
  ASSUME NEW S, NEW s \in Seq(S), NEW t \in Seq(S), NEW x \in S
  PROVE  /\ s \o Append(t, x) = Append(s \o t, x)
         /\ s \o <<x>> = Append(s, x)
<1>1. <<x>> \in Seq(S) /\ t \o <<x>> = Append(t, x) /\ s \o <<x>> = Append(s, x)
  <2>1. <<x>> = Append(<<>>, x) /\ <<>> \in Seq(S)
    BY EmptySeq
  <2> QED
    BY <2>1, AppendProperties, AppendIsConcat
<1>2. s \o t \in Seq(S)
  BY ConcatProperties
<1>3. (s \o t) \o <<x>> = Append(s \o t, x)
  BY <1>2, AppendIsConcat
<1>4. (s \o t) \o <<x>> = s \o (t \o <<x>>)
  BY <1>1, ConcatAssociative
<1> QED
  BY <1>1, <1>3, <1>4

\* The last member replaced.
LEMMA ReplaceLast ==
  ASSUME NEW S, NEW s \in Seq(S), NEW x \in S, NEW y \in S
  PROVE  [Append(s, x) EXCEPT ![Len(Append(s, x))] = y] = Append(s, y)
<1> DEFINE u == Append(s, x)
           v == Append(s, y)
           n == Len(s)
<1>1. /\ n \in Nat /\ u \in Seq(S) /\ Len(u) = n + 1 /\ \A i \in 1..n : u[i] = s[i]
      /\ v \in Seq(S) /\ Len(v) = n + 1 /\ v[n + 1] = y /\ \A i \in 1..n : v[i] = s[i]
  BY LenProperties, AppendProperties
<1> HIDE DEF u, v, n
<1> DEFINE w == [u EXCEPT ![n + 1] = y]
<1>2. /\ w \in Seq(S) /\ Len(w) = Len(u)
      /\ \A j \in 1..Len(u) : w[j] = IF j = n + 1 THEN y ELSE u[j]
  <2>1. n + 1 \in 1..Len(u)
    BY <1>1
  <2> QED
    BY <1>1, <2>1, ExceptSeq
<1> HIDE DEF w
<1>3. w = v
  <2>1. \A j \in 1..Len(w) : w[j] = v[j]
    BY <1>1, <1>2
  <2> QED
    BY <1>1, <1>2, <2>1, SeqEqual
<1> QED
  BY <1>1, <1>3 DEF u, v, w, n

\* The prefixes of prefixes.
LEMMA PrefixOn ==
  ASSUME NEW S, NEW s \in Seq(S), NEW t \in Seq(S), NEW u \in Seq(S)
  PROVE  /\ IsPrefix(s, s) /\ IsPrefix(<<>>, s)
         /\ IsPrefix(s, t) /\ IsPrefix(t, u) => IsPrefix(s, u)
<1>1. Len(s) \in Nat /\ Len(t) \in Nat /\ Len(u) \in Nat
  BY LenProperties
<1>2. IsPrefix(s, s)
  BY <1>1, PrefixFacts
<1>3. IsPrefix(<<>>, s)
  <2> DEFINE e == <<>>
  <2>1. e \in Seq(S) /\ Len(e) = 0
    BY EmptySeq
  <2> HIDE DEF e
  <2>2. Len(e) <= Len(s) /\ \A i \in 1..Len(e) : e[i] = s[i]
    BY <1>1, <2>1
  <2>3. IsPrefix(e, s)
    BY <2>1, <2>2, PrefixFacts
  <2> QED
    BY <2>3 DEF e
<1>4. ASSUME IsPrefix(s, t), IsPrefix(t, u)
      PROVE  IsPrefix(s, u)
  <2>1. Len(s) <= Len(t) /\ \A i \in 1..Len(s) : s[i] = t[i]
    BY <1>4, PrefixFacts
  <2>2. Len(t) <= Len(u) /\ \A i \in 1..Len(t) : t[i] = u[i]
    BY <1>4, PrefixFacts
  <2>3. Len(s) <= Len(u) /\ \A i \in 1..Len(s) : s[i] = u[i]
    BY <1>1, <2>1, <2>2
  <2> QED
    BY <2>3, PrefixFacts
<1> QED
  BY <1>2, <1>3, <1>4

\* A part of a sequence has the elements of the whole.
LEMMA PartsIn ==
  ASSUME NEW D, NEW E, NEW a \in Seq(E), NEW b \in Seq(E), a \o b \in Seq(D)
  PROVE  b \in Seq(D)
<1> DEFINE t == a \o b
           m == Len(a)
           n == Len(b)
<1>1. m \in Nat /\ n \in Nat /\ Len(t) = m + n /\ DOMAIN b = 1..n
  BY LenProperties, ConcatProperties
<1>2. \A i \in 1..n : b[i] = t[m + i]
  <2> SUFFICES ASSUME NEW i \in 1..n PROVE b[i] = t[m + i]
    OBVIOUS
  <2>1. m + i \in 1..(m + n) /\ ~(m + i <= m) /\ (m + i) - m = i
    BY <1>1
  <2> QED
    BY <1>1, <2>1, ConcatProperties
<1>3. \A i \in 1..n : t[m + i] \in D
  <2> SUFFICES ASSUME NEW i \in 1..n PROVE t[m + i] \in D
    OBVIOUS
  <2>1. m + i \in 1..Len(t)
    BY <1>1
  <2>2. t \in Seq(D)
    OBVIOUS
  <2> HIDE DEF t
  <2> QED
    BY <2>1, <2>2, ElementOfSeq
<1> HIDE DEF t, m
<1>4. \A i \in 1..n : b[i] \in D
  BY <1>2, <1>3
<1> QED
  BY <1>1, <1>4, IsASeq

\* A text behind another is what is dropped to.
LEMMA DropConcat ==
  ASSUME NEW S, NEW a \in Seq(S), NEW b \in Seq(S)
  PROVE  IsPrefix(a, a \o b) /\ Drop(Len(a), a \o b) = b
<1> DEFINE u == a \o b
           m == Len(a)
           n == Len(b)
           d == Drop(m, u)
<1>1. m \in Nat /\ n \in Nat
  BY LenProperties
<1>2. /\ u \in Seq(S) /\ Len(u) = m + n
      /\ \A i \in 1..(m + n) : u[i] = IF i <= m THEN a[i] ELSE b[i - m]
  BY ConcatProperties
<1> HIDE DEF u
<1>3. /\ d \in Seq(S) /\ Len(d) = IF m <= Len(u) THEN Len(u) - m ELSE 0
      /\ \A i \in 1..(Len(u) - m) : d[i] = u[m + i]
  <2>1. u \in Seq(S) /\ m \in Nat
    BY <1>1, <1>2
  <2> HIDE DEF m
  <2>2. /\ Drop(m, u) \in Seq(S) /\ Len(Drop(m, u)) = IF m <= Len(u) THEN Len(u) - m ELSE 0
        /\ \A i \in 1..(Len(u) - m) : Drop(m, u)[i] = u[m + i]
    BY <2>1, DropFacts
  <2> QED
    BY <2>2
<1>4. Len(d) = n
  <2> HIDE DEF d, m, n
  <2> QED
    BY <1>1, <1>2, <1>3
<1>5. \A i \in 1..n : d[i] = b[i]
  <2> HIDE DEF d, m, n
  <2> SUFFICES ASSUME NEW i \in 1..n PROVE d[i] = b[i]
    OBVIOUS
  <2>1. i \in 1..(Len(u) - m) /\ m + i \in 1..(m + n) /\ ~(m + i <= m) /\ (m + i) - m = i
    BY <1>1, <1>2
  <2>2. d[i] = u[m + i]
    BY <1>3, <2>1
  <2>3. u[m + i] = b[(m + i) - m]
    BY <1>2, <2>1
  <2> QED
    BY <2>1, <2>2, <2>3
<1>6. d = b
  <2> HIDE DEF d
  <2> QED
    BY <1>3, <1>4, <1>5, SeqEqual
<1>7. IsPrefix(a, u)
  <2>1. Len(a) <= Len(u) /\ \A i \in 1..Len(a) : a[i] = u[i]
    BY <1>1, <1>2
  <2> QED
    BY <1>2, <2>1, PrefixFacts
<1> QED
  BY <1>6, <1>7 DEF u, m, d

\* A text with a prefix is the prefix and what is behind it.
LEMMA PrefixDrop ==
  ASSUME NEW S, NEW a \in Seq(S), NEW t \in Seq(S), IsPrefix(a, t)
  PROVE  Drop(Len(a), t) \in Seq(S) /\ t = a \o Drop(Len(a), t)
<1> DEFINE m == Len(a)
           k == Len(t)
           d == Drop(m, t)
           u == a \o d
<1>1. m \in Nat /\ k \in Nat /\ m <= k /\ \A i \in 1..m : a[i] = t[i]
  BY LenProperties, PrefixFacts
<1>2. /\ d \in Seq(S) /\ Len(d) = IF m <= k THEN k - m ELSE 0
      /\ \A i \in 1..(k - m) : d[i] = t[m + i]
  <2> HIDE DEF m
  <2> QED
    BY <1>1, DropFacts
<1> HIDE DEF d
<1>3. /\ u \in Seq(S) /\ Len(u) = m + Len(d)
      /\ \A i \in 1..(m + Len(d)) : u[i] = IF i <= m THEN a[i] ELSE d[i - m]
  BY <1>2, ConcatProperties
<1> HIDE DEF u, m, k
<1>4. Len(u) = k
  BY <1>1, <1>2, <1>3
<1>5. \A i \in 1..k : t[i] = u[i]
  <2> SUFFICES ASSUME NEW i \in 1..k PROVE t[i] = u[i]
    OBVIOUS
  <2>1. u[i] = IF i <= m THEN a[i] ELSE d[i - m]
    BY <1>1, <1>2, <1>3
  <2>2. CASE i <= m
    BY <1>1, <2>1, <2>2
  <2>3. CASE ~(i <= m)
    <3>1. i - m \in 1..(k - m) /\ m + (i - m) = i
      BY <1>1, <2>3
    <3> QED
      BY <1>2, <2>1, <2>3, <3>1
  <2> QED
    BY <2>2, <2>3
<1>6. t = u
  <2>1. Len(t) = Len(u) /\ \A i \in 1..Len(t) : t[i] = u[i]
    BY <1>4, <1>5 DEF k
  <2> QED
    BY <1>3, <2>1, SeqEqual
<1> QED
  BY <1>2, <1>6 DEF u, d, m

----------------------------------------------------------------------------
(* A text put together, and cut again at a piece of it.                    *)

\* A sequence over a set is one over a larger set.
LEMMA SeqInto ==
  ASSUME NEW S, NEW T, S \subseteq T, NEW s \in Seq(S)
  PROVE  s \in Seq(T)
BY SeqMonotonic

\* The members of a concatenation.
Concatenated(u, a, b) ==
  /\ Len(u) = Len(a) + Len(b) /\ Len(a) \in Nat /\ Len(b) \in Nat /\ Len(u) \in Nat
  /\ \A i \in 1..Len(a) : u[i] = a[i]
  /\ \A i \in 1..Len(b) : u[Len(a) + i] = b[i]

\* The places of two texts in what they make together.
LEMMA ConcatAt ==
  ASSUME NEW S, NEW a \in Seq(S), NEW b \in Seq(S)
  PROVE  a \o b \in Seq(S) /\ Concatenated(a \o b, a, b)
<1>1. /\ a \o b \in Seq(S) /\ Len(a \o b) = Len(a) + Len(b)
      /\ \A i \in 1..(Len(a) + Len(b)) : (a \o b)[i] = IF i <= Len(a) THEN a[i] ELSE b[i - Len(a)]
  BY ConcatProperties
<1>2. Len(a) \in Nat /\ Len(b) \in Nat
  BY LenProperties
<1>3. \A i \in 1..Len(a) : (a \o b)[i] = a[i]
  BY <1>1, <1>2
<1>4. ASSUME NEW i \in 1..Len(b)
      PROVE  (a \o b)[Len(a) + i] = b[i]
  <2>1. Len(a) + i \in 1..(Len(a) + Len(b)) /\ ~(Len(a) + i <= Len(a)) /\ Len(a) + i - Len(a) = i
    BY <1>2
  <2> QED
    BY <1>1, <2>1
<1> QED
  BY <1>1, <1>2, <1>3, <1>4 DEF Concatenated

\* A stretch of a text.
LEMMA Stretch ==
  ASSUME NEW S, NEW s \in Seq(S), NEW w \in Seq(S), NEW a \in Nat, a >= 1,
         a + Len(w) <= Len(s) + 1, \A i \in 1..Len(w) : s[a - 1 + i] = w[i]
  PROVE  SubSeq(s, a, a + Len(w) - 1) = w
<1>1. Len(s) \in Nat /\ Len(w) \in Nat
  BY LenProperties
<1> DEFINE b == a + Len(w) - 1
           u == SubSeq(s, a, b)
<1>2. b \in Nat /\ b <= Len(s)
  BY <1>1
<1>3. b - a + 1 = Len(w)
  BY <1>1
<1> HIDE DEF b
<1>4. /\ u \in Seq(S) /\ Len(u) = IF a <= b THEN b - a + 1 ELSE 0
      /\ \A i \in 1..(b - a + 1) : u[i] = s[a + i - 1]
  BY <1>1, <1>2, SubSeqFacts
<1> HIDE DEF u
<1>5. Len(u) = Len(w)
  BY <1>1, <1>2, <1>3, <1>4
<1>6. \A i \in 1..Len(w) : u[i] = w[i]
  <2> SUFFICES ASSUME NEW i \in 1..Len(w) PROVE u[i] = w[i]
    OBVIOUS
  <2>1. a + i - 1 = a - 1 + i
    BY <1>1
  <2> QED
    BY <1>3, <1>4, <2>1
<1>7. u = w
  BY <1>4, <1>5, <1>6, SeqEqual
<1> QED
  BY <1>7 DEF u, b

\* A text is cut at a piece that is not in what stands before it.
LEMMA CutAt ==
  ASSUME NEW S, NEW x \in S, NEW a \in Seq(S), NEW b \in Seq(S), \A i \in 1..Len(a) : a[i] # x
  PROVE  /\ Found(<<x>>, (a \o <<x>>) \o b)
         /\ Before(<<x>>, (a \o <<x>>) \o b) = a
         /\ Behind(<<x>>, (a \o <<x>>) \o b) = b
<1> DEFINE p == <<x>>
           u == a \o p
           s == u \o b
<1>1. p \in Seq(S) /\ Len(p) = 1 /\ p[1] = x
  OBVIOUS
<1>2. \A q \in Seq(S) : \A i : i \in Occurrences(p, q) <=> i \in 1..Len(q) /\ q[i] = x
  BY OccursOne
<1> HIDE DEF p
<1>3. /\ u \in Seq(S) /\ Len(u) = Len(a) + 1 /\ Len(a) \in Nat
      /\ \A i \in 1..Len(a) : u[i] = a[i]
      /\ u[Len(a) + 1] = x
  <2>1. /\ u \in Seq(S) /\ Len(u) = Len(a) + Len(p) /\ Len(a) \in Nat
        /\ \A i \in 1..Len(a) : u[i] = a[i]
        /\ \A i \in 1..Len(p) : u[Len(a) + i] = p[i]
    <3>1. u \in Seq(S) /\ Concatenated(u, a, p)
      BY <1>1, ConcatAt
    <3> QED
      BY <3>1 DEF Concatenated
  <2> QED
    BY <1>1, <2>1
<1> HIDE DEF u
<1>4. /\ s \in Seq(S) /\ Len(s) = Len(u) + Len(b) /\ Len(b) \in Nat
      /\ \A i \in 1..Len(u) : s[i] = u[i]
  <2>1. s \in Seq(S) /\ Concatenated(s, u, b)
    BY <1>3, ConcatAt
  <2> QED
    BY <2>1 DEF Concatenated
<1>5. Drop(Len(u), s) = b
  BY <1>3, DropConcat
<1> HIDE DEF s
<1> DEFINE n == Len(a) + 1
<1>6. n \in Occurrences(p, s) /\ \A i \in Occurrences(p, s) : n <= i
  <2>1. n \in 1..Len(s) /\ n \in 1..Len(u)
    BY <1>3, <1>4
  <2>2. n \in Occurrences(p, s)
    BY <1>2, <1>3, <1>4, <2>1
  <2>3. ASSUME NEW i \in Occurrences(p, s)
        PROVE  n <= i
    <3>1. i \in 1..Len(s) /\ s[i] = x
      BY <1>2, <1>4
    <3>2. i \notin 1..Len(a)
      <4> SUFFICES ASSUME i \in 1..Len(a) PROVE FALSE
        OBVIOUS
      <4>1. i \in 1..Len(u)
        BY <1>3
      <4> QED
        BY <1>3, <1>4, <3>1, <4>1
    <3> QED
      BY <1>3, <1>4, <3>1, <3>2
  <2> QED
    BY <2>2, <2>3
<1>7. Found(p, s) /\ Find(p, s) = n
  <2> HIDE DEF n
  <2> QED
    BY <1>1, <1>4, <1>6, FoundAt
<1>8. Before(p, s) = a
  <2>1. Before(p, s) = SubSeq(s, 1, Len(a))
    <3>1. n - 1 = Len(a)
      BY <1>3
    <3> HIDE DEF n
    <3> QED
      BY <1>7, <3>1 DEF Before
  <2> DEFINE one == 1
  <2>2. one \in Nat /\ one >= 1 /\ one + Len(a) <= Len(s) + 1 /\ one + Len(a) - 1 = Len(a)
    BY <1>3, <1>4
  <2>3. \A i \in 1..Len(a) : s[one - 1 + i] = a[i]
    <3>1. \A i \in 1..Len(a) : i \in 1..Len(u) /\ one - 1 + i = i
      BY <1>3
    <3> QED
      BY <1>3, <1>4, <3>1
  <2>4. SubSeq(s, 1, Len(a)) = SubSeq(s, one, one + Len(a) - 1)
    BY <2>2
  <2> HIDE DEF one
  <2>5. SubSeq(s, one, one + Len(a) - 1) = a
    BY ONLY <1>4, <2>2, <2>3, a \in Seq(S), Stretch
  <2> QED
    BY <2>1, <2>4, <2>5
<1>9. Behind(p, s) = b
  <2>1. Behind(p, s) = Drop(1, Drop(Len(a), s))
    <3>1. From(p, s) = Drop(Find(p, s) - 1, s)
      BY <1>1, <1>4, <1>7, BeforeFrom
    <3>2. n - 1 = Len(a)
      BY <1>3
    <3> HIDE DEF n
    <3> QED
      BY <1>1, <1>7, <3>1, <3>2 DEF Behind
  <2>2. Drop(1, Drop(Len(a), s)) = Drop(Len(a) + 1, s)
    <3> DEFINE k == Len(a)
               one == 1
    <3>1. k \in 0..Len(s) /\ one \in 0..(Len(s) - k)
      BY <1>3, <1>4
    <3> HIDE DEF k, one
    <3>2. Drop(one, Drop(k, s)) = Drop(k + one, s)
      BY <1>4, <3>1, TakeMore
    <3> QED
      BY <3>2 DEF k, one
  <2> QED
    BY <1>3, <1>5, <2>1, <2>2
<1> QED
  BY <1>7, <1>8, <1>9 DEF s, u, p

\* What is not there is not found.
LEMMA NotThere ==
  ASSUME NEW S, NEW x \in S, NEW s \in Seq(S \ {x})
  PROVE  ~Found(<<x>>, s)
<1> DEFINE T == S \ {x}
<1>1. s \in Seq(T) /\ T \subseteq S /\ x \notin T
  OBVIOUS
<1> HIDE DEF T
<1>2. s \in Seq(S)
  BY <1>1, SeqInto
<1>3. \A i \in 1..Len(s) : s[i] \in T
  BY <1>1, ElementOfSeq
<1>4. \A i : i \in Occurrences(<<x>>, s) <=> i \in 1..Len(s) /\ s[i] = x
  BY <1>2, OccursOne
<1> QED
  BY <1>1, <1>3, <1>4 DEF Found

----------------------------------------------------------------------------
(* Where in a flattened sequence its parts are.                            *)

\* How long the first k of the sequences ss are together.
Reached(ss, k) == Len(FlattenSeq(SubSeq(ss, 1, k)))

\* One part more.
LEMMA FrontMore ==
  ASSUME NEW S, NEW s \in Seq(S), NEW k \in 1..Len(s)
  PROVE  /\ SubSeq(s, 1, k - 1) \in Seq(S) /\ s[k] \in S
         /\ SubSeq(s, 1, k) = Append(SubSeq(s, 1, k - 1), s[k])
<1>1. Len(s) \in Nat /\ \A m \in 1..Len(s) : s[m] \in S
  BY LenProperties, ElementOfSeq
<1> DEFINE a == SubSeq(s, 1, k - 1)
           b == SubSeq(s, 1, k)
           c == Append(a, s[k])
<1>2. a \in Seq(S) /\ Len(a) = k - 1 /\ \A m \in 1..(k - 1) : a[m] = s[m]
  BY <1>1, SubSeqFacts
<1>3. b \in Seq(S) /\ Len(b) = k /\ \A m \in 1..k : b[m] = s[m]
  BY <1>1, SubSeqFacts
<1> HIDE DEF a, b
<1>4. c \in Seq(S) /\ Len(c) = k /\ c[k] = s[k] /\ \A m \in 1..(k - 1) : c[m] = s[m]
  BY <1>1, <1>2, AppendProperties
<1> HIDE DEF c
<1>5. \A m \in 1..k : b[m] = c[m]
  BY <1>3, <1>4
<1>6. b = c
  BY <1>3, <1>4, <1>5, SeqEqual
<1> QED
  BY <1>1, <1>2, <1>6 DEF a, b, c

\* The parts come one after the other, and there is nothing else.
FlatPlaces(ss) ==
  LET flat == FlattenSeq(ss) IN
  /\ Reached(ss, 0) = 0 /\ Reached(ss, Len(ss)) = Len(flat)
  /\ \A k \in 0..Len(ss) : Reached(ss, k) \in Nat /\ Reached(ss, k) <= Len(flat)
  /\ \A k \in 1..Len(ss) :
       /\ Reached(ss, k) = Reached(ss, k - 1) + Len(ss[k])
       /\ \A j \in 1..Len(ss[k]) : flat[Reached(ss, k - 1) + j] = ss[k][j]
  /\ \A p \in 1..Len(flat) :
       \E k \in 1..Len(ss) : p \in Reached(ss, k - 1) + 1 .. Reached(ss, k)

\* That is so of all sequences.
LEMMA FlatParts ==
  ASSUME NEW S, NEW ss \in Seq(Seq(S))
  PROVE  FlatPlaces(ss)
<1> DEFINE n == Len(ss)
           F(k) == FlattenSeq(SubSeq(ss, 1, k))
           R(k) == Len(F(k))
<1>1. n \in Nat /\ \A k \in 1..n : ss[k] \in Seq(S) /\ Len(ss[k]) \in Nat
  BY LenProperties, ElementOfSeq
<1>2. ASSUME NEW k \in 1..n
      PROVE  F(k) = F(k - 1) \o ss[k] /\ F(k - 1) \in Seq(S)
  <2> DEFINE a == SubSeq(ss, 1, k - 1)
             x == ss[k]
  <2>1. a \in Seq(Seq(S)) /\ x \in Seq(S) /\ SubSeq(ss, 1, k) = Append(a, x)
    BY <1>2, FrontMore
  <2> HIDE DEF a, x
  <2>2. FlattenSeq(Append(a, x)) = FlattenSeq(a) \o x /\ FlattenSeq(a) \in Seq(S)
    BY <2>1, FlattenFacts
  <2> QED
    BY <2>1, <2>2 DEF a, x
<1>3. F(0) = <<>> /\ F(n) = FlattenSeq(ss)
  <2>1. SubSeq(ss, 1, 0) = <<>> /\ SubSeq(ss, 1, n) = ss
    BY <1>1, SubSeqEmpty, SubSeqFull
  <2>2. FlattenSeq(<<>>) = <<>>
    BY DEF FlattenSeq
  <2> QED
    BY <2>1, <2>2
<1>4. \A k \in 0..n : F(k) \in Seq(S)
  <2>1. F(0) \in Seq(S)
    BY <1>3, EmptySeq
  <2>2. ASSUME NEW k \in 1..n
        PROVE  F(k) \in Seq(S)
    <3>1. ss[k] \in Seq(S)
      BY <1>1
    <3> HIDE DEF F
    <3> QED
      BY <1>2, <3>1, ConcatProperties
  <2>3. \A k \in 0..n : k = 0 \/ k \in 1..n
    BY <1>1
  <2> HIDE DEF F
  <2> QED
    BY <2>1, <2>2, <2>3
<1> HIDE DEF F, n
<1>5. \A k \in 0..n : R(k) \in Nat
  BY <1>4, LenProperties
<1>6. ASSUME NEW k \in 1..n
      PROVE  /\ R(k) = R(k - 1) + Len(ss[k])
             /\ \A j \in 1..R(k - 1) : F(k)[j] = F(k - 1)[j]
             /\ \A j \in 1..Len(ss[k]) : F(k)[R(k - 1) + j] = ss[k][j]
  <2>1. ss[k] \in Seq(S) /\ F(k - 1) \in Seq(S) /\ F(k) = F(k - 1) \o ss[k]
    BY <1>1, <1>2
  <2>2. Concatenated(F(k), F(k - 1), ss[k])
    BY <2>1, ConcatAt
  <2> QED
    BY <2>2 DEF Concatenated
<1> DEFINE Placed(k) ==
             /\ \A m \in 0..k : R(m) <= R(k)
             /\ \A m \in 1..k : \A j \in 1..Len(ss[m]) : F(k)[R(m - 1) + j] = ss[m][j]
             /\ \A p \in 1..R(k) : \E m \in 1..k : p \in R(m - 1) + 1 .. R(m)
           Good == {k \in Nat : k <= n => Placed(k)}
<1>7. 0 \in Good
  <2>1. R(0) = 0
    BY <1>3, EmptySeq
  <2> HIDE DEF R
  <2> QED
    BY <2>1
<1>8. ASSUME NEW k \in Nat, k \in Good
      PROVE  k + 1 \in Good
  <2> SUFFICES ASSUME k + 1 <= n PROVE Placed(k + 1)
    OBVIOUS
  <2>1. Placed(k) /\ k + 1 \in 1..n /\ (k + 1) - 1 = k
    BY <1>1, <1>8
  <2>2. /\ R(k + 1) = R(k) + Len(ss[k + 1])
        /\ \A j \in 1..R(k) : F(k + 1)[j] = F(k)[j]
        /\ \A j \in 1..Len(ss[k + 1]) : F(k + 1)[R(k) + j] = ss[k + 1][j]
    <3> DEFINE m == k + 1
    <3>1. m \in 1..n /\ m - 1 = k
      BY <2>1
    <3> HIDE DEF m, R
    <3>2. /\ R(m) = R(m - 1) + Len(ss[m])
          /\ \A j \in 1..R(m - 1) : F(m)[j] = F(m - 1)[j]
          /\ \A j \in 1..Len(ss[m]) : F(m)[R(m - 1) + j] = ss[m][j]
      BY <1>6, <3>1
    <3> QED
      BY <3>1, <3>2 DEF m
  <2>3. R(k) \in Nat /\ Len(ss[k + 1]) \in Nat
    BY <1>1, <1>5, <2>1
  <2>4. \A m \in 0..k : R(m) \in Nat
    BY <1>1, <1>5
  <2> HIDE DEF R
  <2>5. \A m \in 0..(k + 1) : R(m) <= R(k + 1)
    BY <2>1, <2>2, <2>3, <2>4
  <2>6. ASSUME NEW m \in 1..(k + 1), NEW j \in 1..Len(ss[m])
        PROVE  F(k + 1)[R(m - 1) + j] = ss[m][j]
    <3>1. CASE m = k + 1
      BY <2>1, <2>2, <3>1
    <3>2. CASE m # k + 1
      <4>1. m \in 1..k /\ m - 1 \in 0..k /\ m \in 0..k /\ m \in 1..n
        BY <1>1, <3>2
      <4>2. R(m) = R(m - 1) + Len(ss[m]) /\ Len(ss[m]) \in Nat /\ R(m) <= R(k)
        BY <1>1, <1>6, <2>1, <4>1 DEF R
      <4>3. R(m - 1) + j \in 1..R(k)
        <5>1. R(m - 1) \in Nat /\ j \in Nat /\ 1 <= j /\ j <= Len(ss[m])
          BY <2>4, <4>1, <4>2
        <5> QED
          BY <2>3, <4>2, <5>1
      <4> QED
        BY <2>1, <2>2, <4>1, <4>3
    <3> QED
      BY <3>1, <3>2
  <2>7. ASSUME NEW p \in 1..R(k + 1)
        PROVE  \E m \in 1..(k + 1) : p \in R(m - 1) + 1 .. R(m)
    <3>1. CASE p \in 1..R(k)
      BY <2>1, <3>1
    <3>2. CASE p \notin 1..R(k)
      <4>1. p \in R((k + 1) - 1) + 1 .. R(k + 1)
        BY <2>1, <2>2, <2>3, <3>2
      <4> QED
        BY <4>1
    <3> QED
      BY <3>1, <3>2
  <2> QED
    BY <2>5, <2>6, <2>7
<1> HIDE DEF Good
<1>9. n \in Good
  BY <1>1, <1>7, <1>8, Induction
<1>10. Placed(n)
  BY <1>1, <1>9 DEF Good
<1>11. \A k \in 0..n : Reached(ss, k) = R(k)
  BY DEF Reached, F
<1>12. R(0) = 0 /\ R(n) = Len(FlattenSeq(ss))
  BY <1>3, EmptySeq
<1>13. \A k \in 1..n : k - 1 \in 0..n /\ k \in 0..n
  BY <1>1
<1>14. 0 \in 0..n /\ n \in 0..n
  BY <1>1
<1> DEFINE flat == FlattenSeq(ss)
<1>15. F(n) = flat
  BY <1>3
<1> HIDE DEF R, flat
<1>16. \A k \in 1..n : \A j \in 1..Len(ss[k]) : flat[Reached(ss, k - 1) + j] = ss[k][j]
  BY <1>10, <1>11, <1>13, <1>15
<1>17. \A p \in 1..Len(flat) : \E k \in 1..n : p \in Reached(ss, k - 1) + 1 .. Reached(ss, k)
  BY <1>10, <1>11, <1>12, <1>13, <1>15 DEF flat
<1>18. \A k \in 0..n : Reached(ss, k) \in Nat /\ Reached(ss, k) <= Len(flat)
  BY <1>5, <1>10, <1>11, <1>12 DEF flat, R
<1>19. \A k \in 1..n : Reached(ss, k) = Reached(ss, k - 1) + Len(ss[k])
  BY <1>6, <1>11, <1>13 DEF R
<1>20. Reached(ss, 0) = 0 /\ Reached(ss, n) = Len(flat)
  BY <1>11, <1>12, <1>14 DEF flat
<1> QED
  BY <1>16, <1>17, <1>18, <1>19, <1>20 DEF FlatPlaces, flat, n
=============================================================================
