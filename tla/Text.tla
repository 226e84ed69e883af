--------------------------------- MODULE Text ---------------------------------
(***************************************************************************)
(* std::string, as sequences of the pieces an algorithm tells apart.       *)
(***************************************************************************)
EXTENDS Naturals, Sequences, SequencesExt

Occurrences(p, s) ==
  {i \in 1..(Len(s) - Len(p) + 1) : SubSeq(s, i, i + Len(p) - 1) = p}
Found(p, s) == Occurrences(p, s) # {}
Find(p, s) == Min(Occurrences(p, s))
Before(p, s) == SubSeq(s, 1, Find(p, s) - 1)
From(p, s) == SubSeq(s, Find(p, s), Len(s))
Drop(n, s) == SubSeq(s, n + 1, Len(s))
Behind(p, s) == Drop(Len(p), From(p, s))

\* The k-th of a set of numbers.
Nth(S, k) == CHOOSE i \in S : Cardinality({j \in S : j <= i}) = k

\* The parts between separators, the empty ones left out.
Starts(s, separators) ==
  {i \in DOMAIN s : s[i] \notin separators /\ (i = 1 \/ s[i - 1] \in separators)}
PartEnd(s, separators, i) == Max({j \in i..Len(s) : \A m \in i..j : s[m] \notin separators})
Parts(s, separators) ==
  [k \in 1..Cardinality(Starts(s, separators)) |->
     LET i == Nth(Starts(s, separators), k) IN SubSeq(s, i, PartEnd(s, separators, i))]
=============================================================================
