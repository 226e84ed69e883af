-------------------------- MODULE FileResponseProofs --------------------------
(***************************************************************************)
(* Theorems about FileResponse, for every size of the buffer, of files and *)
(* of pages.  The bytes of a response are numbered, so what the peer has    *)
(* got so far is always Upto(offset), as long as nothing was lost; the      *)
(* lemmas on Bytes and Upto say how such pieces follow each other.          *)
(***************************************************************************)
EXTENDS FileResponse, SequenceTheorems, TLAPS

\* The response up to byte n of the file or page.
Upto(n) == Headers \o Bytes(0, n)

LEMMA BytesFacts ==
  ASSUME NEW m \in Nat, NEW n \in Nat, m <= n
  PROVE  /\ Bytes(m, n) \in Seq(m + 1 .. n)
         /\ Len(Bytes(m, n)) = n - m
         /\ \A i \in 1 .. n - m : Bytes(m, n)[i] = m + i
<1>1. n - m \in Nat
  OBVIOUS
<1>2. Bytes(m, n) \in [1 .. n - m -> m + 1 .. n]
  BY DEF Bytes
<1>3. Bytes(m, n) \in Seq(m + 1 .. n)
  BY <1>1, <1>2, SeqDef
<1>4. Len(Bytes(m, n)) = n - m
  BY <1>1, <1>2, <1>3, LenProperties
<1> QED
  BY <1>3, <1>4 DEF Bytes

LEMMA UptoFacts ==
  ASSUME NEW n \in Nat
  PROVE  /\ Upto(n) \in Seq(0 .. n)
         /\ Len(Upto(n)) = n + 1
         /\ \A i \in 1 .. n + 1 : Upto(n)[i] = i - 1
<1>1. /\ Bytes(0, n) \in Seq(1 .. n) /\ Len(Bytes(0, n)) = n
      /\ \A i \in 1 .. n : Bytes(0, n)[i] = i
  <2>1. 0 \in Nat /\ 0 <= n /\ 0 + 1 = 1 /\ n - 0 = n /\ \A i \in 1 .. n : 0 + i = i
    OBVIOUS
  <2>2. /\ Bytes(0, n) \in Seq(0 + 1 .. n) /\ Len(Bytes(0, n)) = n - 0
        /\ \A i \in 1 .. n - 0 : Bytes(0, n)[i] = 0 + i
    BY <2>1, BytesFacts
  <2> QED
    BY <2>1, <2>2
<1>2. Bytes(0, n) \in Seq(0 .. n)
  BY <1>1, SeqMonotonic
<1>3. Headers \in Seq(0 .. n) /\ Len(Headers) = 1 /\ Headers[1] = 0
  BY DEF Headers
<1>4. /\ Headers \o Bytes(0, n) \in Seq(0 .. n)
      /\ Len(Headers \o Bytes(0, n)) = Len(Headers) + Len(Bytes(0, n))
      /\ \A i \in 1 .. Len(Headers) + Len(Bytes(0, n)) :
           (Headers \o Bytes(0, n))[i] = IF i <= Len(Headers) THEN Headers[i]
                                         ELSE Bytes(0, n)[i - Len(Headers)]
  BY <1>2, <1>3, ConcatProperties
<1> QED
  BY <1>1, <1>3, <1>4 DEF Upto

\* Chunks follow each other without a gap.
LEMMA UptoMore ==
  ASSUME NEW m \in Nat, NEW n \in Nat, m <= n
  PROVE  Upto(m) \o Bytes(m, n) = Upto(n)
<1>1. /\ Upto(m) \in Seq(0 .. n) /\ Len(Upto(m)) = m + 1
      /\ \A i \in 1 .. m + 1 : Upto(m)[i] = i - 1
  <2>1. Upto(m) \in Seq(0 .. m) /\ 0 .. m \subseteq 0 .. n
    BY UptoFacts
  <2>2. Upto(m) \in Seq(0 .. n)
    BY <2>1, SeqMonotonic
  <2> QED
    BY <2>2, UptoFacts
<1>2. /\ Bytes(m, n) \in Seq(0 .. n) /\ Len(Bytes(m, n)) = n - m
      /\ \A i \in 1 .. n - m : Bytes(m, n)[i] = m + i
  <2>1. Bytes(m, n) \in Seq(m + 1 .. n) /\ m + 1 .. n \subseteq 0 .. n
    BY BytesFacts
  <2>2. Bytes(m, n) \in Seq(0 .. n)
    BY <2>1, SeqMonotonic
  <2> QED
    BY <2>2, BytesFacts
<1> DEFINE s == Upto(m) \o Bytes(m, n)
<1>3. /\ s \in Seq(0 .. n) /\ Len(s) = n + 1
      /\ \A i \in 1 .. n + 1 : s[i] = IF i <= m + 1 THEN Upto(m)[i]
                                      ELSE Bytes(m, n)[i - (m + 1)]
  <2>1. /\ s \in Seq(0 .. n) /\ Len(s) = Len(Upto(m)) + Len(Bytes(m, n))
        /\ \A i \in 1 .. Len(Upto(m)) + Len(Bytes(m, n)) :
             s[i] = IF i <= Len(Upto(m)) THEN Upto(m)[i]
                    ELSE Bytes(m, n)[i - Len(Upto(m))]
    BY <1>1, <1>2, ConcatProperties
  <2>2. Len(Upto(m)) = m + 1 /\ Len(Upto(m)) + Len(Bytes(m, n)) = n + 1
    BY <1>1, <1>2
  <2> HIDE DEF s
  <2> QED
    BY <2>1, <2>2
<1> HIDE DEF s
<1>4. ASSUME NEW i \in 1 .. n + 1 PROVE s[i] = i - 1
  <2>1. CASE i <= m + 1
    BY <1>1, <1>3, <2>1
  <2>2. CASE i > m + 1
    <3>1. i - (m + 1) \in 1 .. n - m
      BY <2>2
    <3>2. s[i] = Bytes(m, n)[i - (m + 1)]
      BY <1>3, <2>2
    <3>3. Bytes(m, n)[i - (m + 1)] = m + (i - (m + 1))
      BY <1>2, <3>1
    <3> QED
      BY <3>2, <3>3
  <2> QED
    BY <2>1, <2>2
<1>5. /\ Upto(n) \in Seq(0 .. n) /\ Len(Upto(n)) = n + 1
      /\ \A i \in 1 .. n + 1 : Upto(n)[i] = i - 1
  BY UptoFacts
<1>6. Len(s) = Len(Upto(n)) /\ \A i \in 1 .. Len(s) : s[i] = Upto(n)[i]
  BY <1>3, <1>4, <1>5
<1>7. s = Upto(n)
  BY <1>3, <1>5, <1>6, SeqEqual
<1> QED
  BY <1>7 DEF s

\* What begins with n bytes begins with any m of them.
LEMMA UptoPrefix ==
  ASSUME NEW m \in Nat, NEW n \in Nat, m <= n, NEW t \in Seq(Int)
  PROVE  /\ Len(Upto(n) \o t) > m
         /\ SubSeq(Upto(n) \o t, 1, m + 1) = Upto(m)
<1>1. /\ Upto(n) \in Seq(Int) /\ Len(Upto(n)) = n + 1
      /\ \A i \in 1 .. n + 1 : Upto(n)[i] = i - 1
  <2>1. Upto(n) \in Seq(0 .. n) /\ 0 .. n \subseteq Int
    BY UptoFacts
  <2> QED
    BY <2>1, UptoFacts, SeqMonotonic
<1> DEFINE s == Upto(n) \o t
<1>2. /\ s \in Seq(Int) /\ Len(s) = Len(Upto(n)) + Len(t)
      /\ \A i \in 1 .. Len(Upto(n)) + Len(t) :
           s[i] = IF i <= Len(Upto(n)) THEN Upto(n)[i] ELSE t[i - Len(Upto(n))]
  BY <1>1, ConcatProperties
<1>3. Len(t) \in Nat
  BY LenProperties
<1> HIDE DEF s
<1>4. /\ Len(s) > m
      /\ \A i \in 1 .. m + 1 : s[i] = i - 1 /\ s[i] \in Int
  BY <1>1, <1>2, <1>3
<1>5. /\ SubSeq(s, 1, m + 1) \in Seq(Int) /\ Len(SubSeq(s, 1, m + 1)) = m + 1
      /\ \A i \in 1 .. m + 1 : SubSeq(s, 1, m + 1)[i] = s[i]
  BY <1>4, SubSeqProperties
<1>6. /\ Upto(m) \in Seq(Int) /\ Len(Upto(m)) = m + 1
      /\ \A i \in 1 .. m + 1 : Upto(m)[i] = i - 1
  <2>1. Upto(m) \in Seq(0 .. m) /\ 0 .. m \subseteq Int
    BY UptoFacts
  <2> QED
    BY <2>1, UptoFacts, SeqMonotonic
<1>7. SubSeq(s, 1, m + 1) = Upto(m)
  BY <1>4, <1>5, <1>6, SeqEqual
<1> QED
  BY <1>4, <1>7 DEF s

\* A remainder is determined by the sum.
LEMMA SameRest ==
  ASSUME NEW c \in Nat \ {0}, NEW q \in Int, NEW p \in Int,
         NEW r \in 0 .. c - 1, NEW s \in 0 .. c - 1, (q * c) + r = (p * c) + s
  PROVE  r = s
  OBVIOUS

LEMMA ModAdd ==
  ASSUME NEW a \in Nat, NEW c \in Nat \ {0}
  PROVE  (a + c) % c = a % c
<1> DEFINE q == a \div c
           p == (a + c) \div c
           r == a % c
           s == (a + c) % c
<1>1. a = (q * c) + r /\ r \in 0 .. c - 1 /\ q \in Int
  OBVIOUS
<1>2. a + c = (p * c) + s /\ s \in 0 .. c - 1 /\ p \in Int
  OBVIOUS
<1> HIDE DEF q, p, r, s
<1>3. (q + 1) * c = (q * c) + c /\ q + 1 \in Int
  BY <1>1
<1>4. ((q + 1) * c) + r = (p * c) + s
  BY <1>1, <1>2, <1>3
<1>5. r = s
  BY <1>1, <1>2, <1>3, <1>4, SameRest
<1> QED
  BY <1>5 DEF r, s

----------------------------------------------------------------------------
(* The inductive invariant.                                                *)

\* Before the first piece nothing has been read; after it, unless it was the last,
\* full chunks have been.
Reading ==
  /\ ~sentHeaders => offset = 0 /\ ~sentAll /\ (fileOpened => body = <<>>)
  /\ sentHeaders /\ ~sentAll => fileOpened /\ offset > 0
  /\ ~sentAll => offset % ChunkSize = 0

\* A page stays what it is.
PageKept == ~fileOpened => length = size /\ body = Bytes(0, size)

\* Unless something was lost, what the peer has got is the response up to offset;
\* at the end it is at least the whole of it, and nothing else when the last chunk
\* told the end.
Told ==
  ~lost /\ outcome # "broken" =>
    /\ ~sentHeaders => wire = <<>>
    /\ sentHeaders /\ ~sentAll => wire = Upto(offset)
    /\ sentAll => \E n \in Nat, t \in Seq(Int) : n >= size /\ wire = Upto(n) \o t
    /\ sentAll /\ length = size /\ ~EndsFull => wire = Upto(size)

Finished == outcome = "complete" => sentAll

IInv == TypeOK /\ Reading /\ PageKept /\ Told /\ Finished

LEMMA InitIInv == Init => IInv
<1> SUFFICES ASSUME Init PROVE IInv
  OBVIOUS
<1> USE DEF Init
<1>1. size \in Nat /\ 0 \in 0 .. size
  <2>1. size \in FileSizes \/ size \in PageSizes
    OBVIOUS
  <2> HIDE DEF Init
  <2>2. size \in Nat
    BY <2>1, SizeAssumption
  <2> QED
    BY <2>2
<1>2. body \in Seq(1 .. size)
  <2>1. CASE fileOpened
    BY <2>1
  <2>2. CASE ~fileOpened
    <3>1. Bytes(0, size) \in Seq(0 + 1 .. size)
      BY <1>1, BytesFacts
    <3>2. 0 + 1 = 1 /\ body = Bytes(0, size)
      BY <2>2
    <3> QED
      BY <3>1, <3>2
  <2> QED
    BY <2>1, <2>2
<1>3. TypeOK
  <2>1. wire \in Seq(-1 .. length)
    OBVIOUS
  <2>2. /\ fileOpened \in BOOLEAN /\ sentHeaders \in BOOLEAN
        /\ sentAll \in BOOLEAN /\ lost \in BOOLEAN
    OBVIOUS
  <2>3. /\ size \in Nat /\ length \in Nat /\ size <= length /\ offset \in 0..length
        /\ body \in Seq(1 .. length) /\ outcome \in {"open", "complete", "broken"}
    BY <1>1, <1>2
  <2> HIDE DEF Init
  <2> QED
    BY <2>1, <2>2, <2>3 DEF TypeOK
<1>4. Reading
  <2>1. offset = 0 /\ 0 % ChunkSize = 0
    BY ChunkAssumption
  <2> QED
    BY <2>1 DEF Reading
<1>5. PageKept /\ Told /\ Finished
  BY DEF PageKept, Told, Finished
<1> QED
  BY <1>3, <1>4, <1>5 DEF IInv

\* What handleFile reads: as much as the buffer takes of what is left.
LEMMA ChunkFacts ==
  ASSUME TypeOK
  PROVE  LET m == offset + Len(Chunk) IN
         /\ m \in Nat /\ offset <= m /\ m <= length
         /\ Chunk = Bytes(offset, m) /\ Chunk \in Seq(1 .. length)
         /\ Len(Chunk) \in 0 .. ChunkSize
         /\ Len(Chunk) < ChunkSize => m = length
         /\ Chunk = <<>> => offset = length
         /\ Chunk # <<>> => Len(Chunk) > 0
<1> DEFINE n == Least(offset + ChunkSize, length)
<1>1. /\ offset \in Nat /\ length \in Nat /\ n \in Nat /\ offset <= n /\ n <= length
      /\ n <= offset + ChunkSize
      /\ n < offset + ChunkSize => n = length
  BY ChunkAssumption DEF TypeOK, Least
<1>2. Chunk = Bytes(offset, n)
  BY DEF Chunk
<1>3. n = offset => offset = length
  BY <1>1, ChunkAssumption
<1> HIDE DEF n
<1>4. /\ Bytes(offset, n) \in Seq(offset + 1 .. n) /\ Len(Bytes(offset, n)) = n - offset
  BY <1>1, BytesFacts
<1>5. offset + 1 .. n \subseteq 1 .. length
  BY <1>1
<1>6. Chunk \in Seq(1 .. length) /\ Len(Chunk) = n - offset
  BY <1>2, <1>4, <1>5, SeqMonotonic
<1>7. offset + Len(Chunk) = n
  BY <1>1, <1>6
<1>8. Chunk = <<>> => Len(Chunk) = 0
  OBVIOUS
<1>9. Chunk # <<>> => Len(Chunk) > 0
  BY <1>6, EmptySeq
<1> QED
  BY <1>1, <1>2, <1>3, <1>6, <1>7, <1>8, <1>9, ChunkAssumption

----------------------------------------------------------------------------
(* Each action keeps the invariant.                                        *)

LEMMA BuiltSeq == ASSUME TypeOK PROVE Built \in Seq(Int) /\ Len(Built) \in Nat
<1>1. /\ Chunk \in Seq(1 .. length) /\ body \in Seq(1 .. length)
      /\ 1 .. length \subseteq Int
  BY ChunkFacts DEF TypeOK
<1>2. BodyAfter \in Seq(Int)
  BY <1>1, SeqMonotonic DEF BodyAfter
<1>3. HeadersDue \in Seq(Int)
  BY DEF HeadersDue, Headers
<1>4. Built \in Seq(Int)
  BY <1>2, <1>3, ConcatProperties DEF Built
<1> QED
  BY <1>4, LenProperties

\* What one send() adds when nothing is lost: the piece that was built.
LEMMA SentWhole ==
  ASSUME TypeOK, Respond, ~lost'
  PROVE  wire' = wire \o Built
<1>1. Built \in Seq(Int)
  BY BuiltSeq
<1>2. PICK n \in Taken(Len(Built)) :
        wire' = wire \o SubSeq(Built, 1, n) /\ lost' = (lost \/ n < Len(Built))
  BY DEF Respond
<1>3. Len(Built) \in Nat
  BY BuiltSeq
<1>4. n = Len(Built)
  BY <1>2, <1>3, WorldAssumption DEF Taken
<1>5. SubSeq(Built, 1, Len(Built)) = Built
  BY <1>1, SubSeqFull
<1> QED
  BY <1>2, <1>4, <1>5

LEMMA RespondType == ASSUME IInv, Respond PROVE TypeOK'
<1>1. /\ Chunk \in Seq(1 .. length) /\ body \in Seq(1 .. length)
      /\ offset + Len(Chunk) \in 0 .. length
  <2>1. length \in Nat /\ body \in Seq(1 .. length)
    BY DEF IInv, TypeOK
  <2> QED
    BY <2>1, ChunkFacts DEF IInv
<1>2. BodyAfter \in Seq(1 .. length)
  BY <1>1 DEF BodyAfter
<1>3. wire' \in Seq(-1 .. length)
  <2>1. length \in Nat /\ wire \in Seq(-1 .. length) /\ 1 .. length \subseteq -1 .. length
        /\ 0 \in -1 .. length
    BY DEF IInv, TypeOK
  <2>2. BodyAfter \in Seq(-1 .. length)
    BY <1>2, <2>1, SeqMonotonic
  <2>3. HeadersDue \in Seq(-1 .. length)
    <3>1. Headers \in Seq(-1 .. length)
      <4>1. Headers \in Seq(Int) /\ Len(Headers) = 1 /\ Headers = [i \in 1 .. 1 |-> 0]
        BY DEF Headers
      <4>2. Headers \in [1 .. 1 -> -1 .. length]
        BY <2>1, <4>1
      <4> QED
        BY <4>2, SeqDef
    <3> QED
      BY <3>1, EmptySeq DEF HeadersDue
  <2>4. Built \in Seq(-1 .. length)
    BY <2>2, <2>3, ConcatProperties DEF Built
  <2>5. PICK n \in Taken(Len(Built)) : wire' = wire \o SubSeq(Built, 1, n)
    BY DEF Respond
  <2>6. Len(Built) \in Nat /\ n \in Int /\ \A i \in 1 .. n : i \in 1 .. Len(Built)
    BY <2>4, LenProperties DEF Taken
  <2>7. \A i \in 1 .. n : Built[i] \in -1 .. length
    BY <2>4, <2>6, ElementOfSeq
  <2>8. SubSeq(Built, 1, n) \in Seq(-1 .. length)
    BY <2>6, <2>7, SubSeqProperties
  <2> QED
    BY <2>1, <2>5, <2>8, ConcatProperties
<1>4. lost' \in BOOLEAN /\ sentAll' \in BOOLEAN
  <2>1. lost' \in BOOLEAN
    BY DEF Respond
  <2>2. sentAll' \in BOOLEAN
    BY DEF Respond, SentAllAfter
  <2> QED
    BY <2>1, <2>2
<1>5. offset' \in 0 .. length /\ body' \in Seq(1 .. length)
  BY <1>1, <1>2 DEF Respond, IInv, TypeOK
<1> QED
  BY <1>3, <1>4, <1>5 DEF Respond, IInv, TypeOK

\* The piece that brings bytes of the file.
LEMMA PieceTold ==
  ASSUME IInv, outcome = "open", ~lost, ~sentAll, fileOpened, Chunk # <<>>
  PROVE  wire \o Built = Upto(offset + Len(Chunk))
<1>1. /\ offset \in Nat /\ offset + Len(Chunk) \in Nat
      /\ offset <= offset + Len(Chunk)
      /\ BodyAfter = Bytes(offset, offset + Len(Chunk))
  <2>1. offset \in Nat
    BY DEF IInv, TypeOK
  <2> QED
    BY <2>1, ChunkFacts DEF IInv, BodyAfter
<1>2. BodyAfter \in Seq(Int)
  <2>1. /\ BodyAfter \in Seq(offset + 1 .. offset + Len(Chunk))
        /\ offset + 1 .. offset + Len(Chunk) \subseteq Int
    BY <1>1, BytesFacts
  <2> QED
    BY <2>1, SeqMonotonic
<1>3. CASE ~sentHeaders
  <2>1. wire = <<>> /\ offset = 0
    BY <1>3 DEF IInv, Told, Reading
  <2>2. Built = Upto(offset + Len(Chunk))
    BY <1>1, <1>3, <2>1 DEF Built, HeadersDue, Upto
  <2>3. Built \in Seq(Int)
    BY <1>1, <1>2, <2>2, UptoFacts, ConcatProperties DEF Built, HeadersDue, Headers
  <2> QED
    BY <2>1, <2>2, <2>3, ConcatEmptySeq
<1>4. CASE sentHeaders
  <2>1. wire = Upto(offset)
    BY <1>4 DEF IInv, Told
  <2>2. Built = BodyAfter
    BY <1>2, <1>4, ConcatEmptySeq DEF Built, HeadersDue
  <2> QED
    BY <1>1, <2>1, <2>2, UptoMore
<1> QED
  BY <1>3, <1>4

\* The only piece of a page, or of an empty file.
LEMMA PageTold ==
  ASSUME IInv, outcome = "open", ~lost, ~sentAll, ~sentHeaders,
         ~fileOpened \/ length = 0, ~fileOpened \/ Chunk = <<>>
  PROVE  wire \o Built = Upto(size)
<1>1. BodyAfter = Bytes(0, size) /\ wire = <<>> /\ size \in Nat
  <2>1. size \in Nat /\ size <= length /\ wire = <<>> /\ BodyAfter = body
    BY DEF IInv, TypeOK, Told, BodyAfter
  <2>2. CASE ~fileOpened
    BY <2>1, <2>2 DEF IInv, PageKept
  <2>3. CASE fileOpened
    <3>1. body = <<>> /\ size = 0
      BY <2>1, <2>3 DEF IInv, Reading
    <3>2. Bytes(0, 0) = <<>>
      <4>1. Bytes(0, 0) \in Seq(0 + 1 .. 0) /\ Len(Bytes(0, 0)) = 0 - 0
        BY BytesFacts
      <4> QED
        BY <4>1, EmptySeq
    <3> QED
      BY <2>1, <3>1, <3>2
  <2> QED
    BY <2>2, <2>3
<1>2. Built = Upto(size)
  BY <1>1 DEF Built, HeadersDue, Upto
<1>3. Built \in Seq(0 .. size)
  BY <1>1, <1>2, UptoFacts
<1> QED
  BY <1>1, <1>2, <1>3, ConcatEmptySeq

LEMMA RespondReading == ASSUME IInv, Respond PROVE Reading'
<1>1. sentHeaders' /\ (sentAll' <=> SentAllAfter) /\ UNCHANGED fileOpened
  BY DEF Respond
<1>2. ASSUME ~sentAll' PROVE fileOpened' /\ offset' > 0 /\ offset' % ChunkSize = 0
  <2>1. fileOpened /\ Len(Chunk) >= ChunkSize /\ Len(Chunk) = ChunkSize
    <3>1. fileOpened /\ ~(Len(Chunk) < ChunkSize)
      BY <1>1, <1>2 DEF SentAllAfter
    <3>2. Len(Chunk) \in 0 .. ChunkSize
      BY ChunkFacts DEF IInv
    <3> QED
      BY <3>1, <3>2, ChunkAssumption
  <2>2. offset \in Nat /\ offset % ChunkSize = 0
    BY DEF IInv, TypeOK, Reading, Respond
  <2>3. offset' = offset + ChunkSize
    BY <2>1 DEF Respond
  <2>4. (offset + ChunkSize) % ChunkSize = 0
    BY <2>2, ModAdd, ChunkAssumption
  <2> QED
    BY <1>1, <2>1, <2>2, <2>3, <2>4, ChunkAssumption
<1> QED
  BY <1>1, <1>2 DEF Reading

LEMMA RespondPage == ASSUME IInv, Respond PROVE PageKept'
  BY DEF IInv, PageKept, Respond, BodyAfter

LEMMA RespondTold == ASSUME IInv, Respond PROVE Told'
<1> SUFFICES ASSUME ~lost' PROVE Told'
  BY DEF Told
<1>1. /\ outcome = "open" /\ ~sentAll /\ ~lost /\ sentHeaders'
      /\ (sentAll' <=> SentAllAfter) /\ wire' = wire \o Built
      /\ UNCHANGED <<fileOpened, size, length>>
  <2>1. PICK n \in Taken(Len(Built)) : lost' = (lost \/ n < Len(Built))
    BY DEF Respond
  <2>2. ~lost
    BY <2>1
  <2> QED
    BY <2>2, SentWhole DEF IInv, Respond
<1>2. /\ size \in Nat /\ offset \in Nat /\ length \in Nat /\ size <= length
      /\ offset <= length
  BY DEF IInv, TypeOK
<1>3. <<>> \in Seq(Int) /\ \A n \in Nat : Upto(n) \o <<>> = Upto(n)
  <2>1. \A n \in Nat : Upto(n) \in Seq(0 .. n)
    BY UptoFacts
  <2> QED
    BY <2>1, ConcatEmptySeq
<1>4. CASE fileOpened /\ Chunk # <<>>
  <2> DEFINE m == offset + Len(Chunk)
  <2>1. wire' = Upto(m) /\ offset' = m /\ m \in Nat
    <3>1. wire \o Built = Upto(m)
      BY <1>1, <1>4, PieceTold
    <3>2. m \in Nat
      BY ChunkFacts DEF IInv
    <3> QED
      BY <1>1, <1>4, <3>1, <3>2 DEF Respond
  <2>2. sentAll' => m = length
    <3>1. sentAll' => Len(Chunk) < ChunkSize
      BY <1>1, <1>4 DEF SentAllAfter
    <3> QED
      BY <3>1, ChunkFacts DEF IInv
  <2> HIDE DEF m
  <2>3. sentAll' => \E n \in Nat, t \in Seq(Int) : n >= size' /\ wire' = Upto(n) \o t
    BY <1>1, <1>2, <1>3, <2>1, <2>2
  <2>4. sentAll' /\ length' = size' => wire' = Upto(size')
    BY <1>1, <2>1, <2>2
  <2> QED
    BY <1>1, <2>1, <2>3, <2>4 DEF Told, Upto
<1>5. CASE ~fileOpened
  <2>1. ~sentHeaders
    BY <1>1, <1>5 DEF IInv, Reading
  <2>2. wire' = Upto(size) /\ sentAll'
    BY <1>1, <1>5, <2>1, PageTold DEF SentAllAfter
  <2>3. \E n \in Nat, t \in Seq(Int) : n >= size' /\ wire' = Upto(n) \o t
    <3>1. wire' = Upto(size) \o <<>> /\ size >= size'
      BY <1>1, <1>2, <1>3, <2>2
    <3> QED
      BY <1>2, <1>3, <3>1
  <2> QED
    BY <1>1, <2>2, <2>3 DEF Told, Upto
<1>6. CASE fileOpened /\ Chunk = <<>>
  <2>1. offset = length /\ offset' = offset /\ sentAll'
    <3>1. offset = length
      BY <1>6, ChunkFacts DEF IInv
    <3>2. Len(Chunk) = 0
      BY <1>6
    <3>3. sentAll'
      BY <1>1, <3>2, ChunkAssumption DEF SentAllAfter
    <3> QED
      BY <1>2, <1>6, <3>1, <3>2, <3>3 DEF Respond
  <2>2. CASE ~sentHeaders
    <3>1. length = 0 /\ size = 0
      BY <1>2, <2>1, <2>2 DEF IInv, Reading
    <3>2. wire' = Upto(size)
      BY <1>1, <1>6, <2>2, <3>1, PageTold
    <3>3. \E n \in Nat, t \in Seq(Int) : n >= size' /\ wire' = Upto(n) \o t
      <4>1. wire' = Upto(size) \o <<>> /\ size >= size'
        BY <1>1, <1>2, <1>3, <3>2
      <4> QED
        BY <1>2, <1>3, <4>1
    <3> QED
      BY <1>1, <2>1, <3>2, <3>3 DEF Told, Upto
  <2>3. CASE sentHeaders
    <3>1. wire = Upto(offset) /\ offset > 0 /\ offset % ChunkSize = 0
      BY <1>1, <2>3 DEF IInv, Told, Reading
    <3>2. EndsFull' /\ EndsFull
      BY <1>1, <1>2, <1>6, <2>1, <3>1 DEF EndsFull
    <3>3. Built \in Seq(Int)
      <4>1. Built = <<>> \o body /\ body \in Seq(1 .. length) /\ 1 .. length \subseteq Int
        BY <1>6, <2>3 DEF Built, HeadersDue, BodyAfter, IInv, TypeOK
      <4>2. body \in Seq(Int)
        BY <4>1, SeqMonotonic
      <4> QED
        BY <4>1, <4>2, ConcatEmptySeq
    <3>4. \E n \in Nat, t \in Seq(Int) : n >= size' /\ wire' = Upto(n) \o t
      <4>1. wire' = Upto(length) \o Built /\ length >= size'
        BY <1>1, <1>2, <2>1, <3>1
      <4> QED
        BY <1>2, <3>3, <4>1
    <3> QED
      BY <1>1, <2>1, <3>2, <3>4 DEF Told, Upto
  <2> QED
    BY <2>2, <2>3
<1> QED
  BY <1>4, <1>5, <1>6

LEMMA RespondIInv == ASSUME IInv, Respond PROVE IInv'
<1>1. Finished'
  BY DEF Finished, Respond
<1> QED
  BY <1>1, RespondType, RespondReading, RespondPage, RespondTold DEF IInv

\* A response that is broken off promises nothing more.
LEMMA BreakIInv == ASSUME IInv, Drop \/ TimeOut PROVE IInv'
<1>1. /\ UNCHANGED <<fileOpened, size, length, offset, body, sentHeaders, sentAll, lost>>
      /\ outcome' = "broken"
  BY DEF Drop, TimeOut
<1>2. wire' \in Seq(-1 .. length)
  <2>1. wire \in Seq(-1 .. length) /\ length \in Nat
    BY DEF IInv, TypeOK
  <2>2. CASE Drop
    BY <2>1, <2>2 DEF Drop
  <2>3. CASE TimeOut
    <3>1. Notice \in [1 .. 1 -> -1 .. length]
      BY <2>1 DEF Notice
    <3>2. Notice \in Seq(-1 .. length)
      BY <3>1, SeqDef
    <3> QED
      BY <2>1, <2>3, <3>2, ConcatProperties DEF TimeOut
  <2> QED
    BY <2>2, <2>3
<1>3. TypeOK'
  BY <1>1, <1>2 DEF IInv, TypeOK
<1>4. Reading' /\ PageKept'
  BY <1>1 DEF IInv, Reading, PageKept
<1>5. Told' /\ Finished'
  BY <1>1 DEF Told, Finished
<1> QED
  BY <1>3, <1>4, <1>5 DEF IInv

LEMMA DoneIInv == ASSUME IInv, Done PROVE IInv'
<1>1. /\ UNCHANGED <<fileOpened, size, length, offset, body, sentHeaders, sentAll,
                   wire, lost>>
      /\ outcome = "open" /\ outcome' = "complete" /\ sentAll
  BY DEF Done
<1>2. TypeOK' /\ Reading' /\ PageKept' /\ Finished'
  BY <1>1 DEF IInv, TypeOK, Reading, PageKept, Finished
<1>3. Told'
  BY <1>1 DEF IInv, Told, EndsFull, Upto
<1> QED
  BY <1>2, <1>3 DEF IInv

\* The file that grows is not the one that was opened any more.
LEMMA GrowIInv == ASSUME IInv, Grow PROVE IInv'
<1>1. /\ UNCHANGED <<fileOpened, size, offset, body, sentHeaders, sentAll, wire,
                     lost, outcome>>
      /\ fileOpened /\ length' \in Nat /\ length' > length
  BY SizeAssumption DEF Grow
<1>2. /\ size \in Nat /\ length \in Nat /\ size <= length /\ offset \in 0 .. length
      /\ body \in Seq(1 .. length) /\ wire \in Seq(-1 .. length)
  BY DEF IInv, TypeOK
<1>3. body \in Seq(1 .. length') /\ wire \in Seq(-1 .. length')
  <2>1. 1 .. length \subseteq 1 .. length' /\ -1 .. length \subseteq -1 .. length'
    BY <1>1, <1>2
  <2> QED
    BY <1>2, <2>1, SeqMonotonic
<1>4. offset \in 0 .. length' /\ size <= length' /\ length' # size
  BY <1>1, <1>2
<1>5. TypeOK'
  BY <1>1, <1>2, <1>3, <1>4 DEF IInv, TypeOK
<1>6. Reading' /\ PageKept' /\ Finished'
  BY <1>1 DEF IInv, Reading, PageKept, Finished
<1>7. Told'
  BY <1>1, <1>4 DEF IInv, Told, Upto
<1> QED
  BY <1>5, <1>6, <1>7 DEF IInv

LEMMA StepIInv == ASSUME IInv, [Next]_vars PROVE IInv'
<1>1. CASE UNCHANGED vars
  BY <1>1 DEF vars, IInv, TypeOK, Reading, PageKept, Told, Finished, EndsFull, Upto
<1> QED
  BY <1>1, RespondIInv, BreakIInv, DoneIInv, GrowIInv DEF Next

----------------------------------------------------------------------------
(* What follows.                                                           *)

\* The invariant holds in every reachable state.
THEOREM Invariant == Spec => []IInv
  BY InitIInv, StepIInv, PTL DEF Spec

\* Every variable keeps its type: no more is read of a file than there is.
THEOREM TypeCorrect == Spec => []TypeOK
<1>1. IInv => TypeOK
  BY DEF IInv
<1> QED
  BY <1>1, Invariant, PTL

\* handleClientResponse says "Response has been sent" only when the peer has got
\* at least the whole of it, unless some send() was cut short.
THEOREM AllIsSent == Spec => []WholeAtLeast
<1>1. IInv => WholeAtLeast
  <2> SUFFICES ASSUME IInv, outcome = "complete", ~lost
               PROVE  Len(wire) > size /\ SubSeq(wire, 1, size + 1) = Message
    BY DEF WholeAtLeast
  <2>1. size \in Nat /\ sentAll
    BY DEF IInv, TypeOK, Finished
  <2>2. PICK n \in Nat, t \in Seq(Int) : n >= size /\ wire = Upto(n) \o t
    BY <2>1 DEF IInv, Told
  <2>3. Len(Upto(n) \o t) > size /\ SubSeq(Upto(n) \o t, 1, size + 1) = Upto(size)
    BY <2>1, <2>2, UptoPrefix
  <2> QED
    BY <2>2, <2>3 DEF Message, Upto
<1> QED
  BY <1>1, Invariant, PTL

\* And with nothing added, when the file did not grow and its last chunk did not
\* fill the buffer.
THEOREM NothingIsAdded == Spec => []DoneMeansDelivered
<1>1. IInv => DoneMeansDelivered
  BY DEF IInv, Told, Finished, DoneMeansDelivered, Message, Upto
<1> QED
  BY <1>1, Invariant, PTL

----------------------------------------------------------------------------
(* The response implements Delivery where send() takes all it is given, no *)
(* file grows, and no file ends with a full chunk.                         *)

Friendly ==
  /\ ShortSends = FALSE /\ Growing = FALSE
  /\ \A n \in FileSizes : n = 0 \/ n % ChunkSize # 0

\* Then nothing is lost, and no last chunk is sent twice.
Smooth ==
  /\ ~lost /\ length = size
  /\ fileOpened => size \in FileSizes

LEMMA SmoothInit == ASSUME Init PROVE Smooth /\ D!Init
<1>1. Smooth
  BY DEF Init, Smooth
<1>2. size \in FileSizes \cup PageSizes
  BY DEF Init
<1>3. Message \in {Headers \o Bytes(0, n) : n \in FileSizes \cup PageSizes}
  BY <1>2 DEF Message
<1> QED
  BY <1>1, <1>3 DEF Init, D!Init

LEMMA SmoothStep ==
  ASSUME Friendly, TypeOK, Smooth, [Next]_vars
  PROVE  Smooth'
<1>1. CASE Respond
  <2>1. PICK n \in Taken(Len(Built)) : lost' = (lost \/ n < Len(Built))
    BY <1>1 DEF Respond
  <2>2. n = Len(Built)
    BY <2>1 DEF Friendly, Taken
  <2>3. Len(Built) \in Nat
    BY BuiltSeq
  <2>4. ~lost'
    <3>1. ~(n < Len(Built))
      BY <2>2, <2>3
    <3> QED
      BY <2>1, <3>1, Zenon DEF Smooth
  <2> QED
    BY <1>1, <2>4 DEF Respond, Smooth
<1>2. CASE Drop \/ TimeOut \/ Done \/ UNCHANGED vars
  BY <1>2 DEF Drop, TimeOut, Done, vars, Smooth
<1>3. CASE Grow
  BY <1>3 DEF Grow, Friendly
<1> QED
  BY <1>1, <1>2, <1>3 DEF Next

\* A piece is a further part of the message.
LEMMA RespondDelivers ==
  ASSUME Friendly, IInv, IInv', Smooth, Smooth', Respond
  PROVE  D!Deliver
<1>1. /\ outcome = "open" /\ outcome' = "open" /\ ~sentAll /\ sentHeaders'
      /\ UNCHANGED <<size, fileOpened, length>> /\ ~lost /\ ~lost' /\ length = size
      /\ size \in Nat /\ offset \in Nat /\ offset <= size
  BY DEF Respond, Smooth, IInv, TypeOK
<1>2. ~EndsFull /\ ~EndsFull'
  <2>1. ~EndsFull
    BY <1>1 DEF EndsFull, Friendly, Smooth
  <2> QED
    BY <1>1, <2>1 DEF EndsFull
<1>3. \E k \in 0 .. size : wire' = Upto(k) /\ (sentHeaders => k > offset)
  <2>1. CASE sentAll'
    <3>1. wire' = Upto(size)
      BY <1>1, <1>2, <2>1 DEF IInv, Told, Upto
    <3>2. sentHeaders => offset # size
      BY <1>1, <1>2 DEF IInv, Reading, EndsFull
    <3> QED
      BY <1>1, <3>1, <3>2
  <2>2. CASE ~sentAll'
    <3>1. wire' = Upto(offset') /\ offset' \in 0 .. size
      BY <1>1, <2>2 DEF IInv, Told, TypeOK
    <3>2. offset' > offset
      <4>1. fileOpened /\ Len(Chunk) >= ChunkSize
        <5>1. fileOpened /\ ~(Len(Chunk) < ChunkSize)
          BY <2>2 DEF Respond, SentAllAfter
        <5>2. Len(Chunk) \in 0 .. ChunkSize
          BY ChunkFacts DEF IInv
        <5> QED
          BY <5>1, <5>2, ChunkAssumption
      <4>2. Len(Chunk) \in Nat /\ offset' = offset + Len(Chunk)
        BY <4>1, ChunkFacts, ChunkAssumption DEF Respond, IInv
      <4> QED
        BY <1>1, <4>1, <4>2, ChunkAssumption
    <3> QED
      BY <3>1, <3>2
  <2> QED
    BY <2>1, <2>2
<1>4. PICK k \in 0 .. size : wire' = Upto(k) /\ (sentHeaders => k > offset)
  BY <1>3
<1>5. k \in Nat /\ k <= size
  BY <1>1, <1>4
<1>6. wire' = SubSeq(Message, 1, k + 1)
  <2>1. Upto(size) \o <<>> = Upto(size) /\ <<>> \in Seq(Int)
    BY <1>1, UptoFacts, ConcatEmptySeq
  <2>2. SubSeq(Upto(size) \o <<>>, 1, k + 1) = Upto(k)
    BY <1>1, <1>5, <2>1, UptoPrefix
  <2> QED
    BY <1>4, <2>1, <2>2 DEF Message, Upto
<1>7. k + 1 \in Len(wire) + 1 .. Len(Message)
  <2>1. Len(Message) = size + 1
    BY <1>1, UptoFacts DEF Message, Upto
  <2>2. CASE sentHeaders
    <3>1. wire = Upto(offset) /\ k > offset
      BY <1>1, <1>4, <2>2 DEF IInv, Told
    <3>2. Len(wire) = offset + 1
      BY <1>1, <3>1, UptoFacts
    <3> QED
      BY <1>1, <1>5, <2>1, <3>1, <3>2
  <2>3. CASE ~sentHeaders
    <3>1. wire = <<>>
      BY <1>1, <2>3 DEF IInv, Told
    <3>2. Len(wire) = 0
      BY <3>1
    <3> QED
      BY <1>1, <1>5, <2>1, <3>2
  <2> QED
    BY <2>2, <2>3
<1> QED
  BY <1>1, <1>6, <1>7 DEF D!Deliver, Message

LEMMA StepDelivers ==
  ASSUME Friendly, IInv, IInv', Smooth, Smooth', [Next]_vars
  PROVE  [D!Next]_(D!vars)
<1>1. CASE Respond
  BY <1>1, RespondDelivers DEF D!Next
<1>2. CASE Drop \/ TimeOut
  BY <1>2 DEF Drop, TimeOut, D!Next, D!Break, Message
<1>3. CASE Done
  <2>1. ~EndsFull
    BY DEF EndsFull, Friendly, Smooth
  <2>2. wire = Message
    BY <1>3, <2>1 DEF Done, IInv, Told, Smooth, Message, Upto
  <2> QED
    BY <1>3, <2>2 DEF Done, D!Next, D!Complete, Message
<1>4. CASE Grow
  BY <1>4 DEF Grow, Friendly
<1>5. CASE UNCHANGED vars
  BY <1>5 DEF vars, D!vars, Message
<1> QED
  BY <1>1, <1>2, <1>3, <1>4, <1>5 DEF Next

\* handleFile, build() and the loop deliver as Delivery promises: what the peer
\* has been sent is always the beginning of the response, each piece is a further
\* part of it, and it is said to be complete only when it is.
THEOREM DeliversSafely ==
  ASSUME Friendly
  PROVE  Spec => D!Init /\ [][D!Next]_(D!vars)
<1>1. Init => IInv /\ Smooth /\ D!Init
  BY InitIInv, SmoothInit
<1>2. IInv /\ Smooth /\ [Next]_vars => (IInv /\ Smooth)' /\ [D!Next]_(D!vars)
  <2> SUFFICES ASSUME IInv, Smooth, [Next]_vars
               PROVE  IInv' /\ Smooth' /\ [D!Next]_(D!vars)
    OBVIOUS
  <2>1. IInv'
    BY StepIInv
  <2>2. Smooth'
    BY SmoothStep DEF IInv
  <2> QED
    BY <2>1, <2>2, StepDelivers
<1> QED
  BY <1>1, <1>2, PTL DEF Spec
=============================================================================
