---------------------------- MODULE ReplayProofs ----------------------------
(***************************************************************************)
(* The loop with which recover() replays the log, for a log of any length: *)
(* what it takes from it, whatever its words are, and what it takes for    *)
(* certain.                                                                *)
(*                                                                         *)
(* The loop is a recursive function over positions of the log.  Its facts  *)
(* are proved by looking at the least or the greatest position at which    *)
(* they fail.                                                              *)
(***************************************************************************)
EXTENDS Persistence, SequenceTheorems, WellFoundedInduction, TLAPS

(* A set of naturals has a least member: the induction the proofs about    *)
(* the loop use, on its reading position.                                  *)
LEMMA LeastNat ==
  ASSUME NEW T, T \subseteq Nat, T # {}
  PROVE  \E m \in T : \A k \in T : m <= k
<1> DEFINE R == OpToRel(<, Nat)
<1>1. IsWellFoundedOn(R, Nat)
  BY NatLessThanWellFounded, Zenon
<1>2. \A j, k \in Nat : j < k => <<j, k>> \in R
  BY Zenon DEF OpToRel
<1> HIDE DEF R
<1>3. PICK m \in T : \A k \in T : ~(<<k, m>> \in R)
  BY <1>1, WFMin, Zenon
<1>4. ASSUME NEW k \in T
      PROVE  m <= k
  <2>1. m \in Nat /\ k \in Nat
    BY Zenon
  <2>2. ~ (k < m)
    BY <1>2, <1>3, <2>1, Zenon
  <2>3. QED
    BY <2>1, <2>2
<1>5. QED
  BY <1>4, Zenon

(* What Max returns, for the bounded sets of stamps it is used on.         *)
LEMMA MaxIs ==
  ASSUME NEW n \in Nat, NEW S, S \subseteq 0..n, S # {}
  PROVE  Max(S) \in S /\ \A x \in S : x <= Max(S)
<1> DEFINE T == {k \in Nat : n - k \in S}
<1>1. PICK x \in S : TRUE
  BY Zenon
<1>2. n - x \in Nat /\ n - (n - x) = x
  BY <1>1
<1>3. n - x \in T
  BY <1>1, <1>2, Zenon
<1>4. PICK m \in T : \A k \in T : m <= k
  BY <1>3, LeastNat, Zenon
<1>5. ASSUME NEW y \in S
      PROVE  n - m >= y
  <2>1. y \in 0..n
    BY Zenon
  <2>2. n - y \in Nat /\ n - (n - y) = y
    BY <2>1
  <2>3. m <= n - y
    BY <1>4, <2>2, Zenon
  <2>4. QED
    BY <2>1, <2>3
<1>6. \E z \in S : \A y \in S : z >= y
  BY <1>4, <1>5, Zenon
<1> DEFINE M == CHOOSE z \in S : \A y \in S : z >= y
<1>7. M \in S /\ \A y \in S : M >= y
  BY <1>6, Zenon
<1>8. Max(S) = M
  BY Zenon DEF Max
<1> HIDE DEF M
<1>9. \A y \in S : y <= M
  BY <1>7, Zenon
<1>10. QED
  BY <1>7, <1>8, <1>9, Zenon

(* The loop of recover() for given misreadings m: where it reads a size,   *)
(* whether the checksum agrees, and what it takes from position i on,      *)
(* given what it takes from the later positions.                           *)
Misreading == [{"crc", "data"} -> Misreads]

ReadSize(m, w, i) == IF w[i].is = "size" THEN PayloadSize ELSE m[w[i].is]

Agrees(m, w, i) ==
  /\ w[i+1].is = "crc" /\ ReadSize(m, w, i) = PayloadSize
  /\ \A k \in 1..PayloadSize : w[i+1+k] = Word("data", w[i+1].of, k)

Body(m, w, f, i) ==
  IF i + 1 > Len(w) THEN {}
  ELSE IF ReadSize(m, w, i) > MaxEntrySize THEN f[i + 2]
  ELSE IF i + 1 + ReadSize(m, w, i) > Len(w) THEN {}
  ELSE f[i + 2 + ReadSize(m, w, i)] \cup
         (IF Agrees(m, w, i) THEN {w[i+1].of} ELSE {})

(* The recursive function that Replay defines, by itself.                  *)
Run(m, w) == CHOOSE f : f = [i \in 1..Len(w)+1 |-> Body(m, w, f, i)]

(* Replay is the run from the first word.                                  *)
LEMMA ReplayIsRun == \A w : Replay(w) = Run(misread, w)[1]
BY Zenon DEF Replay, Run, Body, ReadSize, Agrees, SizeAt, ChecksumAgrees

(* A size read from the log is a number.                                   *)
LEMMA ReadSizeType ==
  ASSUME NEW m \in Misreading, NEW w \in Seq(Words), NEW i \in 1..Len(w)
  PROVE  ReadSize(m, w, i) \in Nat
<1>1. w[i] \in Words
  OBVIOUS
<1>2. w[i].is \in {"size", "crc", "data"}
  BY <1>1, Zenon DEF Words
<1>3. w[i].is # "size" => m[w[i].is] \in Nat
  BY <1>2, PersistenceAssumption, Zenon DEF Misreading
<1>4. QED
  BY <1>3, PersistenceAssumption DEF ReadSize

(* What is taken from position i on depends only on what is taken from     *)
(* later positions: reading always advances.                               *)
LEMMA BodyLocal ==
  ASSUME NEW m \in Misreading, NEW w \in Seq(Words),
         NEW i \in 1..Len(w)+1, NEW f, NEW g,
         \A j \in i+1..Len(w)+1 : f[j] = g[j]
  PROVE  Body(m, w, f, i) = Body(m, w, g, i)
<1>1. CASE i + 1 > Len(w)
  BY <1>1, Zenon DEF Body
<1>2. CASE i + 1 <= Len(w)
  <2> DEFINE size == ReadSize(m, w, i)
  <2>1. size \in Nat
    BY <1>2, ReadSizeType
  <2> HIDE DEF size
  <2>2. f[i+2] = g[i+2]
    BY <1>2
  <2>3. i + 1 + size <= Len(w) => f[i+2+size] = g[i+2+size]
    BY <1>2, <2>1
  <2>4. ~(i + 1 + size > Len(w)) => i + 1 + size <= Len(w)
    BY <1>2, <2>1
  <2>5. QED
    BY <1>2, <2>2, <2>3, <2>4, Zenon DEF Body, size
<1>3. QED
  BY <1>1, <1>2

(* The recursion is well founded, so the run satisfies its own definition. *)
LEMMA RunUnfolds ==
  ASSUME NEW m \in Misreading, NEW w \in Seq(Words)
  PROVE  Run(m, w) = [i \in 1..Len(w)+1 |-> Body(m, w, Run(m, w), i)]
<1> DEFINE N == Len(w) + 1
           Good(f, n) == \A i \in n..N : f[i] = Body(m, w, f, i)
           T == {n \in Nat : n \in 1..N+1 /\ \E f : Good(f, n)}
<1>1. N \in Nat
  OBVIOUS
<1>2. N + 1 \in T
  BY <1>1
<1>3. PICK n \in T : \A k \in T : n <= k
  BY <1>2, LeastNat, Zenon
<1>4. PICK f : Good(f, n)
  BY Zenon
<1>5. ASSUME n # 1
      PROVE  FALSE
  <2> DEFINE g == [i \in 1..N |-> IF i = n - 1 THEN Body(m, w, f, n - 1) ELSE f[i]]
  <2>1. n - 1 \in 1..N /\ n - 1 \in Nat /\ n - 1 \in 1..N+1
    BY <1>1, <1>5
  <2>2. ASSUME NEW i \in (n-1)..N
        PROVE  g[i] = Body(m, w, g, i)
    <3>1. i \in 1..N /\ n \in 1..N+1
      BY <2>1
    <3>2. \A j \in i+1..N : f[j] = g[j]
      BY <2>1, <3>1
    <3>3. Body(m, w, f, i) = Body(m, w, g, i)
      BY <3>1, <3>2, BodyLocal, Zenon
    <3>4. CASE i = n - 1
      BY <3>1, <3>3, <3>4, Zenon
    <3>5. CASE i # n - 1
      <4>1. i \in n..N
        BY <2>1, <3>1, <3>5
      <4>2. f[i] = Body(m, w, f, i)
        BY <1>4, <4>1, Zenon
      <4>3. g[i] = f[i]
        BY <3>1, <3>5, Zenon
      <4>4. QED
        BY <3>3, <4>2, <4>3, Zenon
    <3>6. QED
      BY <3>4, <3>5, Zenon
  <2>3. n - 1 \in T
    BY <2>1, <2>2, Zenon
  <2>4. n <= n - 1
    BY <1>3, <2>3, Zenon
  <2>5. QED
    BY <2>1, <2>4
<1>6. \E h : h = [i \in 1..Len(w)+1 |-> Body(m, w, h, i)]
  <2> DEFINE h == [i \in 1..N |-> f[i]]
  <2>1. ASSUME NEW i \in 1..N
        PROVE  f[i] = Body(m, w, h, i)
    <3>1. \A j \in i+1..N : f[j] = h[j]
      OBVIOUS
    <3>2. Body(m, w, f, i) = Body(m, w, h, i)
      BY <3>1, BodyLocal, Zenon
    <3>3. QED
      BY <1>4, <1>5, <3>2, Zenon
  <2>2. h = [i \in 1..N |-> Body(m, w, h, i)]
    BY <2>1, Zenon
  <2>3. QED
    BY <2>2, Zenon
<1>7. QED
  BY <1>6, Zenon DEF Run

(* The places of the last words of payloads.  An entry is in the log as a  *)
(* whole only when its last word is.                                       *)
LastWords(w) == {j \in 1..Len(w) : w[j] = Word("data", w[j].of, PayloadSize)}

(* Whatever the words of the log are, an entry passes the checksum only    *)
(* where its last payload word is.                                         *)
LEMMA RunChecked ==
  ASSUME NEW m \in Misreading, NEW w \in Seq(Words)
  PROVE  Run(m, w)[1] \subseteq {w[j].of : j \in LastWords(w)}
<1> DEFINE f == Run(m, w)
           N == Len(w) + 1
           D == {w[j].of : j \in LastWords(w)}
           T == {n \in Nat : n \in 1..N+1 /\ \A i \in n..N : f[i] \subseteq D}
<1>1. \A i \in 1..N : f[i] = Body(m, w, f, i)
  BY RunUnfolds, Zenon
<1> HIDE DEF f
<1>2. N + 1 \in T
  OBVIOUS
<1>3. PICK n \in T : \A k \in T : n <= k
  BY <1>2, LeastNat, Zenon
<1>4. ASSUME n # 1
      PROVE  FALSE
  <2> DEFINE i == n - 1
             size == ReadSize(m, w, i)
  <2>1. i \in 1..N /\ i \in Nat /\ i \in 1..N+1
    BY <1>4
  <2>2. \A j \in i+1..N : f[j] \subseteq D
    OBVIOUS
  <2>3. f[i] = Body(m, w, f, i)
    BY <1>1, <2>1, Zenon
  <2> HIDE DEF i
  <2>4. f[i] \subseteq D
    <3>1. CASE i + 1 > Len(w)
      BY <2>3, <3>1, Zenon DEF Body
    <3>2. CASE i + 1 <= Len(w)
      <4>1. size \in Nat
        BY <2>1, <3>2, ReadSizeType
      <4> HIDE DEF size
      <4>2. CASE size > MaxEntrySize
        <5>1. f[i] = f[i + 2]
          BY <2>1, <2>3, <3>2, <4>2 DEF Body, size
        <5>2. i + 2 \in i+1..N
          BY <2>1, <3>2
        <5>3. QED
          BY <2>2, <5>1, <5>2, Zenon
      <4>3. CASE ~(size > MaxEntrySize) /\ i + 1 + size > Len(w)
        BY <2>1, <2>3, <3>2, <4>3, Zenon DEF Body, size
      <4>4. CASE ~(size > MaxEntrySize) /\ i + 1 + size <= Len(w)
        <5>1. f[i] = f[i + 2 + size] \cup (IF Agrees(m, w, i) THEN {w[i+1].of} ELSE {})
          <6>1. ~(i + 1 > Len(w)) /\ ~(i + 1 + size > Len(w))
            BY <2>1, <3>2, <4>1, <4>4
          <6>2. QED
            BY <2>3, <4>4, <6>1, Zenon DEF Body, size
        <5>2. i + 2 + size \in i+1..N
          BY <2>1, <4>1, <4>4
        <5>3. f[i + 2 + size] \subseteq D
          BY <2>2, <5>2, Zenon
        <5>4. ASSUME Agrees(m, w, i)
              PROVE  w[i+1].of \in D
          <6> DEFINE j == i + 1 + PayloadSize
          <6>1. j \in 1..Len(w)
            BY <2>1, <4>4, <5>4, PersistenceAssumption DEF Agrees, size
          <6>2. w[j] = Word("data", w[i+1].of, PayloadSize)
            <7>1. PayloadSize \in 1..PayloadSize
              BY PersistenceAssumption
            <7>2. QED
              BY <5>4, <7>1, Zenon DEF Agrees
          <6>3. w[j].of = w[i+1].of
            BY <6>2 DEF Word
          <6>4. QED
            BY <6>1, <6>2, <6>3, Zenon DEF LastWords
        <5>5. QED
          BY <5>1, <5>3, <5>4, Zenon
      <4>5. QED
        BY <2>1, <4>1, <4>2, <4>3, <4>4
    <3>3. QED
      BY <2>1, <3>1, <3>2
  <2>5. i \in T
    <3>1. \A j \in i..N : f[j] \subseteq D
      BY <2>1, <2>2, <2>4
    <3>2. QED
      BY <2>1, <3>1, Zenon
  <2>6. n <= i
    BY <1>3, <2>5, Zenon
  <2>7. QED
    BY <2>1, <2>6 DEF i
<1>5. f[1] \subseteq D
  BY <1>4
<1>6. QED
  BY <1>5, Zenon DEF f

(* A whole entry with its header at g.                                     *)
Block(w, g) ==
  /\ g + PayloadSize + 1 <= Len(w) /\ w[g].is = "size"
  /\ w[g+1] = Word("crc", w[g].of, 0)
  /\ \A k \in 1..PayloadSize : w[g+1+k] = Word("data", w[g].of, k)

(* Whole entries one behind the other from the start of the log: the part  *)
(* of it that is in order whatever comes behind.                           *)
Starts(w, G) ==
  /\ G \subseteq 1..Len(w)
  /\ \A g \in G : Block(w, g) /\ (g = 1 \/ g - EntrySize \in G)

(* The loop takes a whole entry and goes on behind it.                     *)
LEMMA RunTakesBlock ==
  ASSUME NEW m \in Misreading, NEW w \in Seq(Words), NEW g \in 1..Len(w), Block(w, g)
  PROVE  Run(m, w)[g] = Run(m, w)[g + EntrySize] \cup {w[g].of}
<1> DEFINE f == Run(m, w)
<1>1. f[g] = Body(m, w, f, g)
  BY RunUnfolds
<1>2. w[g+1].is = "crc" /\ w[g+1].of = w[g].of
  BY DEF Block, Word
<1>3. PayloadSize \in Nat /\ ~(PayloadSize > MaxEntrySize) /\ Len(w) \in Nat
  BY PersistenceAssumption
<1>4. ~(g + 1 > Len(w)) /\ ~(g + 1 + PayloadSize > Len(w)) /\ g + 2 + PayloadSize = g + EntrySize
  BY <1>3 DEF Block, EntrySize
<1> HIDE DEF f
<1>5. Body(m, w, f, g) = f[g + 2 + PayloadSize] \cup {w[g].of}
  <2>1. ReadSize(m, w, g) = PayloadSize
    BY Zenon DEF ReadSize, Block
  <2>2. Agrees(m, w, g)
    BY <1>2, <2>1, Zenon DEF Agrees, Block
  <2>3. QED
    BY <1>2, <1>3, <1>4, <2>1, <2>2, Zenon DEF Body
<1>6. QED
  BY <1>1, <1>4, <1>5, Zenon DEF f

(* Replay returns every entry of the part in order, however damaged the    *)
(* rest is.                                                                *)
LEMMA RunTakesStarts ==
  ASSUME NEW m \in Misreading, NEW w \in Seq(Words), NEW G, Starts(w, G)
  PROVE  \A g \in G : w[g].of \in Run(m, w)[1]
<1> DEFINE f == Run(m, w)
           T == {g \in G : ~(f[g] \subseteq f[1])}
<1>1. \A g \in G : g \in 1..Len(w) /\ f[g] = f[g + EntrySize] \cup {w[g].of}
  BY RunTakesBlock DEF Starts
<1> HIDE DEF f
<1>2. T = {}
  <2> SUFFICES ASSUME T # {} PROVE FALSE
    BY Zenon
  <2>1. T \subseteq Nat
    BY <1>1
  <2>2. PICK g \in T : \A k \in T : g <= k
    BY <2>1, LeastNat, Zenon
  <2>3. g # 1 /\ g \in Nat /\ EntrySize \in Nat /\ EntrySize # 0
    BY <1>1, PersistenceAssumption DEF EntrySize
  <2>4. g - EntrySize \in G
    BY <2>3, Zenon DEF Starts
  <2>5. g - EntrySize + EntrySize = g /\ g - EntrySize \in Nat
    BY <1>1, <2>3, <2>4
  <2>6. f[g] \subseteq f[g - EntrySize]
    BY <1>1, <2>4, <2>5, Zenon
  <2>7. g - EntrySize \in T
    BY <2>4, <2>6, Zenon
  <2>8. QED
    BY <2>2, <2>3, <2>5, <2>7
<1>3. QED
  BY <1>1, <1>2, Zenon DEF f

(* The size of an entry.                                                   *)
LEMMA EntrySizeType == EntrySize \in Nat /\ EntrySize >= 3 /\ PayloadSize \in Nat /\ PayloadSize >= 1
BY PersistenceAssumption DEF EntrySize

(* The words of a serialized entry.                                        *)
LEMMA SerializedWords ==
  ASSUME NEW e \in Entries
  PROVE  /\ Serialized(e) \in Seq(Words) /\ Len(Serialized(e)) = EntrySize
         /\ Serialized(e)[1] = Word("size", e, 0) /\ Serialized(e)[2] = Word("crc", e, 0)
         /\ \A k \in 1..PayloadSize : Serialized(e)[k+2] = Word("data", e, k)
<1> DEFINE h == <<Word("size", e, 0), Word("crc", e, 0)>>
           d == [i \in 1..PayloadSize |-> Word("data", e, i)]
<1>1. \A k \in 1..PayloadSize : Word("data", e, k) \in Words
  BY Zenon DEF Word, Words
<1>2. Word("size", e, 0) \in Words /\ Word("crc", e, 0) \in Words
  BY Zenon DEF Word, Words
<1>3. d \in Seq(Words) /\ Len(d) = PayloadSize
  BY <1>1, EntrySizeType
<1>4. h \in Seq(Words) /\ Len(h) = 2 /\ h[1] = Word("size", e, 0) /\ h[2] = Word("crc", e, 0)
  BY <1>2
<1>5. Serialized(e) = h \o d
  BY Zenon DEF Serialized
<1>6. \A k \in 1..PayloadSize : d[k] = Word("data", e, k)
  BY Zenon
<1> HIDE DEF h, d
<1>7. h \o d \in Seq(Words) /\ Len(h \o d) = EntrySize
  <2>1. h \o d \in Seq(Words) /\ Len(h \o d) = Len(h) + Len(d)
    BY <1>3, <1>4, ConcatProperties, Zenon
  <2>2. 2 + PayloadSize = EntrySize
    BY EntrySizeType DEF EntrySize
  <2>3. QED
    BY <1>3, <1>4, <2>1, <2>2, Zenon
<1>8. \A i \in 1..Len(h) + Len(d) :
        (h \o d)[i] = IF i <= Len(h) THEN h[i] ELSE d[i - Len(h)]
  BY <1>3, <1>4, ConcatProperties, Zenon
<1>9. (h \o d)[1] = h[1] /\ (h \o d)[2] = h[2]
  BY <1>3, <1>4, <1>8, EntrySizeType
<1>10. ASSUME NEW k \in 1..PayloadSize
       PROVE  (h \o d)[k+2] = d[k]
  <2>1. k + 2 \in 1..Len(h) + Len(d) /\ ~(k + 2 <= Len(h)) /\ k + 2 - Len(h) = k
    BY <1>3, <1>4, EntrySizeType
  <2>2. (h \o d)[k+2] = IF k + 2 <= Len(h) THEN h[k+2] ELSE d[k + 2 - Len(h)]
    BY <1>8, <2>1
  <2>3. QED
    BY <2>1, <2>2, Zenon
<1>11. QED
  BY <1>4, <1>5, <1>6, <1>7, <1>9, <1>10, Zenon

(* What a write of n words of an entry makes of the log.                   *)
LEMMA WrittenWords ==
  ASSUME NEW w \in Seq(Words), NEW e \in Entries, NEW n \in 0..EntrySize
  PROVE  LET v == w \o SubSeq(Serialized(e), 1, n) IN
         /\ v \in Seq(Words) /\ Len(v) = Len(w) + n
         /\ \A i \in 1..Len(w) : v[i] = w[i]
         /\ \A i \in 1..n : v[Len(w) + i] = Serialized(e)[i]
<1> DEFINE x == Serialized(e)
           p == SubSeq(x, 1, n)
<1>1. x \in Seq(Words) /\ Len(x) = EntrySize
  BY SerializedWords, Zenon
<1> HIDE DEF x
<1>2. p \in Seq(Words) /\ Len(p) = n /\ \A i \in 1..n : p[i] = x[i]
  BY <1>1, EntrySizeType
<1> HIDE DEF p
<1>3. w \o p \in Seq(Words) /\ Len(w \o p) = Len(w) + n
  BY <1>2
<1>4. \A i \in 1..Len(w) : (w \o p)[i] = w[i]
  BY <1>2
<1>5. \A i \in 1..n : (w \o p)[Len(w) + i] = p[i]
  BY <1>2
<1>6. QED
  BY <1>2, <1>3, <1>4, <1>5, Zenon DEF x, p

(* A whole entry stays one when the log grows.                             *)
LEMMA BlockStays ==
  ASSUME NEW w \in Seq(Words), NEW v \in Seq(Words), Len(w) <= Len(v),
         \A i \in 1..Len(w) : v[i] = w[i],
         NEW g \in 1..Len(w), Block(w, g)
  PROVE  Block(v, g) /\ v[g] = w[g]
<1>1. v[g] = w[g]
  BY Zenon
<1>2. g + 1 \in 1..Len(w)
  BY EntrySizeType DEF Block
<1>3. v[g+1] = w[g+1]
  BY <1>2, Zenon
<1>4. ASSUME NEW k \in 1..PayloadSize
      PROVE  v[g+1+k] = w[g+1+k]
  <2>1. g + 1 + k \in 1..Len(w)
    BY EntrySizeType DEF Block
  <2>2. QED
    BY <2>1, Zenon
<1>5. g + PayloadSize + 1 <= Len(v)
  BY EntrySizeType DEF Block
<1>6. QED
  BY <1>1, <1>3, <1>4, <1>5, Zenon DEF Block

(* The part in order stays in order when the log grows, even by a torn     *)
(* write.                                                                  *)
LEMMA StartsStay ==
  ASSUME NEW w \in Seq(Words), NEW v \in Seq(Words), Len(w) <= Len(v),
         \A i \in 1..Len(w) : v[i] = w[i],
         NEW G, Starts(w, G)
  PROVE  Starts(v, G) /\ \A g \in G : v[g] = w[g]
<1>1. \A g \in G : g \in 1..Len(w) /\ Block(w, g)
  BY Zenon DEF Starts
<1>2. \A g \in G : Block(v, g) /\ v[g] = w[g]
  BY <1>1, BlockStays, Zenon
<1>3. G \subseteq 1..Len(v)
  BY <1>1
<1>4. QED
  BY <1>2, <1>3, Zenon DEF Starts

(* A complete write puts a whole entry behind the log.                     *)
LEMMA BlockWritten ==
  ASSUME NEW w \in Seq(Words), NEW e \in Entries
  PROVE  LET v == w \o SubSeq(Serialized(e), 1, EntrySize) IN
         Block(v, Len(w) + 1) /\ v[Len(w) + 1].of = e
<1> DEFINE v == w \o SubSeq(Serialized(e), 1, EntrySize)
           g == Len(w) + 1
<1>1. EntrySize \in 0..EntrySize
  BY EntrySizeType
<1>2. Len(v) = Len(w) + EntrySize /\ \A i \in 1..EntrySize : v[Len(w) + i] = Serialized(e)[i]
  BY <1>1, WrittenWords, Zenon
<1> HIDE DEF v
<1>3. v[g] = Word("size", e, 0)
  BY <1>2, SerializedWords, EntrySizeType
<1>4. v[g+1] = Word("crc", e, 0)
  <2>1. Len(w) + 2 = g + 1 /\ 2 \in 1..EntrySize
    BY EntrySizeType
  <2>2. QED
    BY <1>2, <2>1, SerializedWords, Zenon
<1>5. ASSUME NEW k \in 1..PayloadSize
      PROVE  v[g+1+k] = Word("data", e, k)
  <2>1. Len(w) + (k + 2) = g + 1 + k /\ k + 2 \in 1..EntrySize
    BY EntrySizeType DEF EntrySize
  <2>2. QED
    BY <1>2, <2>1, SerializedWords, Zenon
<1>6. g + PayloadSize + 1 <= Len(v)
  BY <1>2, EntrySizeType DEF EntrySize
<1>7. v[g].is = "size" /\ v[g].of = e
  BY <1>3 DEF Word
<1>8. Block(v, g) /\ v[g].of = e
  BY <1>4, <1>5, <1>6, <1>7, Zenon DEF Block
<1>9. QED
  BY <1>8, Zenon DEF v

(* A write adds the last word of a payload only when it is complete.       *)
LEMMA LastWordsWritten ==
  ASSUME NEW w \in Seq(Words), NEW e \in Entries, NEW n \in 0..EntrySize
  PROVE  LET v == w \o SubSeq(Serialized(e), 1, n) IN
         \A j \in LastWords(v) :
           (j \in LastWords(w) /\ v[j] = w[j]) \/ (n = EntrySize /\ v[j].of = e)
<1> DEFINE v == w \o SubSeq(Serialized(e), 1, n)
<1>1. /\ v \in Seq(Words) /\ Len(v) = Len(w) + n /\ Len(w) \in Nat /\ n \in Nat
      /\ \A i \in 1..Len(w) : v[i] = w[i]
      /\ \A i \in 1..n : v[Len(w) + i] = Serialized(e)[i]
  BY WrittenWords, EntrySizeType
<1> HIDE DEF v
<1>2. ASSUME NEW j \in LastWords(v)
      PROVE  (j \in LastWords(w) /\ v[j] = w[j]) \/ (n = EntrySize /\ v[j].of = e)
  <2>1. j \in 1..Len(v) /\ v[j] = Word("data", v[j].of, PayloadSize)
    BY Zenon DEF LastWords
  <2>2. CASE j <= Len(w)
    <3>1. j \in 1..Len(w) /\ v[j] = w[j]
      BY <1>1, <2>1, <2>2
    <3>2. QED
      BY <2>1, <3>1, Zenon DEF LastWords
  <2>3. CASE ~(j <= Len(w))
    <3> DEFINE i == j - Len(w)
    <3>1. i \in 1..n /\ i \in 1..EntrySize /\ Len(w) + i = j
      BY <1>1, <2>1, <2>3, EntrySizeType
    <3>2. v[j] = Serialized(e)[i]
      BY <1>1, <3>1, Zenon
    <3> HIDE DEF i
    <3>3. v[j].is = "data" /\ v[j].ix = PayloadSize
      BY <2>1 DEF Word
    <3>4. i # 1 /\ i # 2
      <4>1. Serialized(e)[1] = Word("size", e, 0) /\ Serialized(e)[2] = Word("crc", e, 0)
        BY SerializedWords, Zenon
      <4>2. Word("size", e, 0).is = "size" /\ Word("crc", e, 0).is = "crc"
        BY Zenon DEF Word
      <4>3. QED
        BY <3>2, <3>3, <4>1, <4>2, Zenon
    <3> DEFINE k == i - 2
    <3>5. k \in 1..PayloadSize /\ k + 2 = i
      BY <3>1, <3>4, EntrySizeType DEF EntrySize
    <3> HIDE DEF k
    <3>6. v[j] = Word("data", e, k)
      BY <3>2, <3>5, SerializedWords, Zenon
    <3>7. v[j].of = e /\ k = PayloadSize
      BY <3>3, <3>6 DEF Word
    <3>8. n = EntrySize
      BY <1>1, <3>1, <3>5, <3>7, EntrySizeType DEF EntrySize
    <3>9. QED
      BY <3>7, <3>8, Zenon
  <2>4. QED
    BY <2>2, <2>3, Zenon
<1>3. QED
  BY <1>2, Zenon DEF v

(* An undamaged log is a whole number of entries long.                     *)
LEMMA Blocks ==
  ASSUME NEW w \in Seq(Words), Undamaged(w)
  PROVE  LET q == Len(w) \div EntrySize IN
         /\ q \in Nat /\ Len(w) = q * EntrySize
         /\ \A k \in 0..q-1 : k * EntrySize \in Nat /\ k * EntrySize + EntrySize <= Len(w)
<1> DEFINE q == Len(w) \div EntrySize
<1>1. Len(w) \in Nat /\ EntrySize \in Nat /\ EntrySize > 0
  BY EntrySizeType
<1>2. q \in Nat /\ Len(w) = q * EntrySize
  BY <1>1 DEF Undamaged
<1>3. ASSUME NEW k \in 0..q-1
      PROVE  k * EntrySize \in Nat /\ k * EntrySize + EntrySize <= q * EntrySize
  <2> DEFINE d == q - 1 - k
  <2>1. d \in Nat /\ k \in Nat /\ q = k + 1 + d
    BY <1>2
  <2> HIDE DEF q, d
  <2>2. (k + 1 + d) * EntrySize = k * EntrySize + EntrySize + d * EntrySize
    BY <1>1, <2>1
  <2>3. d * EntrySize \in Nat /\ k * EntrySize \in Nat
    BY <1>1, <2>1
  <2>4. QED
    BY <1>1, <2>1, <2>2, <2>3
<1>4. QED
  BY <1>2, <1>3, Zenon

(* The j-th element of a part of a sequence.                               *)
LEMMA PartAt ==
  ASSUME NEW S, NEW w \in Seq(S), NEW s \in Nat, NEW d \in Nat, s + d <= Len(w), NEW j \in 1..d
  PROVE  SubSeq(w, s + 1, s + d)[j] = w[s + j]
OBVIOUS

(* Each entry of an undamaged log is whole.                                *)
LEMMA UndamagedBlock ==
  ASSUME NEW w \in Seq(Words), Undamaged(w), NEW k \in 0..(Len(w) \div EntrySize) - 1
  PROVE  Block(w, k * EntrySize + 1)
<1> DEFINE s == k * EntrySize
           e == w[s + 1].of
<1>1. s \in Nat /\ s + EntrySize <= Len(w)
  BY Blocks, Zenon
<1>2. (k + 1) * EntrySize = s + EntrySize
  BY Blocks, EntrySizeType
<1>3. SubSeq(w, s + 1, s + EntrySize) = Serialized(e)
  BY <1>2, Zenon DEF Undamaged
<1> HIDE DEF s
<1>4. e \in Entries
  <2>1. w[s + 1] \in Words
    BY <1>1, EntrySizeType
  <2>2. QED
    BY <2>1, Zenon DEF Words
<1>5. ASSUME NEW j \in 1..EntrySize
      PROVE  w[s + j] = Serialized(e)[j]
  <2>1. SubSeq(w, s + 1, s + EntrySize)[j] = w[s + j]
    BY <1>1, EntrySizeType, PartAt, Zenon
  <2>2. QED
    BY <1>3, <2>1, Zenon
<1> HIDE DEF e
<1>6. w[s + 1] = Word("size", e, 0)
  BY <1>4, <1>5, SerializedWords, EntrySizeType
<1>7. w[s + 1 + 1] = Word("crc", e, 0)
  <2>1. s + 1 + 1 = s + 2 /\ 2 \in 1..EntrySize
    BY <1>1, EntrySizeType
  <2>2. QED
    BY <1>4, <1>5, <2>1, SerializedWords, Zenon
<1>8. ASSUME NEW i \in 1..PayloadSize
      PROVE  w[s + 1 + 1 + i] = Word("data", e, i)
  <2>1. s + 1 + 1 + i = s + (i + 2) /\ i + 2 \in 1..EntrySize
    BY <1>1, EntrySizeType DEF EntrySize
  <2>2. QED
    BY <1>4, <1>5, <2>1, SerializedWords, Zenon
<1>9. s + 1 + PayloadSize + 1 <= Len(w)
  BY <1>1, EntrySizeType DEF EntrySize
<1>10. w[s + 1].is = "size" /\ w[s + 1].of = e
  BY <1>6 DEF Word
<1>11. QED
  BY <1>7, <1>8, <1>9, <1>10, Zenon DEF Block, s

(* The whole of an undamaged log is in order.                              *)
LEMMA UndamagedStarts ==
  ASSUME NEW w \in Seq(Words), Undamaged(w)
  PROVE  \E G : Starts(w, G) /\ (Len(w) = 0 \/ Len(w) + 1 - EntrySize \in G)
<1> DEFINE q == Len(w) \div EntrySize
           G == {k * EntrySize + 1 : k \in 0..q-1}
<1>1. q \in Nat /\ Len(w) = q * EntrySize /\ EntrySize \in Nat /\ EntrySize >= 3 /\ Len(w) \in Nat
  BY Blocks, EntrySizeType
<1>2. \A k \in 0..q-1 : k * EntrySize \in Nat /\ k * EntrySize + EntrySize <= Len(w)
  BY Blocks, Zenon
<1>3. \A k \in 0..q-1 : Block(w, k * EntrySize + 1)
  BY UndamagedBlock, Zenon
<1> HIDE DEF q
<1>4. ASSUME NEW k \in 0..q-1, k # 0
      PROVE  k * EntrySize + 1 - EntrySize \in G
  <2>1. k - 1 \in 0..q-1 /\ k \in Nat
    BY <1>1, <1>4
  <2>2. (k - 1) * EntrySize + 1 = k * EntrySize + 1 - EntrySize
    BY <1>1, <2>1
  <2>3. QED
    BY <2>1, <2>2, Zenon
<1>5. \A k \in 0..q-1 : k = 0 => k * EntrySize + 1 = 1
  BY <1>1
<1>6. G \subseteq 1..Len(w)
  BY <1>1, <1>2
<1>7. Starts(w, G)
  <2>1. ASSUME NEW g \in G
        PROVE  Block(w, g) /\ (g = 1 \/ g - EntrySize \in G)
    <3>1. PICK k \in 0..q-1 : g = k * EntrySize + 1
      BY Zenon
    <3> HIDE DEF G
    <3>2. Block(w, g)
      BY <1>3, <3>1, Zenon
    <3>3. CASE k = 0
      BY <1>5, <3>1, <3>2, <3>3, Zenon
    <3>4. CASE k # 0
      <4>1. k * EntrySize + 1 - EntrySize \in G
        BY <1>4, <3>4, Zenon
      <4>2. k * EntrySize + 1 - EntrySize = g - EntrySize
        BY <1>1, <1>2, <3>1
      <4>3. g - EntrySize \in G
        BY <4>1, <4>2, Zenon
      <4>4. QED
        BY <3>2, <4>3, Zenon
    <3>5. QED
      BY <3>3, <3>4, Zenon
  <2>2. QED
    BY <1>6, <2>1, Zenon DEF Starts
<1>8. CASE q = 0
  <2>1. Len(w) = 0
    BY <1>1, <1>8
  <2>2. QED
    BY <1>7, <2>1, Zenon
<1>9. CASE q # 0
  <2>1. q - 1 \in 0..q-1
    BY <1>1, <1>9
  <2>2. (q - 1) * EntrySize + 1 = q * EntrySize + 1 - EntrySize
    BY <1>1
  <2>3. Len(w) + 1 - EntrySize \in G
    BY <1>1, <2>1, <2>2, Zenon
  <2>4. QED
    BY <1>7, <2>3, Zenon
<1>10. QED
  BY <1>8, <1>9, Zenon

(* A part of a sequence is unchanged by what is put behind the sequence.   *)
LEMMA PrefixSubSeq ==
  ASSUME NEW w \in Seq(Words), NEW v \in Seq(Words), Len(w) <= Len(v),
         \A i \in 1..Len(w) : v[i] = w[i],
         NEW a \in Nat, NEW b \in Nat, 1 <= a, b <= Len(w)
  PROVE  SubSeq(v, a, b) = SubSeq(w, a, b)
<1>1. \A i \in a..b : i \in 1..Len(w) /\ i \in 1..Len(v)
  OBVIOUS
<1>2. \A i \in a..b : v[i] = w[i]
  BY <1>1, Zenon
<1>3. \A i \in a..b : v[i] \in Words
  BY <1>1
<1>4. \A i \in a..b : w[i] \in Words
  BY <1>1
<1>5. /\ SubSeq(v, a, b) \in Seq(Words) /\ SubSeq(w, a, b) \in Seq(Words)
      /\ Len(SubSeq(v, a, b)) = (IF a <= b THEN b - a + 1 ELSE 0)
      /\ Len(SubSeq(w, a, b)) = (IF a <= b THEN b - a + 1 ELSE 0)
      /\ \A i \in 1 .. b - a + 1 : SubSeq(v, a, b)[i] = v[a + i - 1]
      /\ \A i \in 1 .. b - a + 1 : SubSeq(w, a, b)[i] = w[a + i - 1]
  <2>1. a \in Int /\ b \in Int
    OBVIOUS
  <2>2. QED
    BY <1>3, <1>4, <2>1, SubSeqProperties
<1> DEFINE x == SubSeq(v, a, b)
           y == SubSeq(w, a, b)
<1> HIDE DEF x, y
<1>6. \A i \in 1 .. b - a + 1 : a + i - 1 \in a..b
  OBVIOUS
<1>7. Len(x) = Len(y) /\ \A i \in 1..Len(x) : x[i] = y[i]
  <2>1. 1..Len(x) \subseteq 1 .. b - a + 1 /\ Len(x) = Len(y)
    BY <1>5 DEF x, y
  <2>2. QED
    BY <1>2, <1>5, <1>6, <2>1, Zenon DEF x, y
<1>8. QED
  BY <1>5, <1>7, SeqEqual, Zenon DEF x, y

(* A complete write keeps an undamaged log undamaged.                      *)
LEMMA UndamagedGrows ==
  ASSUME NEW w \in Seq(Words), NEW e \in Entries, Undamaged(w)
  PROVE  Undamaged(w \o SubSeq(Serialized(e), 1, EntrySize))
<1> DEFINE v == w \o SubSeq(Serialized(e), 1, EntrySize)
           q == Len(w) \div EntrySize
<1>1. EntrySize \in 0..EntrySize /\ EntrySize \in Nat /\ EntrySize >= 3 /\ Len(w) \in Nat
  BY EntrySizeType
<1>2. /\ v \in Seq(Words) /\ Len(v) = Len(w) + EntrySize
      /\ \A i \in 1..Len(w) : v[i] = w[i]
      /\ \A i \in 1..EntrySize : v[Len(w) + i] = Serialized(e)[i]
  BY <1>1, WrittenWords, Zenon
<1>3. v[Len(w) + 1].of = e
  BY BlockWritten, Zenon
<1>4. q \in Nat /\ Len(w) = q * EntrySize
  BY Blocks, Zenon
<1>5. ASSUME NEW k \in 0..q-1
      PROVE  /\ k * EntrySize \in Nat /\ k * EntrySize + EntrySize <= Len(w)
             /\ (k + 1) * EntrySize = k * EntrySize + EntrySize
             /\ SubSeq(w, k * EntrySize + 1, (k + 1) * EntrySize)
                  = Serialized(w[k * EntrySize + 1].of)
  <2>1. k * EntrySize \in Nat /\ k * EntrySize + EntrySize <= Len(w)
    BY Blocks, Zenon
  <2>2. (k + 1) * EntrySize = k * EntrySize + EntrySize
    BY <1>1, <1>4
  <2>3. QED
    BY <2>1, <2>2, Zenon DEF Undamaged
<1> HIDE DEF v, q
<1>6. Len(v) % EntrySize = 0 /\ Len(v) \div EntrySize = q + 1
  <2>1. Len(v) = (q + 1) * EntrySize
    BY <1>1, <1>2, <1>4
  <2>2. QED
    BY <1>1, <1>4, <2>1
<1>7. ASSUME NEW k \in 0..q
      PROVE  SubSeq(v, k * EntrySize + 1, (k + 1) * EntrySize)
               = Serialized(v[k * EntrySize + 1].of)
  <2>1. CASE k = q
    <3>1. k * EntrySize = Len(w) /\ (k + 1) * EntrySize = Len(w) + EntrySize
      BY <1>1, <1>4, <2>1
    <3>2. SubSeq(v, Len(w) + 1, Len(w) + EntrySize) = Serialized(e)
      BY <1>1, <1>2, SerializedWords
    <3>3. QED
      BY <1>3, <3>1, <3>2, Zenon
  <2>2. CASE k # q
    <3> DEFINE s == k * EntrySize
    <3>1. k \in 0..q-1
      BY <1>4, <2>2
    <3>2. /\ s \in Nat /\ s + EntrySize <= Len(w)
          /\ (k + 1) * EntrySize = s + EntrySize
          /\ SubSeq(w, s + 1, s + EntrySize) = Serialized(w[s + 1].of)
      BY <1>5, <3>1, Zenon
    <3> HIDE DEF s
    <3>3. v[s + 1] = w[s + 1]
      <4>1. s \in Nat /\ s + EntrySize <= Len(w)
        BY <3>2, Zenon
      <4>2. s + 1 \in 1..Len(w)
        BY <1>1, <4>1
      <4>3. QED
        BY <1>2, <4>2, Zenon
    <3>4. SubSeq(v, s + 1, s + EntrySize) = SubSeq(w, s + 1, s + EntrySize)
      <4>1. s \in Nat /\ Len(v) = Len(w) + EntrySize
        BY <1>2, <3>2, Zenon
      <4>2. s + 1 \in Nat /\ 1 <= s + 1 /\ s + EntrySize \in Nat /\ Len(w) <= Len(v)
        BY <1>1, <4>1
      <4>3. QED
        BY <1>2, <3>2, <4>2, PrefixSubSeq, Zenon
    <3>5. QED
      BY <3>2, <3>3, <3>4, Zenon DEF s
  <2>3. QED
    BY <2>1, <2>2, Zenon
<1>8. 0..(q + 1) - 1 = 0..q
  BY <1>4
<1>9. Undamaged(v)
  BY <1>6, <1>7, <1>8, Zenon DEF Undamaged
<1>10. QED
  BY <1>9, Zenon DEF v

=============================================================================
