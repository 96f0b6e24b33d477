---------------------------- MODULE ResponseProofs ----------------------------
(***************************************************************************)
(* Theorems about the bytes of responses, for every machine the server may *)
(* run on: what is packed is parsed, what is printed is what was answered, *)
(* and how long an answer may be.                                          *)
(***************************************************************************)
EXTENDS ExchangeProofs, WellFoundedInduction, FiniteSetTheorems

(***************************************************************************)
(* Induction, for sets: a set that is well-founded has a least element.    *)
(***************************************************************************)
LEMMA Less == IsWellFoundedOn({ss \in Nat \X Nat : ss[1] < ss[2]}, Nat)
BY NatLessThanWellFounded DEF OpToRel

LEMMA Induction ==
    ASSUME NEW S, 0 \in S, \A n \in Nat : n \in S => n + 1 \in S
    PROVE  \A n \in Nat : n \in S
<1> DEFINE T == Nat \ S
           R == {ss \in Nat \X Nat : ss[1] < ss[2]}
<1>1. T \subseteq Nat
  OBVIOUS
<1>2. ASSUME T # {} PROVE FALSE
  <2>1. PICK n \in T : \A m \in T : ~(<<m, n>> \in R)
    <3> HIDE DEF T, R
    <3>1. IsWellFoundedOn(R, Nat)
      BY Less DEF R
    <3>2. QED  BY <1>1, <1>2, <3>1, WFMin
  <2>2. n # 0 /\ n \in Nat /\ n - 1 \in Nat
    OBVIOUS
  <2>3. n - 1 \notin T
    <3>1. SUFFICES ASSUME n - 1 \in T PROVE FALSE
      OBVIOUS
    <3>2. ~(<<n - 1, n>> \in R)
      BY <2>1, <3>1
    <3>3. n - 1 < n
      BY <2>2
    <3>4. QED  BY <2>2, <3>2, <3>3
  <2>4. n = (n - 1) + 1 /\ n - 1 \in S
    BY <2>2, <2>3
  <2>5. n \in S
    BY <2>2, <2>4
  <2>6. QED  BY <2>5
<1>3. QED  BY <1>2

\* Up to a bound.
LEMMA InductionTo ==
    ASSUME NEW n \in Nat, NEW S, 0 \in S, \A i \in 0 .. n - 1 : i \in S => i + 1 \in S
    PROVE  \A i \in 0 .. n : i \in S
<1> DEFINE T == {i \in Nat : i <= n => i \in S}
<1>1. 0 \in T
  OBVIOUS
<1>2. ASSUME NEW i \in Nat, i \in T PROVE i + 1 \in T
  <2>1. CASE i + 1 <= n
    <3>1. i \in 0 .. n - 1 /\ i \in S
      BY <1>2, <2>1
    <3>2. QED  BY <3>1
  <2>2. CASE ~(i + 1 <= n)
    BY <2>2
  <2>3. QED  BY <2>1, <2>2
<1>3. \A i \in Nat : i \in T
  <2> HIDE DEF T
  <2>1. QED  BY <1>1, <1>2, Induction
<1>4. QED  BY <1>3

(***************************************************************************)
(* Sequences put together from parts.                                      *)
(***************************************************************************)
\* F[i] is the first i of the sequences, one behind the other: what FlattenSeq defines.
IsFlat(F, seqs, n) ==
    F = [i \in 1 .. n |-> IF i = 1 THEN seqs[i] ELSE F[i - 1] \o seqs[i]]

LEMMA FlatExists ==
    ASSUME NEW seqs
    PROVE  \A n \in Nat : \E F : IsFlat(F, seqs, n)
<1> DEFINE S == {n \in Nat : \E F : IsFlat(F, seqs, n)}
<1>1. 0 \in S
  <2>1. IsFlat([i \in 1 .. 0 |-> 0], seqs, 0)
    BY DEF IsFlat
  <2>2. QED  BY <2>1
<1>2. ASSUME NEW n \in Nat, n \in S PROVE n + 1 \in S
  <2>1. PICK F : IsFlat(F, seqs, n)
    BY <1>2
  <2> DEFINE G == [i \in 1 .. n + 1 |-> IF i = 1 THEN seqs[i] ELSE F[i - 1] \o seqs[i]]
  <2>2. \A i \in 1 .. n : G[i] = F[i]
    <3>1. \A i \in 1 .. n : i \in 1 .. n + 1
      OBVIOUS
    <3>2. \A i \in 1 .. n : G[i] = IF i = 1 THEN seqs[i] ELSE F[i - 1] \o seqs[i]
      BY <3>1, Zenon
    <3>3. \A i \in 1 .. n : F[i] = IF i = 1 THEN seqs[i] ELSE F[i - 1] \o seqs[i]
      <4>1. TAKE i \in 1 .. n
      <4>2. [k \in 1 .. n |-> IF k = 1 THEN seqs[k] ELSE F[k - 1] \o seqs[k]][i]
              = IF i = 1 THEN seqs[i] ELSE F[i - 1] \o seqs[i]
        OBVIOUS
      <4>3. QED  BY <2>1, <4>2, Zenon DEF IsFlat
    <3>4. QED  BY <3>2, <3>3, Zenon
  <2>3. \A i \in 1 .. n + 1 : i = 1 \/ i - 1 \in 1 .. n
    OBVIOUS
  <2>4. IsFlat(G, seqs, n + 1)
    BY <2>2, <2>3, Zenon DEF IsFlat
  <2>5. QED  BY <2>4
<1>3. \A n \in Nat : n \in S
  <2> HIDE DEF S
  <2>1. QED  BY <1>1, <1>2, Induction
<1>4. QED  BY <1>3

\* T[i] is the first i of n sequences, one behind the other.
Walks(T, seqs, n) == T[0] = <<>> /\ \A i \in 1 .. n : T[i] = T[i - 1] \o seqs[i]

LEMMA Flattened ==
    ASSUME NEW S, NEW n \in Nat, NEW seqs \in [1 .. n -> Seq(S)]
    PROVE  \E T \in [0 .. n -> Seq(S)] : Walks(T, seqs, n) /\ FlattenSeq(seqs) = T[n]
<1>1. Len(seqs) = n /\ seqs \in Seq(Seq(S))
  OBVIOUS
<1>2. PICK F : IsFlat(F, seqs, n) /\ (n # 0 => FlattenSeq(seqs) = F[n])
  <2> DEFINE G == CHOOSE f : f = [i \in 1 .. Len(seqs) |-> IF i = 1 THEN seqs[i] ELSE f[i - 1] \o seqs[i]]
  <2>1. n # 0 => FlattenSeq(seqs) = G[n]
    BY <1>1 DEF FlattenSeq
  <2>2. IsFlat(G, seqs, n)
    <3>1. \E f : f = [i \in 1 .. Len(seqs) |-> IF i = 1 THEN seqs[i] ELSE f[i - 1] \o seqs[i]]
      BY <1>1, FlatExists DEF IsFlat
    <3>2. QED  BY <1>1, <3>1, Zenon DEF IsFlat
  <2>3. QED  BY <2>1, <2>2
<1> DEFINE T == [i \in 0 .. n |-> IF i = 0 THEN <<>> ELSE F[i]]
<1>3. \A i \in 1 .. n : F[i] = IF i = 1 THEN seqs[i] ELSE F[i - 1] \o seqs[i]
  <2>1. TAKE i \in 1 .. n
  <2>2. [k \in 1 .. n |-> IF k = 1 THEN seqs[k] ELSE F[k - 1] \o seqs[k]][i]
          = IF i = 1 THEN seqs[i] ELSE F[i - 1] \o seqs[i]
    OBVIOUS
  <2>3. QED  BY <1>2, <2>2, Zenon DEF IsFlat
<1>4. T[0] = <<>> /\ \A i \in 1 .. n : T[i] = F[i]
  OBVIOUS
<1>5. \A i \in 1 .. n : T[i] = T[i - 1] \o seqs[i]
  <2>1. TAKE i \in 1 .. n
  <2>2. seqs[i] \in Seq(S)
    OBVIOUS
  <2>3. CASE i = 1
    <3>1. T[i] = seqs[i] /\ T[i - 1] = <<>>
      BY <1>3, <1>4, <2>3
    <3>2. QED  BY <2>2, <3>1, ConcatEmptySeq
  <2>4. CASE i # 1
    <3>1. i - 1 \in 1 .. n
      BY <2>4
    <3>2. T[i - 1] = F[i - 1] /\ T[i] = F[i]
      BY <1>4, <3>1
    <3> HIDE DEF T
    <3>3. QED  BY <1>3, <2>4, <3>2
  <2>5. QED  BY <2>3, <2>4
<1>6. \A i \in 0 .. n : T[i] \in Seq(S)
  <2> DEFINE I == {i \in 0 .. n : T[i] \in Seq(S)}
  <2>1. 0 \in I
    BY <1>4
  <2>2. ASSUME NEW i \in 0 .. n - 1, i \in I PROVE i + 1 \in I
    <3>1. i + 1 \in 1 .. n /\ (i + 1) - 1 = i /\ i + 1 \in 0 .. n
      OBVIOUS
    <3>2. seqs[i + 1] \in Seq(S) /\ T[i] \in Seq(S)
      BY <2>2, <3>1
    <3>3. T[i + 1] = T[i] \o seqs[i + 1]
      <4> HIDE DEF T
      <4>1. QED  BY <1>5, <3>1
    <3> HIDE DEF T
    <3>4. T[i + 1] \in Seq(S)
      BY <3>2, <3>3
    <3>5. QED  BY <3>1, <3>4
  <2>3. \A i \in 0 .. n : i \in I
    <3> HIDE DEF I
    <3>1. QED  BY <2>1, <2>2, InductionTo
  <2>4. QED  BY <2>3
<1>7. T \in [0 .. n -> Seq(S)]
  BY <1>6
<1>8. FlattenSeq(seqs) = T[n]
  <2>1. CASE n = 0
    <3>1. FlattenSeq(seqs) = seqs /\ seqs = <<>>
      BY <1>1, <2>1 DEF FlattenSeq
    <3>2. QED  BY <1>4, <2>1, <3>1
  <2>2. CASE n # 0
    BY <1>2, <1>4, <2>2
  <2>3. QED  BY <2>1, <2>2
<1> HIDE DEF T
<1>9. QED  BY <1>4, <1>5, <1>7, <1>8 DEF Walks

\* s stands in cells from place at on.
Lies(s, cells, at) ==
    /\ at + Len(s) - 1 <= Len(cells)
    /\ \A j \in 1 .. Len(s) : cells[at + j - 1] = s[j]

LEMMA LiesJoined ==
    ASSUME NEW S, NEW s \in Seq(S), NEW t \in Seq(S), NEW cells, Len(cells) \in Nat,
           NEW at \in Nat \ {0}, Lies(s \o t, cells, at)
    PROVE  Lies(s, cells, at) /\ Lies(t, cells, at + Len(s)) /\ at + Len(s) \in Nat \ {0}
<1> DEFINE f == s \o t
<1>1. /\ Len(s) \in Nat /\ Len(t) \in Nat
      /\ Len(f) = Len(s) + Len(t)
      /\ \A i \in 1 .. Len(s) : f[i] = s[i]
      /\ \A i \in 1 .. Len(t) : f[Len(s) + i] = t[i]
  <2>1. f \in Seq(S) /\ IsJoin(f, s, t)
    BY Joined
  <2> HIDE DEF f
  <2>2. QED  BY <2>1 DEF IsJoin
<1>2. /\ at + Len(f) - 1 <= Len(cells)
      /\ \A j \in 1 .. Len(f) : cells[at + j - 1] = f[j]
  BY DEF Lies
<1> HIDE DEF f
<1>3. Lies(s, cells, at)
  <2>1. \A i \in 1 .. Len(s) : i \in 1 .. Len(f)
    BY <1>1
  <2>2. at + Len(s) - 1 <= Len(cells)
    BY <1>1, <1>2
  <2>3. QED  BY <1>1, <1>2, <2>1, <2>2 DEF Lies
<1>4. Lies(t, cells, at + Len(s))
  <2>1. \A i \in 1 .. Len(t) : Len(s) + i \in 1 .. Len(f) /\ at + (Len(s) + i) - 1 = (at + Len(s)) + i - 1
    BY <1>1
  <2>2. (at + Len(s)) + Len(t) - 1 <= Len(cells)
    BY <1>1, <1>2
  <2>3. \A i \in 1 .. Len(t) : cells[(at + Len(s)) + i - 1] = t[i]
    <3>1. TAKE i \in 1 .. Len(t)
    <3>2. cells[at + (Len(s) + i) - 1] = f[Len(s) + i]
      BY <1>2, <2>1
    <3>3. QED  BY <1>1, <2>1, <3>2
  <2>4. QED  BY <2>2, <2>3 DEF Lies
<1>5. QED  BY <1>1, <1>3, <1>4

\* P has the places of sequences that stand in cells one behind the other.
Placed(P, seqs, n, cells, at) ==
    /\ P \in [1 .. n + 1 -> Nat \ {0}]
    /\ P[1] = at
    /\ \A i \in 1 .. n : P[i + 1] = P[i] + Len(seqs[i]) /\ Lies(seqs[i], cells, P[i])

LEMMA Parts ==
    ASSUME NEW S, NEW n \in Nat, NEW seqs \in [1 .. n -> Seq(S)], NEW cells, Len(cells) \in Nat,
           NEW at \in Nat \ {0}, Lies(FlattenSeq(seqs), cells, at)
    PROVE  \E P : Placed(P, seqs, n, cells, at) /\ P[n + 1] = at + Len(FlattenSeq(seqs))
<1>1. PICK T \in [0 .. n -> Seq(S)] : Walks(T, seqs, n) /\ FlattenSeq(seqs) = T[n]
  BY Flattened
<1>2. /\ T[0] = <<>> /\ Len(T[0]) = 0
      /\ \A i \in 0 .. n : T[i] \in Seq(S) /\ Len(T[i]) \in Nat
      /\ \A i \in 1 .. n : seqs[i] \in Seq(S) /\ Len(seqs[i]) \in Nat
      /\ \A i \in 1 .. n : i - 1 \in 0 .. n /\ i \in 0 .. n /\ T[i] = T[i - 1] \o seqs[i]
  <2>1. T[0] = <<>> /\ \A i \in 1 .. n : T[i] = T[i - 1] \o seqs[i]
    BY <1>1 DEF Walks
  <2>2. \A i \in 1 .. n : i - 1 \in 0 .. n /\ i \in 0 .. n
    OBVIOUS
  <2>3. \A i \in 0 .. n : T[i] \in Seq(S) /\ Len(T[i]) \in Nat
    OBVIOUS
  <2>4. \A i \in 1 .. n : seqs[i] \in Seq(S) /\ Len(seqs[i]) \in Nat
    OBVIOUS
  <2>5. Len(<<>>) = 0
    OBVIOUS
  <2>6. QED  BY <2>1, <2>2, <2>3, <2>4, <2>5
<1>3. \A k \in 0 .. n : Lies(T[n - k], cells, at)
  <2> DEFINE I == {k \in 0 .. n : Lies(T[n - k], cells, at)}
  <2>1. 0 \in I
    BY <1>1
  <2>2. ASSUME NEW k \in 0 .. n - 1, k \in I PROVE k + 1 \in I
    <3>1. n - k \in 1 .. n /\ (n - k) - 1 = n - (k + 1) /\ k + 1 \in 0 .. n
      OBVIOUS
    <3>2. Lies(T[n - k], cells, at)
      BY <2>2
    <3>3. T[n - k] = T[(n - k) - 1] \o seqs[n - k] /\ T[(n - k) - 1] \in Seq(S) /\ seqs[n - k] \in Seq(S)
      BY <1>2, <3>1
    <3>4. Lies(T[(n - k) - 1], cells, at)
      BY <3>2, <3>3, LiesJoined
    <3>5. QED  BY <3>1, <3>4
  <2>3. \A k \in 0 .. n : k \in I
    <3> HIDE DEF I
    <3>1. QED  BY <2>1, <2>2, InductionTo
  <2>4. QED  BY <2>3
<1>4. \A i \in 0 .. n : Lies(T[i], cells, at)
  <2>1. \A i \in 0 .. n : n - i \in 0 .. n /\ n - (n - i) = i
    OBVIOUS
  <2>2. QED  BY <1>3, <2>1
<1> DEFINE P == [i \in 1 .. n + 1 |-> at + Len(T[i - 1])]
<1>5. \A i \in 1 .. n + 1 : i - 1 \in 0 .. n
  OBVIOUS
<1>6. P \in [1 .. n + 1 -> Nat \ {0}]
  BY <1>2, <1>5
<1>7. P[1] = at /\ P[n + 1] = at + Len(T[n])
  <2>1. 1 \in 1 .. n + 1 /\ n + 1 \in 1 .. n + 1 /\ 1 - 1 = 0 /\ (n + 1) - 1 = n /\ at + 0 = at
    OBVIOUS
  <2>2. \A i \in 1 .. n + 1 : P[i] = at + Len(T[i - 1])
    OBVIOUS
  <2> HIDE DEF P
  <2>3. P[1] = at + Len(T[0]) /\ P[n + 1] = at + Len(T[n])
    BY <2>1, <2>2
  <2>4. QED  BY <1>2, <2>1, <2>3
<1>8. ASSUME NEW i \in 1 .. n
      PROVE  P[i + 1] = P[i] + Len(seqs[i]) /\ Lies(seqs[i], cells, P[i])
  <2>1. P[i] = at + Len(T[i - 1]) /\ P[i + 1] = at + Len(T[i])
    BY <1>5
  <2> HIDE DEF P
  <2>2. /\ Lies(T[i - 1] \o seqs[i], cells, at) /\ T[i - 1] \in Seq(S) /\ seqs[i] \in Seq(S)
        /\ T[i] = T[i - 1] \o seqs[i]
    <3>1. i \in 0 .. n /\ i - 1 \in 0 .. n /\ T[i] = T[i - 1] \o seqs[i]
      BY <1>2
    <3>2. QED  BY <1>2, <1>4, <3>1
  <2>3. Lies(seqs[i], cells, P[i])
    <3>1. Lies(seqs[i], cells, at + Len(T[i - 1]))
      BY <2>2, LiesJoined
    <3>2. QED  BY <2>1, <3>1
  <2>4. Len(T[i]) = Len(T[i - 1]) + Len(seqs[i]) /\ Len(T[i - 1]) \in Nat /\ Len(seqs[i]) \in Nat
    BY <1>2, <2>2, ConcatProperties
  <2>5. QED  BY <2>1, <2>3, <2>4
<1> HIDE DEF P
<1>9. QED  BY <1>1, <1>6, <1>7, <1>8 DEF Placed

\* What is put together stands where it is.
LEMMA LiesInItself ==
    ASSUME NEW S, NEW s \in Seq(S)
    PROVE  Lies(s, s, 1)
<1>1. Len(s) \in Nat /\ \A j \in 1 .. Len(s) : 1 + j - 1 = j
  OBVIOUS
<1>2. QED  BY <1>1 DEF Lies

LEMMA FlattenedType ==
    ASSUME NEW S, NEW n \in Nat, NEW seqs \in [1 .. n -> Seq(S)]
    PROVE  FlattenSeq(seqs) \in Seq(S)
BY Flattened

\* n sequences of k elements have n * k.
LEMMA EqualParts ==
    ASSUME NEW S, NEW n \in Nat, NEW seqs \in [1 .. n -> Seq(S)], NEW k \in Nat,
           \A i \in 1 .. n : Len(seqs[i]) = k
    PROVE  Len(FlattenSeq(seqs)) = n * k
<1> DEFINE s == FlattenSeq(seqs)
<1>1. s \in Seq(S) /\ Len(s) \in Nat /\ Lies(s, s, 1)
  BY FlattenedType, LiesInItself
<1>2. PICK P : Placed(P, seqs, n, s, 1) /\ P[n + 1] = 1 + Len(s)
  BY <1>1, Parts
<1> HIDE DEF s
<1> DEFINE I == {i \in 0 .. n : P[i + 1] = 1 + i * k}
<1>3. 0 \in I
  BY <1>2 DEF Placed
<1>4. ASSUME NEW i \in 0 .. n - 1, i \in I PROVE i + 1 \in I
  <2>1. i + 1 \in 1 .. n /\ i + 1 \in 0 .. n /\ i \in Nat
    OBVIOUS
  <2>2. P[(i + 1) + 1] = P[i + 1] + k /\ P[i + 1] = 1 + i * k
    BY <1>2, <1>4, <2>1 DEF Placed
  <2>3. ASSUME NEW a \in Nat PROVE (1 + a * k) + k = 1 + (a + 1) * k
    BY SMT
  <2>4. P[(i + 1) + 1] = 1 + (i + 1) * k
    BY <2>1, <2>2, <2>3
  <2>5. QED  BY <2>1, <2>4
<1>5. n \in 0 .. n /\ \A i \in 0 .. n : i \in I
  <2> HIDE DEF I
  <2>1. \A i \in 0 .. n : i \in I
    BY <1>3, <1>4, InductionTo
  <2>2. QED  BY <2>1
<1>6. P[n + 1] = 1 + n * k /\ n * k \in Nat
  BY <1>5
<1>7. QED  BY <1>1, <1>2, <1>6 DEF s

(***************************************************************************)
(* Fields.                                                                 *)
(***************************************************************************)
\* A field is a word of its width, or any number of bytes.
IsValue(v, f) == v \in Seq(Byte) /\ (f \in DOMAIN Width => Len(v) = Width[f])

\* What is stored of it: bytes have their number in front.
Stored(v, f) == IF f \in DOMAIN Width THEN v ELSE Word(SIZE, Len(v)) \o v

LEMMA StoredType ==
    ASSUME NEW v, NEW f, IsValue(v, f)
    PROVE  /\ Stored(v, f) \in Seq(Byte)
           /\ Len(Stored(v, f)) = IF f \in DOMAIN Width THEN Width[f] ELSE 8 + Len(v)
<1>1. v \in Seq(Byte) /\ Len(v) \in Nat
  BY DEF IsValue
<1>2. Word(SIZE, Len(v)) \in Seq(Byte) /\ Len(Word(SIZE, Len(v))) = 8
  BY <1>1, SizeWord DEF SIZE
<1>3. Word(SIZE, Len(v)) \o v \in Seq(Byte) /\ Len(Word(SIZE, Len(v)) \o v) = 8 + Len(v)
  <2> DEFINE size == Word(SIZE, Len(v))
  <2> HIDE DEF size
  <2>1. size \in Seq(Byte) /\ Len(size) = 8
    BY <1>2 DEF size
  <2>2. size \o v \in Seq(Byte) /\ IsJoin(size \o v, size, v)
    BY <1>1, <2>1, Joined
  <2>3. QED  BY <2>1, <2>2 DEF IsJoin, size
<1>4. QED  BY <1>1, <1>3 DEF Stored, IsValue

LEMMA OneByte ==
    ASSUME NEW b \in Byte
    PROVE  <<b>> \in Seq(Byte) /\ Len(<<b>>) = 1 /\ <<b>>[1] = b /\ InMemory(hton_generic(<<b>>)) = <<b>>
<1>1. <<b>> \in Seq(Byte) /\ Len(<<b>>) = 1 /\ <<b>>[1] = b
  OBVIOUS
<1>2. QED  BY <1>1, SwappedTwice DEF InMemory, hton_generic

\* push writes what is stored.
LEMMA PushedField ==
    ASSUME NEW v, NEW f, IsValue(v, f)
    PROVE  PushField(Empty, v, f) = Stored(v, f)
<1>1. v \in Seq(Byte) /\ Len(v) \in Nat
  BY DEF IsValue
<1>2. \A w \in Seq(Byte) : Push(Empty, w) = w
  BY Pushed, ConcatEmptySeq DEF Empty
<1>3. CASE f \in DOMAIN Width
  BY <1>1, <1>2, <1>3 DEF PushField, Stored
<1>4. CASE f \notin DOMAIN Width
  <2> DEFINE words == [i \in 1 .. Len(v) |-> <<v[i]>>]
             flat == [i \in 1 .. Len(words) * 1 |->
                        InMemory(hton_generic(words[1 + ((i - 1) \div 1)]))[1 + ((i - 1) % 1)]]
  <2>1. Len(words) = Len(v) /\ \A i \in 1 .. Len(v) : words[i] = <<v[i]>>
    BY <1>1
  <2> HIDE DEF words
  <2>2. Len(words) * 1 = Len(v)
    BY <1>1, <2>1
  <2>3. \A i \in 1 .. Len(v) : flat[i] = v[i]
    <3>1. TAKE i \in 1 .. Len(v)
    <3>2. 1 + ((i - 1) \div 1) = i /\ 1 + ((i - 1) % 1) = 1
      <4>1. i - 1 \in Nat /\ (i - 1) + 1 = i
        OBVIOUS
      <4>2. ASSUME NEW k \in Nat PROVE k \div 1 = k /\ k % 1 = 0
        BY SMT
      <4>3. (i - 1) \div 1 = i - 1 /\ (i - 1) % 1 = 0
        BY <4>1, <4>2
      <4>4. QED  BY <4>1, <4>3
    <3>3. flat[i] = InMemory(hton_generic(words[i]))[1]
      BY <2>2, <3>2
    <3>4. v[i] \in Byte
      BY <1>1
    <3>5. QED  BY <2>1, <3>3, <3>4, OneByte
  <2>4. flat = v
    <3>1. flat = [i \in 1 .. Len(v) |-> flat[i]]
      BY <2>2
    <3>2. v = [i \in 1 .. Len(v) |-> v[i]]
      BY <1>1
    <3> HIDE DEF flat
    <3>3. QED  BY <2>3, <3>1, <3>2
  <2>5. PushField(Empty, v, f) = Push(Empty, Word(SIZE, Len(words) * 1)) \o flat
    BY <1>4 DEF PushField, PushArray, words
  <2>6. Push(Empty, Word(SIZE, Len(v))) = Word(SIZE, Len(v))
    BY <1>1, <1>2, SizeWord
  <2> HIDE DEF flat
  <2>7. QED  BY <1>4, <2>2, <2>4, <2>5, <2>6 DEF Stored
<1>5. QED  BY <1>3, <1>4

\* A word is popped where it stands.
LEMMA PoppedWord ==
    ASSUME NEW w \in Seq(Byte), NEW cells \in Seq(Byte), NEW at \in Nat \ {0}, Lies(w, cells, at)
    PROVE  Popped(cells, at, Len(w)) = w
<1>1. Len(w) \in Nat /\ at + Len(w) - 1 <= Len(cells)
  BY DEF Lies
<1> DEFINE u == Popped(cells, at, Len(w))
<1>2. u \in Seq(Byte) /\ Len(u) = Len(w) /\ \A j \in 1 .. Len(w) : u[j] = cells[at + j - 1]
  BY <1>1, PoppedCells, ZenonT(40)
<1>3. \A j \in 1 .. Len(w) : u[j] = w[j]
  BY <1>2 DEF Lies
<1> HIDE DEF u
<1>4. u = w
  BY <1>2, <1>3, SeqEqual
<1>5. QED  BY <1>4 DEF u

\* pop and pop(size) find a field where it is stored, and the place behind it.
LEMMA FieldRead ==
    ASSUME NEW v, NEW f, IsValue(v, f), NEW cells \in Seq(Byte), Len(cells) < LIMIT,
           NEW at \in Nat \ {0}, Lies(Stored(v, f), cells, at)
    PROVE  Field(cells, at, f) = v /\ Behind(cells, at, f) = at + Len(Stored(v, f))
<1>1. v \in Seq(Byte) /\ Len(v) \in Nat /\ Len(cells) \in Nat
  BY DEF IsValue
<1>2. CASE f \in DOMAIN Width
  <2>1. Stored(v, f) = v /\ Len(v) = Width[f]
    BY <1>2 DEF Stored, IsValue
  <2>2. QED  BY <1>1, <1>2, <2>1, PoppedWord DEF Field, Behind
<1>3. CASE f \notin DOMAIN Width
  <2> DEFINE size == Word(SIZE, Len(v))
  <2>1. size \in Seq(Byte) /\ Len(size) = 8 /\ SIZE = 8 /\ Stored(v, f) = size \o v
    BY <1>1, <1>3, SizeWord DEF SIZE, Stored
  <2>2. Len(Stored(v, f)) = 8 + Len(v)
    BY <1>3, StoredType
  <2> HIDE DEF size
  <2>3. Lies(size, cells, at) /\ Lies(v, cells, at + 8)
    BY <1>1, <2>1, LiesJoined
  <2>4. Len(v) < LIMIT
    <3>1. (at + 8) + Len(v) - 1 <= Len(cells)
      BY <2>3 DEF Lies
    <3>2. LIMIT \in Nat
      BY DEF LIMIT
    <3>3. QED  BY <1>1, <3>1, <3>2
  <2>5. ArraySize(cells, at) = Len(v)
    <3>1. Popped(cells, at, SIZE) = size
      BY <2>1, <2>3, PoppedWord
    <3>2. Number(size) = Len(v)
      BY <1>1, <2>4, NumberOfWord DEF size
    <3>3. QED  BY <3>1, <3>2 DEF ArraySize
  <2> DEFINE read == PoppedArray(cells, at, 1)
  <2>6. \A i \in 1 .. Len(v) : read[i][1] = v[i]
    <3>1. TAKE i \in 1 .. Len(v)
    <3>2. at + SIZE + (i - 1) * 1 = (at + 8) + i - 1 /\ (at + 8) + i - 1 \in Nat \ {0}
      BY <2>1
    <3>3. v[i] \in Byte
      BY <1>1
    <3>4. Lies(<<v[i]>>, cells, (at + 8) + i - 1)
      <4>1. Len(<<v[i]>>) = 1 /\ <<v[i]>>[1] = v[i]
        OBVIOUS
      <4>2. cells[(at + 8) + i - 1] = v[i] /\ (at + 8) + Len(v) - 1 <= Len(cells)
        BY <2>3 DEF Lies
      <4>3. ((at + 8) + i - 1) + 1 - 1 <= Len(cells) /\ ((at + 8) + i - 1) + 1 - 1 = (at + 8) + i - 1
        BY <1>1, <4>2
      <4>4. QED  BY <4>1, <4>2, <4>3 DEF Lies
    <3>5. Popped(cells, (at + 8) + i - 1, 1) = <<v[i]>>
      BY <3>2, <3>3, <3>4, OneByte, PoppedWord
    <3>6. read[i] = Popped(cells, at + SIZE + (i - 1) * 1, 1)
      BY <2>5 DEF PoppedArray
    <3>7. read[i] = <<v[i]>>
      BY <3>2, <3>5, <3>6
    <3> HIDE DEF read
    <3>8. QED  BY <3>7
  <2>7. Field(cells, at, f) = [i \in 1 .. Len(v) |-> read[i][1]]
    BY <1>3, <2>5 DEF Field
  <2>8. v = [i \in 1 .. Len(v) |-> v[i]]
    BY <1>1
  <2> HIDE DEF read
  <2>9. Field(cells, at, f) = v
    BY <2>6, <2>7, <2>8
  <2>10. Behind(cells, at, f) = at + (8 + Len(v))
    BY <1>1, <1>3, <2>1, <2>5 DEF Behind
  <2>11. QED  BY <2>2, <2>9, <2>10
<1>4. QED  BY <1>2, <1>3

(***************************************************************************)
(* Places that are read one after the other.                               *)
(***************************************************************************)
\* The first k of a list of places.
First(P, k) == [j \in 1 .. k |-> P[j]]

LEMMA FirstGrows ==
    ASSUME NEW n \in Nat, NEW P \in [1 .. n + 1 -> Nat \ {0}]
    PROVE  /\ First(P, 1) = <<P[1]>>
           /\ First(P, n + 1) = P
           /\ \A i \in 1 .. n : /\ Last(First(P, i)) = P[i]
                               /\ Append(First(P, i), P[i + 1]) = First(P, i + 1)
<1>1. First(P, 1) = <<P[1]>>
  BY DEF First
<1>2. First(P, n + 1) = P
  BY DEF First
<1>3. ASSUME NEW i \in 1 .. n
      PROVE  Last(First(P, i)) = P[i] /\ Append(First(P, i), P[i + 1]) = First(P, i + 1)
  <2>1. i \in Nat /\ i + 1 \in 1 .. n + 1 /\ \A j \in 1 .. i + 1 : P[j] \in Nat
    OBVIOUS
  <2>2. First(P, i) \in Seq(Nat) /\ Len(First(P, i)) = i /\ \A j \in 1 .. i : First(P, i)[j] = P[j]
    BY <2>1 DEF First
  <2>3. Last(First(P, i)) = P[i]
    BY <2>1, <2>2 DEF Last
  <2>4. First(P, i + 1) \in Seq(Nat) /\ Len(First(P, i + 1)) = i + 1
        /\ \A j \in 1 .. i + 1 : First(P, i + 1)[j] = P[j]
    BY <2>1 DEF First
  <2> DEFINE s == First(P, i)
             t == First(P, i + 1)
  <2> HIDE DEF s, t
  <2>5. Append(s, P[i + 1]) = t
    <3>1. s \in Seq(Nat) /\ Len(s) = i /\ \A j \in 1 .. i : s[j] = P[j]
      BY <2>2 DEF s
    <3>2. t \in Seq(Nat) /\ Len(t) = i + 1 /\ \A j \in 1 .. i + 1 : t[j] = P[j]
      BY <2>4 DEF t
    <3>3. P[i + 1] \in Nat
      BY <2>1
    <3> DEFINE u == Append(s, P[i + 1])
    <3>4. u \in Seq(Nat) /\ Len(u) = i + 1 /\ (\A j \in 1 .. i : u[j] = s[j]) /\ u[i + 1] = P[i + 1]
      BY <2>1, <3>1, <3>3, AppendProperties
    <3> HIDE DEF u
    <3>5. \A j \in 1 .. i + 1 : u[j] = t[j]
      <4>1. TAKE j \in 1 .. i + 1
      <4>2. j \in 1 .. i \/ j = i + 1
        BY <2>1
      <4>3. QED  BY <3>1, <3>2, <3>4, <4>2
    <3>6. u = t
      BY <3>2, <3>4, <3>5, SeqEqual
    <3>7. QED  BY <3>6 DEF u
  <2>6. QED  BY <2>3, <2>5 DEF s, t
<1>4. QED  BY <1>1, <1>2, <1>3

\* The places a loop finds are P, where each follows from the one before.
FieldPlaces(P, cells, fields, n) ==
    /\ n \in Nat /\ Len(fields) = n /\ P \in [1 .. n + 1 -> Nat \ {0}]
    /\ \A i \in 1 .. n : P[i + 1] = Behind(cells, P[i], fields[i])

LEMMA PlacesFound ==
    ASSUME NEW cells, NEW fields, NEW n, NEW P, FieldPlaces(P, cells, fields, n)
    PROVE  Places(cells, P[1], fields) = P
<1> DEFINE Is(U) == U = [i \in 0 .. Len(fields) |->
                 IF i = 0 THEN <<P[1]>>
                 ELSE Append(U[i - 1], Behind(cells, Last(U[i - 1]), fields[i]))]
           C == [i \in 0 .. n |-> First(P, i + 1)]
           U == CHOOSE u : Is(u)
<1>a. /\ n \in Nat /\ Len(fields) = n
      /\ \A i \in 1 .. n : P[i + 1] = Behind(cells, P[i], fields[i])
  BY DEF FieldPlaces
<1>b. /\ First(P, 1) = <<P[1]>>
      /\ First(P, n + 1) = P
      /\ \A i \in 1 .. n : /\ Last(First(P, i)) = P[i]
                          /\ Append(First(P, i), P[i + 1]) = First(P, i + 1)
  <2>1. n \in Nat /\ P \in [1 .. n + 1 -> Nat \ {0}]
    BY DEF FieldPlaces
  <2>2. QED  BY <2>1, FirstGrows
<1>1. Is(C)
  <2>1. \A i \in 0 .. n : C[i] = IF i = 0 THEN <<P[1]>>
                               ELSE Append(C[i - 1], Behind(cells, Last(C[i - 1]), fields[i]))
    <3>1. TAKE i \in 0 .. n
    <3>2. CASE i = 0
      BY <1>a, <1>b, <3>2
    <3>3. CASE i # 0
      <4>1. i \in 1 .. n /\ i - 1 \in 0 .. n /\ (i - 1) + 1 = i
        BY <1>a, <3>3
      <4>2. C[i - 1] = First(P, i) /\ C[i] = First(P, i + 1)
        BY <4>1
      <4> HIDE DEF C
      <4>3. Last(C[i - 1]) = P[i] /\ Append(C[i - 1], P[i + 1]) = C[i]
        BY <1>a, <1>b, <4>1, <4>2, Zenon
      <4>4. QED  BY <1>a, <3>3, <4>1, <4>3
    <3>4. QED  BY <3>2, <3>3
  <2>2. C = [i \in 0 .. n |-> C[i]]
    BY <1>a
  <2> HIDE DEF C
  <2>3. QED  BY <1>a, <2>1, <2>2
<1>2. Is(U)
  BY <1>1, Zenon
<1>3. Places(cells, P[1], fields) = U[n]
  <2>1. Places(cells, P[1], fields) = U[Len(fields)]
    BY Zenon DEF Places
  <2>2. QED  BY <1>a, <2>1, Zenon
<1>4. U[0] = <<P[1]>> /\ \A i \in 1 .. n : U[i] = Append(U[i - 1], Behind(cells, Last(U[i - 1]), fields[i]))
  <2> HIDE DEF U
  <2>1. \A i \in 0 .. n : U[i] = IF i = 0 THEN <<P[1]>>
                               ELSE Append(U[i - 1], Behind(cells, Last(U[i - 1]), fields[i]))
    <3>1. TAKE i \in 0 .. n
    <3>2. [k \in 0 .. n |-> IF k = 0 THEN <<P[1]>>
                 ELSE Append(U[k - 1], Behind(cells, Last(U[k - 1]), fields[k]))][i]
            = IF i = 0 THEN <<P[1]>> ELSE Append(U[i - 1], Behind(cells, Last(U[i - 1]), fields[i]))
      BY <1>a
    <3>3. QED  BY <1>2, <1>a, <3>2, Zenon
  <2>2. 0 \in 0 .. n /\ \A i \in 1 .. n : i \in 0 .. n /\ i # 0
    BY <1>a
  <2>3. QED  BY <1>a, <2>1, <2>2
<1> HIDE DEF U, C, Is
<1> DEFINE I == {i \in 0 .. n : U[i] = First(P, i + 1)}
<1>5. 0 \in I
  <2>1. U[0] = First(P, 0 + 1) /\ 0 \in 0 .. n
    BY <1>a, <1>b, <1>4
  <2>2. QED  BY <2>1
<1>6. ASSUME NEW i \in 0 .. n - 1, i \in I PROVE i + 1 \in I
  <2>1. i + 1 \in 1 .. n /\ (i + 1) - 1 = i /\ i + 1 \in 0 .. n
    BY <1>a
  <2>2. U[i + 1] = Append(U[i], Behind(cells, Last(U[i]), fields[i + 1]))
    BY <1>4, <2>1
  <2>3. U[i] = First(P, i + 1)
    BY <1>6
  <2>4. Last(U[i]) = P[i + 1] /\ Append(U[i], P[(i + 1) + 1]) = First(P, (i + 1) + 1)
    BY <1>a, <1>b, <2>1, <2>3, Zenon
  <2>5. QED  BY <1>a, <2>1, <2>2, <2>4
<1>7. \A i \in 0 .. n : i \in I
  <2> HIDE DEF I
  <2>1. QED  BY <1>5, <1>6, <1>a, InductionTo
<1>8. U[n] = First(P, n + 1)
  BY <1>7, <1>a
<1>9. QED  BY <1>a, <1>b, <1>3, <1>8

\* So are the places of elements.
ElementPlaces(P, cells, fields, n) ==
    /\ n \in Nat /\ P \in [1 .. n + 1 -> Nat \ {0}]
    /\ \A i \in 1 .. n : P[i + 1] = Last(Places(cells, P[i], fields))

LEMMA StartsFound ==
    ASSUME NEW cells, NEW fields, NEW n, NEW P, ElementPlaces(P, cells, fields, n)
    PROVE  Starts(cells, P[1], fields, n) = P
<1> DEFINE Is(U) == U = [i \in 0 .. n |->
                 IF i = 0 THEN <<P[1]>>
                 ELSE Append(U[i - 1], Last(Places(cells, Last(U[i - 1]), fields)))]
           C == [i \in 0 .. n |-> First(P, i + 1)]
           U == CHOOSE u : Is(u)
<1>a. /\ n \in Nat 
      /\ \A i \in 1 .. n : P[i + 1] = Last(Places(cells, P[i], fields))
  BY DEF ElementPlaces
<1>b. /\ First(P, 1) = <<P[1]>>
      /\ First(P, n + 1) = P
      /\ \A i \in 1 .. n : /\ Last(First(P, i)) = P[i]
                          /\ Append(First(P, i), P[i + 1]) = First(P, i + 1)
  <2>1. n \in Nat /\ P \in [1 .. n + 1 -> Nat \ {0}]
    BY DEF ElementPlaces
  <2>2. QED  BY <2>1, FirstGrows
<1>1. Is(C)
  <2>1. \A i \in 0 .. n : C[i] = IF i = 0 THEN <<P[1]>>
                               ELSE Append(C[i - 1], Last(Places(cells, Last(C[i - 1]), fields)))
    <3>1. TAKE i \in 0 .. n
    <3>2. CASE i = 0
      BY <1>a, <1>b, <3>2
    <3>3. CASE i # 0
      <4>1. i \in 1 .. n /\ i - 1 \in 0 .. n /\ (i - 1) + 1 = i
        BY <1>a, <3>3
      <4>2. C[i - 1] = First(P, i) /\ C[i] = First(P, i + 1)
        BY <4>1
      <4> HIDE DEF C
      <4>3. Last(C[i - 1]) = P[i] /\ Append(C[i - 1], P[i + 1]) = C[i]
        BY <1>a, <1>b, <4>1, <4>2, Zenon
      <4>4. QED  BY <1>a, <3>3, <4>1, <4>3
    <3>4. QED  BY <3>2, <3>3
  <2>2. C = [i \in 0 .. n |-> C[i]]
    BY <1>a
  <2> HIDE DEF C
  <2>3. QED  BY <1>a, <2>1, <2>2
<1>2. Is(U)
  BY <1>1, Zenon
<1>3. Starts(cells, P[1], fields, n) = U[n]
  BY Zenon DEF Starts
<1>4. U[0] = <<P[1]>> /\ \A i \in 1 .. n : U[i] = Append(U[i - 1], Last(Places(cells, Last(U[i - 1]), fields)))
  <2> HIDE DEF U
  <2>1. \A i \in 0 .. n : U[i] = IF i = 0 THEN <<P[1]>>
                               ELSE Append(U[i - 1], Last(Places(cells, Last(U[i - 1]), fields)))
    <3>1. TAKE i \in 0 .. n
    <3>2. [k \in 0 .. n |-> IF k = 0 THEN <<P[1]>>
                 ELSE Append(U[k - 1], Last(Places(cells, Last(U[k - 1]), fields)))][i]
            = IF i = 0 THEN <<P[1]>> ELSE Append(U[i - 1], Last(Places(cells, Last(U[i - 1]), fields)))
      BY <1>a
    <3>3. QED  BY <1>2, <1>a, <3>2, Zenon
  <2>2. 0 \in 0 .. n /\ \A i \in 1 .. n : i \in 0 .. n /\ i # 0
    BY <1>a
  <2>3. QED  BY <1>a, <2>1, <2>2
<1> HIDE DEF U, C, Is
<1> DEFINE I == {i \in 0 .. n : U[i] = First(P, i + 1)}
<1>5. 0 \in I
  <2>1. U[0] = First(P, 0 + 1) /\ 0 \in 0 .. n
    BY <1>a, <1>b, <1>4
  <2>2. QED  BY <2>1
<1>6. ASSUME NEW i \in 0 .. n - 1, i \in I PROVE i + 1 \in I
  <2>1. i + 1 \in 1 .. n /\ (i + 1) - 1 = i /\ i + 1 \in 0 .. n
    BY <1>a
  <2>2. U[i + 1] = Append(U[i], Last(Places(cells, Last(U[i]), fields)))
    BY <1>4, <2>1
  <2>3. U[i] = First(P, i + 1)
    BY <1>6
  <2>4. Last(U[i]) = P[i + 1] /\ Append(U[i], P[(i + 1) + 1]) = First(P, (i + 1) + 1)
    BY <1>a, <1>b, <2>1, <2>3, Zenon
  <2>5. QED  BY <1>a, <2>1, <2>2, <2>4
<1>7. \A i \in 0 .. n : i \in I
  <2> HIDE DEF I
  <2>1. QED  BY <1>5, <1>6, <1>a, InductionTo
<1>8. U[n] = First(P, n + 1)
  BY <1>7, <1>a
<1>9. QED  BY <1>a, <1>b, <1>3, <1>8

(***************************************************************************)
(* Records and lists of records.                                           *)
(***************************************************************************)
\* No field stands twice.
Listing(fields) ==
    /\ Len(fields) \in Nat /\ DOMAIN fields = 1 .. Len(fields)
    /\ \A i, j \in 1 .. Len(fields) : fields[i] = fields[j] => i = j

\* e is a record of these fields.
IsElement(e, fields) ==
    /\ e = [f \in ToSet(fields) |-> e[f]]
    /\ \A i \in 1 .. Len(fields) : IsValue(e[fields[i]], fields[i])

\* What is stored of its fields.
Parcels(fields, e) == [i \in 1 .. Len(fields) |-> Stored(e[fields[i]], fields[i])]

LEMMA PushedFields ==
    ASSUME NEW fields, Listing(fields), NEW e, IsElement(e, fields)
    PROVE  /\ Parcels(fields, e) \in [1 .. Len(fields) -> Seq(Byte)]
           /\ PushFields(fields, e) = FlattenSeq(Parcels(fields, e))
           /\ PushFields(fields, e) \in Seq(Byte)
<1>1. \A i \in 1 .. Len(fields) : /\ Stored(e[fields[i]], fields[i]) \in Seq(Byte)
                                  /\ PushField(Empty, e[fields[i]], fields[i]) = Stored(e[fields[i]], fields[i])
  BY StoredType, PushedField DEF IsElement
<1>2. Parcels(fields, e) \in [1 .. Len(fields) -> Seq(Byte)]
  BY <1>1 DEF Parcels
<1>3. [i \in DOMAIN fields |-> PushField(Empty, e[fields[i]], fields[i])] = Parcels(fields, e)
  BY <1>1 DEF Parcels, Listing
<1>4. PushFields(fields, e) = FlattenSeq(Parcels(fields, e))
  BY <1>3 DEF PushFields
<1>5. Len(fields) \in Nat
  BY DEF Listing
<1>6. QED  BY <1>2, <1>4, <1>5, FlattenedType

\* The constructor that parses a record pops what pack pushed, and stops behind it.
LEMMA ElementRead ==
    ASSUME NEW fields, Listing(fields), NEW e, IsElement(e, fields),
           NEW cells \in Seq(Byte), Len(cells) < LIMIT, NEW at \in Nat \ {0},
           Lies(PushFields(fields, e), cells, at)
    PROVE  /\ PopFields(cells, at, fields) = e
           /\ Last(Places(cells, at, fields)) = at + Len(PushFields(fields, e))
<1> DEFINE n == Len(fields)
           seqs == Parcels(fields, e)
<1>1. n \in Nat /\ DOMAIN fields = 1 .. n /\ Len(cells) \in Nat
  BY DEF Listing
<1>2. seqs \in [1 .. n -> Seq(Byte)] /\ PushFields(fields, e) = FlattenSeq(seqs)
  BY PushedFields
<1> HIDE DEF seqs
<1>3. PICK P : Placed(P, seqs, n, cells, at) /\ P[n + 1] = at + Len(FlattenSeq(seqs))
  BY <1>1, <1>2, Parts
<1>4. /\ P \in [1 .. n + 1 -> Nat \ {0}] /\ P[1] = at
      /\ \A i \in 1 .. n : P[i] \in Nat \ {0} /\ P[i + 1] = P[i] + Len(seqs[i]) /\ Lies(seqs[i], cells, P[i])
  <2>1. \A i \in 1 .. n : i \in 1 .. n + 1
    BY <1>1
  <2>2. QED  BY <1>3, <2>1 DEF Placed
<1>5. \A i \in 1 .. n : /\ Field(cells, P[i], fields[i]) = e[fields[i]]
                        /\ P[i + 1] = Behind(cells, P[i], fields[i])
  <2>1. TAKE i \in 1 .. n
  <2>2. seqs[i] = Stored(e[fields[i]], fields[i])
    BY DEF seqs, Parcels
  <2>3. IsValue(e[fields[i]], fields[i])
    BY DEF IsElement
  <2>4. P[i] \in Nat \ {0} /\ Lies(Stored(e[fields[i]], fields[i]), cells, P[i])
    BY <1>4, <2>2
  <2>5. QED  BY <1>4, <2>2, <2>3, <2>4, FieldRead
<1>6. Places(cells, at, fields) = P
  <2>1. n \in Nat /\ Len(fields) = n
    BY <1>1
  <2>2. P \in [1 .. n + 1 -> Nat \ {0}] /\ \A i \in 1 .. n : P[i + 1] = Behind(cells, P[i], fields[i])
    BY <1>4, <1>5
  <2> HIDE DEF n
  <2>3. Places(cells, P[1], fields) = P
    <3>1. FieldPlaces(P, cells, fields, n)
      BY <2>1, <2>2 DEF FieldPlaces
    <3>2. QED  BY <3>1, PlacesFound
  <2>4. QED  BY <1>4, <2>3
<1>7. \A i \in 1 .. n : Index(fields, fields[i]) = i
  <2>1. TAKE i \in 1 .. n
  <2>2. Contains(fields, fields[i])
    BY DEF Contains
  <2>3. \A j \in DOMAIN fields : fields[j] = fields[i] => j = i
    BY <1>1 DEF Listing
  <2>4. QED  BY <1>1, <2>2, <2>3 DEF Index
<1>8. \A f \in ToSet(fields) : Field(cells, P[Index(fields, f)], f) = e[f]
  <2>1. TAKE f \in ToSet(fields)
  <2>2. PICK i \in 1 .. n : f = fields[i]
    BY <1>1 DEF ToSet
  <2>3. QED  BY <1>5, <1>7, <2>2
<1>9. PopFields(cells, at, fields) = e
  <2>1. PopFields(cells, at, fields) = [f \in ToSet(fields) |-> Field(cells, P[Index(fields, f)], f)]
    BY <1>6 DEF PopFields
  <2>2. e = [f \in ToSet(fields) |-> e[f]]
    BY DEF IsElement
  <2>3. [f \in ToSet(fields) |-> Field(cells, P[Index(fields, f)], f)] = [f \in ToSet(fields) |-> e[f]]
    BY <1>8
  <2>4. QED  BY <2>1, <2>2, <2>3, Zenon
<1>10. Last(P) = P[n + 1]
  <2>1. Len(P) = n + 1
    BY <1>1, <1>4
  <2>2. QED  BY <2>1 DEF Last
<1>11. QED  BY <1>2, <1>3, <1>6, <1>9, <1>10

\* The packed elements of a list.
Elements(fields, content) == [i \in 1 .. Len(content) |-> PushFields(fields, content[i])]

AreElements(content, fields) ==
    /\ Len(content) \in Nat
    /\ \A i \in 1 .. Len(content) : IsElement(content[i], fields)

\* The loop that parses a list finds its elements.
LEMMA ElementsRead ==
    ASSUME NEW fields, Listing(fields), NEW content, AreElements(content, fields),
           NEW cells \in Seq(Byte), Len(cells) < LIMIT, NEW at \in Nat \ {0},
           Lies(FlattenSeq(Elements(fields, content)), cells, at)
    PROVE  \A i \in 1 .. Len(content) :
              PopFields(cells, Starts(cells, at, fields, Len(content))[i], fields) = content[i]
<1> DEFINE n == Len(content)
           seqs == Elements(fields, content)
<1>1. seqs \in [1 .. n -> Seq(Byte)] /\ \A i \in 1 .. n : seqs[i] = PushFields(fields, content[i])
  <2>1. \A i \in 1 .. n : PushFields(fields, content[i]) \in Seq(Byte)
    BY PushedFields DEF AreElements
  <2>2. QED  BY <2>1 DEF Elements
<1>2. Len(cells) \in Nat /\ n \in Nat
  BY DEF AreElements
<1> HIDE DEF seqs
<1>3. PICK P : Placed(P, seqs, n, cells, at)
  BY <1>1, <1>2, Parts DEF seqs
<1>4. /\ P \in [1 .. n + 1 -> Nat \ {0}] /\ P[1] = at
      /\ \A i \in 1 .. n : P[i] \in Nat \ {0} /\ P[i + 1] = P[i] + Len(seqs[i]) /\ Lies(seqs[i], cells, P[i])
  <2>1. \A i \in 1 .. n : i \in 1 .. n + 1
    BY <1>2
  <2>2. QED  BY <1>3, <2>1 DEF Placed
<1>5. \A i \in 1 .. n : /\ PopFields(cells, P[i], fields) = content[i]
                        /\ P[i + 1] = Last(Places(cells, P[i], fields))
  <2>1. TAKE i \in 1 .. n
  <2> DEFINE e == content[i]
             p == P[i]
  <2>2. IsElement(e, fields) /\ p \in Nat \ {0} /\ Lies(PushFields(fields, e), cells, p)
    BY <1>1, <1>4 DEF AreElements
  <2>3. P[i + 1] = p + Len(PushFields(fields, e))
    BY <1>1, <1>4
  <2> HIDE DEF e, p
  <2>4. PopFields(cells, p, fields) = e /\ Last(Places(cells, p, fields)) = p + Len(PushFields(fields, e))
    BY <2>2, ElementRead
  <2>5. QED  BY <2>3, <2>4 DEF e, p
<1>6. Starts(cells, at, fields, n) = P
  <2>1. P \in [1 .. n + 1 -> Nat \ {0}] /\ (\A i \in 1 .. n : P[i + 1] = Last(Places(cells, P[i], fields))) /\ n \in Nat
    BY <1>2, <1>4, <1>5
  <2> HIDE DEF n
  <2>2. Starts(cells, P[1], fields, n) = P
    <3>1. ElementPlaces(P, cells, fields, n)
      BY <2>1 DEF ElementPlaces
    <3>2. QED  BY <3>1, StartsFound
  <2>3. QED  BY <1>4, <2>2
<1>7. QED  BY <1>5, <1>6

(***************************************************************************)
(* Packed responses.                                                       *)
(***************************************************************************)
\* The parsing constructors read the fields that pack pushes.
LEMMA FieldLists ==
    ASSUME NEW t, t \in ToSet(ResponseTypes)
    PROVE  Listing(Fields[t]) /\ Reads[t] = Fields[t] /\ t # "invalid"
<1>1. t \in {"os", "time", "memory", "drives", "rights", "owner"}
  BY DEF ToSet, ResponseTypes
<1>2. CASE t = "os"
  BY <1>2 DEF Listing, Fields, Reads
<1>3. CASE t = "time"
  BY <1>3 DEF Listing, Fields, Reads
<1>4. CASE t = "memory"
  BY <1>4 DEF Listing, Fields, Reads
<1>5. CASE t = "drives"
  BY <1>5 DEF Listing, Fields, Reads
<1>6. CASE t = "rights"
  BY <1>6 DEF Listing, Fields, Reads
<1>7. CASE t = "owner"
  BY <1>7 DEF Listing, Fields, Reads
<1>8. QED  BY <1>1, <1>2, <1>3, <1>4, <1>5, <1>6, <1>7

\* What a handler may return.
IsResponse(r) ==
    /\ r = [type |-> r.type, content |-> r.content]
    /\ r.type \in ToSet(ResponseTypes)
    /\ r.type \in Lists =>
         /\ Len(r.content) \in Nat /\ Len(r.content) < LIMIT
         /\ r.content = [i \in 1 .. Len(r.content) |-> r.content[i]]
         /\ \A i \in 1 .. Len(r.content) : IsElement(r.content[i], Fields[r.type])
    /\ r.type \notin Lists => IsElement(r.content, Fields[r.type])

\* A packed response: its size as it is in memory, its type, and its content; a list
\* has the number of its elements in front.
HoldsResponse(p, r) ==
    /\ p \in Seq(Byte) /\ Len(p) \in Nat /\ Len(p) >= 9
    /\ \A j \in 1 .. SIZE : p[j] = Swapped(Word(SIZE, Len(p)))[j]
    /\ Named(ResponseTypes, <<p[9]>>) = r.type
    /\ r.type \in Lists =>
         LET listed == FlattenSeq(Elements(Fields[r.type], r.content)) IN
         /\ Len(p) = 17 + Len(listed)
         /\ Lies(Word(SIZE, Len(r.content)), p, 10) /\ Lies(listed, p, 18)
    /\ r.type \notin Lists =>
         LET fields == PushFields(Fields[r.type], r.content) IN
         Len(p) = 9 + Len(fields) /\ Lies(fields, p, 10)

LEMMA ElementsType ==
    ASSUME NEW fields, Listing(fields), NEW content, Len(content) \in Nat,
           \A i \in 1 .. Len(content) : IsElement(content[i], fields)
    PROVE  /\ Elements(fields, content) \in [1 .. Len(content) -> Seq(Byte)]
           /\ FlattenSeq(Elements(fields, content)) \in Seq(Byte)
<1>1. \A i \in 1 .. Len(content) : PushFields(fields, content[i]) \in Seq(Byte)
  BY PushedFields
<1>2. Elements(fields, content) \in [1 .. Len(content) -> Seq(Byte)]
  BY <1>1 DEF Elements
<1>3. QED  BY <1>2, FlattenedType

\* What pack puts behind the size lies behind it.
LEMMA PackLies ==
    ASSUME NEW ctx \in Seq(Byte)
    PROVE  /\ Pack(ctx) \in Seq(Byte) /\ Len(Pack(ctx)) = 8 + Len(ctx) /\ Len(Pack(ctx)) \in Nat
           /\ \A j \in 1 .. SIZE : Pack(ctx)[j] = Swapped(Word(SIZE, Len(Pack(ctx))))[j]
           /\ Lies(ctx, Pack(ctx), 9)
<1> DEFINE p == Pack(ctx)
<1>1. /\ p \in Seq(Byte) /\ Len(p) = 8 + Len(ctx)
      /\ \A j \in 1 .. SIZE : p[j] = Swapped(Word(SIZE, Len(p)))[j]
      /\ \A j \in 1 .. Len(ctx) : p[8 + j] = ctx[j]
  BY PackCells
<1> HIDE DEF p
<1>2. Len(ctx) \in Nat /\ \A j \in 1 .. Len(ctx) : 9 + j - 1 = 8 + j
  OBVIOUS
<1>3. Lies(ctx, p, 9)
  BY <1>1, <1>2 DEF Lies
<1>4. QED  BY <1>1, <1>2, <1>3 DEF p

LEMMA PackedResponse ==
    ASSUME NEW r, IsResponse(r)
    PROVE  HoldsResponse(PackResponse(r), r)
<1> DEFINE fields == Fields[r.type]
<1>1. Listing(fields) /\ r.type \in ToSet(ResponseTypes)
  BY FieldLists DEF IsResponse
<1>2. PICK n \in 0 .. 127 : Code(ResponseTypes, r.type) = <<n>> /\ Named(ResponseTypes, <<n>>) = r.type
  BY <1>1, Enumerations DEF Enums
<1>3. n \in Byte /\ <<n>> \in Seq(Byte) /\ Len(<<n>>) = 1 /\ <<n>>[1] = n
  BY DEF Byte
<1>4. Push(Empty, Code(ResponseTypes, r.type)) = <<n>>
  BY <1>2, <1>3, Pushed, ConcatEmptySeq DEF Empty
<1> DEFINE p == PackResponse(r)
<1>5. ASSUME NEW ctx \in Seq(Byte), NEW c \in Seq(Byte), ctx = <<n>> \o c
      PROVE  /\ Pack(ctx) \in Seq(Byte) /\ Len(Pack(ctx)) \in Nat /\ Len(Pack(ctx)) = 9 + Len(c)
             /\ \A j \in 1 .. SIZE : Pack(ctx)[j] = Swapped(Word(SIZE, Len(Pack(ctx))))[j]
             /\ Pack(ctx)[9] = n /\ Lies(c, Pack(ctx), 10)
  <2> DEFINE q == Pack(ctx)
  <2>1. /\ q \in Seq(Byte) /\ Len(q) = 8 + Len(ctx) /\ Len(q) \in Nat
        /\ \A j \in 1 .. SIZE : q[j] = Swapped(Word(SIZE, Len(q)))[j]
        /\ Lies(ctx, q, 9)
    BY PackLies
  <2> HIDE DEF q
  <2>2. 9 \in Nat \ {0} /\ 9 + 1 = 10
    OBVIOUS
  <2>3. Lies(<<n>>, q, 9) /\ Lies(c, q, 9 + Len(<<n>>))
    BY <1>3, <1>5, <2>1, <2>2, LiesJoined
  <2>4. q[9] = n
    <3>1. 9 + 1 - 1 = 9 /\ 1 \in 1 .. Len(<<n>>)
      BY <1>3
    <3>2. QED  BY <1>3, <2>3, <3>1 DEF Lies
  <2>5. Len(ctx) = 1 + Len(c)
    BY <1>3, <1>5, ConcatProperties
  <2>6. Len(c) \in Nat
    OBVIOUS
  <2>7. Len(q) = 9 + Len(c)
    BY <2>1, <2>5, <2>6
  <2>8. QED  BY <1>3, <2>1, <2>2, <2>3, <2>4, <2>7 DEF q
<1>6. CASE r.type \in Lists
  <2> DEFINE listed == FlattenSeq(Elements(fields, r.content))
             size == Word(SIZE, Len(r.content))
  <2>1. Len(r.content) \in Nat /\ DOMAIN r.content = 1 .. Len(r.content)
        /\ \A i \in 1 .. Len(r.content) : IsElement(r.content[i], fields)
    BY <1>6 DEF IsResponse
  <2>2. listed \in Seq(Byte)
    BY <1>1, <2>1, ElementsType
  <2>3. size \in Seq(Byte) /\ Len(size) = 8
    BY <2>1, SizeWord DEF SIZE
  <2>4. p = Pack((<<n>> \o size) \o listed)
    <3>1. [i \in DOMAIN r.content |-> PushFields(fields, r.content[i])] = Elements(fields, r.content)
      BY <2>1 DEF Elements
    <3>2. Push(<<n>>, size) = <<n>> \o size
      BY <2>3, Pushed
    <3> HIDE DEF size
    <3>3. p = Pack(Push(<<n>>, size) \o listed)
      BY <1>4, <1>6, <3>1, Zenon DEF PackResponse, size
    <3>4. QED  BY <3>2, <3>3
  <2> HIDE DEF size, listed, p
  <2>5. (<<n>> \o size) \o listed = <<n>> \o (size \o listed)
    BY <1>3, <2>2, <2>3, ConcatAssociative
  <2>6. size \o listed \in Seq(Byte) /\ Len(size \o listed) = 8 + Len(listed)
    <3>1. size \o listed \in Seq(Byte) /\ IsJoin(size \o listed, size, listed)
      BY <2>2, <2>3, Joined
    <3>2. QED  BY <2>3, <3>1 DEF IsJoin
  <2>7. (<<n>> \o size) \o listed \in Seq(Byte)
    <3>1. <<n>> \o (size \o listed) \in Seq(Byte)
      BY <1>3, <2>6, Joined
    <3>2. QED  BY <2>5, <3>1
  <2>8. /\ p \in Seq(Byte) /\ Len(p) \in Nat /\ Len(p) = 9 + Len(size \o listed)
        /\ \A j \in 1 .. SIZE : p[j] = Swapped(Word(SIZE, Len(p)))[j]
        /\ p[9] = n /\ Lies(size \o listed, p, 10)
    BY <1>5, <2>4, <2>5, <2>6, <2>7
  <2>9. Lies(size, p, 10) /\ Lies(listed, p, 10 + Len(size))
    <3>1. 10 \in Nat \ {0}
      OBVIOUS
    <3>2. QED  BY <2>2, <2>3, <2>8, <3>1, LiesJoined
  <2>10. Len(p) = 17 + Len(listed) /\ 10 + Len(size) = 18 /\ Len(p) >= 9
    <3>1. Len(listed) \in Nat
      BY <2>2
    <3>2. QED  BY <2>3, <2>6, <2>8, <3>1
  <2>11. QED  BY <1>2, <1>6, <2>8, <2>9, <2>10 DEF HoldsResponse, p, size, listed
<1>7. CASE r.type \notin Lists
  <2> DEFINE c == PushFields(fields, r.content)
  <2>1. c \in Seq(Byte) /\ Len(c) \in Nat
    BY <1>1, <1>7, PushedFields DEF IsResponse
  <2>2. p = Pack(<<n>> \o c)
    BY <1>4, <1>7 DEF PackResponse
  <2> HIDE DEF c, p
  <2>3. <<n>> \o c \in Seq(Byte)
    BY <1>3, <2>1, Joined
  <2>4. /\ p \in Seq(Byte) /\ Len(p) \in Nat /\ Len(p) = 9 + Len(c)
        /\ \A j \in 1 .. SIZE : p[j] = Swapped(Word(SIZE, Len(p)))[j]
        /\ p[9] = n /\ Lies(c, p, 10)
    BY <1>5, <2>1, <2>2, <2>3
  <2>5. Len(p) >= 9
    BY <2>1, <2>4
  <2>6. QED  BY <1>2, <1>7, <2>4, <2>5 DEF HoldsResponse, p, c
<1>8. QED  BY <1>6, <1>7

\* A response is parsed as it was packed, whatever is behind it.
LEMMA ParsedResponse ==
    ASSUME NEW r, IsResponse(r), NEW p, HoldsResponse(p, r), Len(p) < LIMIT,
           NEW buf \in Seq(Memory), Len(p) <= Len(buf), SameCells(buf, p, Len(p))
    PROVE  ParseResponse(buf) = r
<1> DEFINE fields == Fields[r.type]
<1>1. /\ r = [type |-> r.type, content |-> r.content]
      /\ r.type \in ToSet(ResponseTypes)
      /\ Listing(fields) /\ Reads[r.type] = fields /\ r.type # "invalid"
  BY FieldLists DEF IsResponse
<1>2. p \in Seq(Byte) /\ Len(p) \in Nat /\ Len(p) >= 9 /\ SIZE = 8 /\ SIZE + 1 = 9 /\ SIZE + 2 = 10
  BY DEF HoldsResponse, SIZE
<1>3. Opened(buf) = p
  <2>1. Len(p) >= 8 /\ \A i \in 1 .. Len(p) : buf[i] = p[i]
    BY <1>2 DEF SameCells
  <2>2. QED  BY <1>2, <2>1, OpenedPacked DEF HoldsResponse
<1>4. Named(ResponseTypes, Popped(p, 9, 1)) = r.type
  <2>1. p[9] \in Byte /\ 9 \in Nat \ {0}
    BY <1>2
  <2>2. Lies(<<p[9]>>, p, 9)
    <3>1. Len(<<p[9]>>) = 1 /\ <<p[9]>>[1] = p[9] /\ 9 + 1 - 1 = 9
      OBVIOUS
    <3>2. QED  BY <1>2, <3>1 DEF Lies
  <2>3. Popped(p, 9, 1) = <<p[9]>>
    BY <1>2, <2>1, <2>2, OneByte, PoppedWord
  <2>4. QED  BY <2>3 DEF HoldsResponse
<1>5. CASE r.type \in Lists
  <2> DEFINE n == Len(r.content)
             size == Word(SIZE, n)
             starts == Starts(p, 10 + SIZE, fields, n)
  <2>1. /\ n \in Nat /\ n < LIMIT /\ r.content = [i \in 1 .. n |-> r.content[i]]
        /\ \A i \in 1 .. n : IsElement(r.content[i], fields)
    BY <1>5 DEF IsResponse
  <2>2. Lies(size, p, 10) /\ Lies(FlattenSeq(Elements(fields, r.content)), p, 18)
    BY <1>5 DEF HoldsResponse
  <2>3. Number(Popped(p, 10, SIZE)) = n
    <3>1. size \in Seq(Byte) /\ Len(size) = SIZE /\ 10 \in Nat \ {0}
      BY <2>1, SizeWord
    <3> HIDE DEF size, n
    <3>2. Popped(p, 10, SIZE) = size
      BY <1>2, <2>2, <3>1, PoppedWord
    <3>3. QED  BY <2>1, <3>2, NumberOfWord DEF size
  <2>4. \A i \in 1 .. n : PopFields(p, starts[i], fields) = r.content[i]
    <3>1. 18 \in Nat \ {0} /\ 10 + SIZE = 18
      BY <1>2
    <3> DEFINE content == r.content
    <3>2. AreElements(content, fields) /\ Lies(FlattenSeq(Elements(fields, content)), p, 18)
      BY <2>1, <2>2 DEF AreElements
    <3>3. Listing(fields)
      BY <1>1
    <3> HIDE DEF content, fields
    <3>4. \A i \in 1 .. Len(content) : PopFields(p, Starts(p, 18, fields, Len(content))[i], fields) = content[i]
      BY <1>2, <3>1, <3>2, <3>3, ElementsRead
    <3>5. QED  BY <3>1, <3>4 DEF content
  <2>5. ParseResponse(buf) = [type |-> r.type, content |-> [i \in 1 .. n |-> PopFields(p, starts[i], fields)]]
    <3> HIDE DEF fields, n
    <3>1. QED  BY <1>1, <1>2, <1>3, <1>4, <1>5, <2>3 DEF ParseResponse
  <2>6. [i \in 1 .. n |-> PopFields(p, starts[i], fields)] = [i \in 1 .. n |-> r.content[i]]
    BY <2>4
  <2> HIDE DEF starts
  <2>7. [i \in 1 .. n |-> PopFields(p, starts[i], fields)] = r.content
    BY <2>1, <2>6, Zenon
  <2>8. QED  BY <1>1, <2>5, <2>7
<1>6. CASE r.type \notin Lists
  <2>1. IsElement(r.content, fields) /\ Lies(PushFields(fields, r.content), p, 10)
    BY <1>6 DEF IsResponse, HoldsResponse
  <2>2. 10 \in Nat \ {0}
    OBVIOUS
  <2>3. PopFields(p, 10, fields) = r.content
    BY <1>1, <1>2, <2>1, <2>2, ElementRead
  <2>4. ParseResponse(buf) = [type |-> r.type, content |-> r.content]
    <3> HIDE DEF fields
    <3>1. QED  BY <1>1, <1>2, <1>3, <1>4, <1>6, <2>3 DEF ParseResponse
  <2>5. QED  BY <1>1, <2>4
<1>7. QED  BY <1>5, <1>6

(***************************************************************************)
(* What a loop keeps.                                                      *)
(***************************************************************************)
\* U[i] is what is kept of 1 .. i: what Visited defines.
IsKept(U, n, S) ==
    U = [i \in 0 .. n |-> IF i = 0 THEN <<>>
                         ELSE IF i \in S THEN Append(U[i - 1], i) ELSE U[i - 1]]

LEMMA KeptExists ==
    ASSUME NEW S
    PROVE  \A n \in Nat : \E U : IsKept(U, n, S)
<1> DEFINE T == {n \in Nat : \E U : IsKept(U, n, S)}
<1>1. 0 \in T
  <2> DEFINE U == [i \in 0 .. 0 |-> <<>>]
  <2>1. IsKept(U, 0, S)
    BY DEF IsKept
  <2>2. QED  BY <2>1
<1>2. ASSUME NEW n \in Nat, n \in T PROVE n + 1 \in T
  <2>1. PICK F : IsKept(F, n, S)
    BY <1>2
  <2> DEFINE G == [i \in 0 .. n + 1 |-> IF i = 0 THEN <<>>
                                       ELSE IF i \in S THEN Append(F[i - 1], i) ELSE F[i - 1]]
  <2>2. \A i \in 0 .. n : G[i] = F[i]
    <3>1. \A i \in 0 .. n : i \in 0 .. n + 1
      OBVIOUS
    <3>2. \A i \in 0 .. n : G[i] = IF i = 0 THEN <<>> ELSE IF i \in S THEN Append(F[i - 1], i) ELSE F[i - 1]
      BY <3>1, Zenon
    <3>3. \A i \in 0 .. n : F[i] = IF i = 0 THEN <<>> ELSE IF i \in S THEN Append(F[i - 1], i) ELSE F[i - 1]
      <4>1. TAKE i \in 0 .. n
      <4>2. [k \in 0 .. n |-> IF k = 0 THEN <<>> ELSE IF k \in S THEN Append(F[k - 1], k) ELSE F[k - 1]][i]
              = IF i = 0 THEN <<>> ELSE IF i \in S THEN Append(F[i - 1], i) ELSE F[i - 1]
        OBVIOUS
      <4>3. QED  BY <2>1, <4>2, Zenon DEF IsKept
    <3>4. QED  BY <3>2, <3>3, Zenon
  <2>3. \A i \in 0 .. n + 1 : i = 0 \/ i - 1 \in 0 .. n
    OBVIOUS
  <2>4. IsKept(G, n + 1, S)
    BY <2>2, <2>3, Zenon DEF IsKept
  <2>5. QED  BY <2>4
<1>3. \A n \in Nat : n \in T
  <2> HIDE DEF T
  <2>1. QED  BY <1>1, <1>2, Induction
<1>4. QED  BY <1>3

\* A loop keeps the members of S, each of them once.
Keeps(s, n, S) ==
    /\ s \in Seq(S \cap (1 .. n))
    /\ IsFiniteSet(S \cap (1 .. n)) /\ Len(s) = Cardinality(S \cap (1 .. n))

LEMMA VisitedKeeps ==
    ASSUME NEW n \in Nat, NEW S
    PROVE  Keeps(Visited(n, S), n, S)
<1> DEFINE U == CHOOSE f : IsKept(f, n, S)
<1>1. Visited(n, S) = U[n]
  BY Zenon DEF Visited, IsKept
<1>2. IsKept(U, n, S)
  BY KeptExists, Zenon
<1> HIDE DEF U
<1>3. \A i \in 0 .. n : U[i] = IF i = 0 THEN <<>> ELSE IF i \in S THEN Append(U[i - 1], i) ELSE U[i - 1]
  <2>1. TAKE i \in 0 .. n
  <2>2. [k \in 0 .. n |-> IF k = 0 THEN <<>> ELSE IF k \in S THEN Append(U[k - 1], k) ELSE U[k - 1]][i]
          = IF i = 0 THEN <<>> ELSE IF i \in S THEN Append(U[i - 1], i) ELSE U[i - 1]
    OBVIOUS
  <2>3. QED  BY <1>2, <2>2, Zenon DEF IsKept
<1> DEFINE I == {i \in 0 .. n : Keeps(U[i], i, S)}
<1>4. 0 \in I
  <2>1. U[0] = <<>> /\ S \cap (1 .. 0) = {}
    BY <1>3
  <2>2. IsFiniteSet({}) /\ Cardinality({}) = 0
    BY FS_EmptySet
  <2>3. Keeps(<<>>, 0, S)
    BY <2>1, <2>2 DEF Keeps
  <2>4. QED  BY <2>1, <2>3
<1>5. ASSUME NEW i \in 0 .. n - 1, i \in I PROVE i + 1 \in I
  <2> DEFINE old == S \cap (1 .. i)
             new == S \cap (1 .. i + 1)
             u == U[i]
  <2>1. /\ i + 1 \in 0 .. n /\ i + 1 # 0 /\ (i + 1) - 1 = i /\ i \in Nat
        /\ 1 .. i + 1 = (1 .. i) \cup {i + 1} /\ i + 1 \notin 1 .. i
    OBVIOUS
  <2>2. u \in Seq(old) /\ IsFiniteSet(old) /\ Len(u) = Cardinality(old)
    BY <1>5 DEF Keeps
  <2>3. U[i + 1] = IF i + 1 \in S THEN Append(u, i + 1) ELSE u
    BY <1>3, <2>1, Zenon
  <2>4. old \subseteq new
    BY <2>1
  <2> HIDE DEF u
  <2>5. u \in Seq(new)
    BY <2>2, <2>4, SeqMonotonic
  <2>6. CASE i + 1 \in S
    <3>1. new = old \cup {i + 1} /\ i + 1 \notin old /\ i + 1 \in new
      BY <2>1, <2>6
    <3> HIDE DEF old, new
    <3>2. IsFiniteSet(new) /\ Cardinality(new) = Cardinality(old) + 1
      BY <2>2, <3>1, FS_AddElement
    <3>3. Append(u, i + 1) \in Seq(new) /\ Len(Append(u, i + 1)) = Len(u) + 1
      BY <2>5, <3>1, AppendProperties
    <3>4. Keeps(U[i + 1], i + 1, S)
      BY <2>2, <2>3, <2>6, <3>2, <3>3 DEF Keeps, new
    <3>5. QED  BY <2>1, <3>4
  <2>7. CASE i + 1 \notin S
    <3>1. new = old
      BY <2>1, <2>7
    <3> HIDE DEF old, new
    <3>2. Keeps(U[i + 1], i + 1, S)
      BY <2>2, <2>3, <2>5, <2>7, <3>1 DEF Keeps, new
    <3>3. QED  BY <2>1, <3>2
  <2>8. QED  BY <2>6, <2>7
<1>6. \A i \in 0 .. n : i \in I
  <2> HIDE DEF I
  <2>1. QED  BY <1>4, <1>5, InductionTo
<1>7. QED  BY <1>1, <1>6

(***************************************************************************)
(* What the handlers return.                                               *)
(***************************************************************************)
\* Eight bytes, four bytes, a byte.
Bytes8(w) == w \in Seq(Byte) /\ Len(w) = 8

\* What is counted in 16 bits, and what is far below LIMIT.
SHORTS == 65536
FAR == 4000000

\* What GetNamedSecurityInfoW returns: an ACL counts its entries in 16 bits, and the
\* names of an account are read into arrays of 256.
DescriptorTyped(d) ==
    /\ Len(d.dacl) \in Nat /\ Len(d.dacl) < SHORTS /\ DOMAIN d.dacl = 1 .. Len(d.dacl)
    /\ \A i \in 1 .. Len(d.dacl) : /\ d.dacl[i].mask \in Seq(Byte) /\ Len(d.dacl[i].mask) = 4
                                   /\ d.dacl[i].sid \in Seq(Byte)
    /\ d.sid \in Seq(Byte) /\ d.domain \in Seq(Byte) /\ d.name \in Seq(Byte)
    /\ Len(d.domain) < 256 /\ Len(d.name) < 256

\* What the calls of Windows return has the type that they document.
MachineTyped(m) ==
    /\ \A k \in 1 .. 2 : m.version[k] \in Seq(Byte) /\ Len(m.version[k]) = 4
    /\ m.bias \in Int
    /\ Bytes8(m.time) /\ Bytes8(m.uptime) /\ Bytes8(m.total) /\ Bytes8(m.free)
    /\ DOMAIN m.drives \subseteq 1 .. 26
    /\ \A l \in DOMAIN m.drives : m.drives[l].free = <<>> \/ Bytes8(m.drives[l].free)
    /\ \A path : Exists(m, path) => DescriptorTyped(Descriptor(m, path))

LEMMA Widths ==
    /\ {"type", "major", "minor", "time_ms", "time_zone", "free_bytes", "total_bytes",
        "accessMask", "aceType", "scope"} \subseteq DOMAIN Width
    /\ \A f \in {"name", "sid", "ownerDomain", "ownerName"} : f \notin DOMAIN Width
    /\ Width["type"] = 1 /\ Width["major"] = 2 /\ Width["minor"] = 2 /\ Width["time_ms"] = 8
    /\ Width["time_zone"] = 1 /\ Width["free_bytes"] = 8 /\ Width["total_bytes"] = 8
    /\ Width["accessMask"] = 4 /\ Width["aceType"] = 1 /\ Width["scope"] = 1
BY DEF Width

\* The records of responses.
LEMMA Records ==
    ASSUME NEW a, NEW b, NEW c, NEW d
    PROVE  /\ IsValue(a, "type") /\ IsValue(b, "major") /\ IsValue(c, "minor")
                => IsElement([type |-> a, major |-> b, minor |-> c], Fields["os"])
           /\ IsValue(a, "time_ms") /\ IsValue(b, "time_zone")
                => IsElement([time_ms |-> a, time_zone |-> b], Fields["time"])
           /\ IsValue(a, "free_bytes") /\ IsValue(b, "total_bytes")
                => IsElement([free_bytes |-> a, total_bytes |-> b], Fields["memory"])
           /\ IsValue(a, "type") /\ IsValue(b, "free_bytes") /\ IsValue(c, "name")
                => IsElement([type |-> a, name |-> c, free_bytes |-> b], Fields["drives"])
           /\ IsValue(a, "accessMask") /\ IsValue(b, "aceType") /\ IsValue(c, "scope") /\ IsValue(d, "sid")
                => IsElement([accessMask |-> a, aceType |-> b, scope |-> c, sid |-> d], Fields["rights"])
           /\ IsValue(a, "ownerDomain") /\ IsValue(b, "ownerName") /\ IsValue(c, "sid")
                => IsElement([ownerDomain |-> a, ownerName |-> b, sid |-> c], Fields["owner"])
<1>1. /\ ToSet(Fields["os"]) = {"type", "major", "minor"}
      /\ ToSet(Fields["time"]) = {"time_ms", "time_zone"}
      /\ ToSet(Fields["memory"]) = {"free_bytes", "total_bytes"}
      /\ ToSet(Fields["drives"]) = {"type", "name", "free_bytes"}
      /\ ToSet(Fields["rights"]) = {"accessMask", "aceType", "scope", "sid"}
      /\ ToSet(Fields["owner"]) = {"ownerDomain", "ownerName", "sid"}
  BY DEF ToSet, Fields
<1>2. ASSUME IsValue(a, "type"), IsValue(b, "major"), IsValue(c, "minor")
      PROVE  IsElement([type |-> a, major |-> b, minor |-> c], Fields["os"])
  <2> DEFINE e == [type |-> a, major |-> b, minor |-> c]
  <2>1. e = [f \in {"type", "major", "minor"} |-> e[f]]
    OBVIOUS
  <2>2. \A i \in 1 .. Len(Fields["os"]) : IsValue(e[Fields["os"][i]], Fields["os"][i])
    BY <1>2 DEF Fields
  <2>3. QED  BY <1>1, <2>1, <2>2 DEF IsElement
<1>3. ASSUME IsValue(a, "time_ms"), IsValue(b, "time_zone")
      PROVE  IsElement([time_ms |-> a, time_zone |-> b], Fields["time"])
  <2> DEFINE e == [time_ms |-> a, time_zone |-> b]
  <2>1. e = [f \in {"time_ms", "time_zone"} |-> e[f]]
    OBVIOUS
  <2>2. \A i \in 1 .. Len(Fields["time"]) : IsValue(e[Fields["time"][i]], Fields["time"][i])
    BY <1>3 DEF Fields
  <2>3. QED  BY <1>1, <2>1, <2>2 DEF IsElement
<1>4. ASSUME IsValue(a, "free_bytes"), IsValue(b, "total_bytes")
      PROVE  IsElement([free_bytes |-> a, total_bytes |-> b], Fields["memory"])
  <2> DEFINE e == [free_bytes |-> a, total_bytes |-> b]
  <2>1. e = [f \in {"free_bytes", "total_bytes"} |-> e[f]]
    OBVIOUS
  <2>2. \A i \in 1 .. Len(Fields["memory"]) : IsValue(e[Fields["memory"][i]], Fields["memory"][i])
    BY <1>4 DEF Fields
  <2>3. QED  BY <1>1, <2>1, <2>2 DEF IsElement
<1>5. ASSUME IsValue(a, "type"), IsValue(b, "free_bytes"), IsValue(c, "name")
      PROVE  IsElement([type |-> a, name |-> c, free_bytes |-> b], Fields["drives"])
  <2> DEFINE e == [type |-> a, name |-> c, free_bytes |-> b]
  <2>1. e = [f \in {"type", "name", "free_bytes"} |-> e[f]]
    OBVIOUS
  <2>2. \A i \in 1 .. Len(Fields["drives"]) : IsValue(e[Fields["drives"][i]], Fields["drives"][i])
    BY <1>5 DEF Fields
  <2>3. QED  BY <1>1, <2>1, <2>2 DEF IsElement
<1>6. ASSUME IsValue(a, "accessMask"), IsValue(b, "aceType"), IsValue(c, "scope"), IsValue(d, "sid")
      PROVE  IsElement([accessMask |-> a, aceType |-> b, scope |-> c, sid |-> d], Fields["rights"])
  <2> DEFINE e == [accessMask |-> a, aceType |-> b, scope |-> c, sid |-> d]
  <2>1. e = [f \in {"accessMask", "aceType", "scope", "sid"} |-> e[f]]
    OBVIOUS
  <2>2. \A i \in 1 .. Len(Fields["rights"]) : IsValue(e[Fields["rights"][i]], Fields["rights"][i])
    BY <1>6 DEF Fields
  <2>3. QED  BY <1>1, <2>1, <2>2 DEF IsElement
<1>7. ASSUME IsValue(a, "ownerDomain"), IsValue(b, "ownerName"), IsValue(c, "sid")
      PROVE  IsElement([ownerDomain |-> a, ownerName |-> b, sid |-> c], Fields["owner"])
  <2> DEFINE e == [ownerDomain |-> a, ownerName |-> b, sid |-> c]
  <2>1. e = [f \in {"ownerDomain", "ownerName", "sid"} |-> e[f]]
    OBVIOUS
  <2>2. \A i \in 1 .. Len(Fields["owner"]) : IsValue(e[Fields["owner"][i]], Fields["owner"][i])
    BY <1>7 DEF Fields
  <2>3. QED  BY <1>1, <2>1, <2>2 DEF IsElement
<1>8. QED  BY <1>2, <1>3, <1>4, <1>5, <1>6, <1>7, Zenon

\* A number told in one byte.
LEMMA ByteWord ==
    ASSUME NEW n \in Nat
    PROVE  Word(1, n) \in Seq(Byte) /\ Len(Word(1, n)) = 1
BY WordType

LEMMA SignedByte ==
    ASSUME NEW n \in Int
    PROVE  Int8(n) \in Seq(Byte) /\ Len(Int8(n)) = 1
<1>1. n % 256 \in Byte
  BY SMT DEF Byte
<1>2. QED  BY <1>1, OneByte DEF Int8

\* A SID fills its array.
LEMMA SidTyped ==
    ASSUME NEW s \in Seq(Byte), Len(s) <= 32
    PROVE  Sid(s) \in Seq(Byte) /\ Len(Sid(s)) = 32
<1> DEFINE rest == [i \in 1 .. SID_SIZE - Len(s) |-> 0]
<1>1. SID_SIZE = 32 /\ Len(s) \in Nat /\ 32 - Len(s) \in Nat
  BY DEF SID_SIZE
<1>2. rest \in Seq(Byte) /\ Len(rest) = 32 - Len(s)
  <2>1. ASSUME NEW k \in Nat PROVE [i \in 1 .. k |-> 0] \in Seq(Byte) /\ Len([i \in 1 .. k |-> 0]) = k
    BY DEF Byte
  <2>2. QED  BY <1>1, <2>1
<1> HIDE DEF rest
<1>3. s \o rest \in Seq(Byte) /\ IsJoin(s \o rest, s, rest)
  BY <1>2, Joined
<1>4. Len(s \o rest) = 32
  BY <1>1, <1>2, <1>3 DEF IsJoin
<1>5. QED  BY <1>3, <1>4 DEF Sid, rest

\* The lower half of a number of four bytes.
LEMMA LowHalf ==
    ASSUME NEW v \in Seq(Byte), Len(v) = 4
    PROVE  SubSeq(v, 3, 4) \in Seq(Byte) /\ Len(SubSeq(v, 3, 4)) = 2
<1>1. \A i \in 3 .. 4 : v[i] \in Byte
  <2>1. v \in [1 .. 4 -> Byte]
    BY LenProperties
  <2>2. QED  BY <2>1
<1>2. /\ SubSeq(v, 3, 4) \in Seq(Byte)
      /\ Len(SubSeq(v, 3, 4)) = IF 3 <= 4 THEN 4 - 3 + 1 ELSE 0
  <2>1. 3 \in Int /\ 4 \in Int
    OBVIOUS
  <2>2. QED  BY <1>1, <2>1, SubSeqProperties
<1>3. QED  BY <1>2

LEMMA OsTyped ==
    ASSUME NEW m, MachineTyped(m)
    PROVE  IsElement([type |-> get_type(m), major |-> get_version(m).major, minor |-> get_version(m).minor],
                     Fields["os"])
<1>1. IsValue(get_type(m), "type")
  <2> DEFINE natives == <<"I386", "AMD64", "ARM", "ARM64">>
             i == Index(natives, m.native)
  <2>1. Len(natives) = 4 /\ DOMAIN natives = 1 .. 4
    OBVIOUS
  <2>2. i \in 1 .. 5
    <3> HIDE DEF natives
    <3>1. CASE Contains(natives, m.native)
      <4>1. \E j \in 1 .. 4 : natives[j] = m.native
        BY <2>1, <3>1 DEF Contains
      <4>2. i \in 1 .. 4
        BY <2>1, <3>1, <4>1 DEF Index
      <4>3. QED  BY <4>2
    <3>2. CASE ~Contains(natives, m.native)
      BY <2>1, <3>2 DEF Index
    <3>3. QED  BY <3>1, <3>2
  <2>3. get_type(m) = Word(1, i - 1)
    BY DEF get_type
  <2> HIDE DEF i
  <2>4. i - 1 \in Nat
    BY <2>2
  <2>5. QED  BY <2>3, <2>4, ByteWord, Widths DEF IsValue
<1>2. ASSUME NEW k \in 1 .. 2
      PROVE  SubSeq(m.version[k], 3, 4) \in Seq(Byte) /\ Len(SubSeq(m.version[k], 3, 4)) = 2
  <2>1. m.version[k] \in Seq(Byte) /\ Len(m.version[k]) = 4
    BY DEF MachineTyped
  <2>2. QED  BY <2>1, LowHalf
<1>3. IsValue(get_version(m).major, "major") /\ IsValue(get_version(m).minor, "minor")
  BY <1>2, Widths DEF IsValue, get_version
<1>4. QED  BY <1>1, <1>3, Records

LEMMA TimeTyped ==
    ASSUME NEW t, Bytes8(t), NEW z \in Int
    PROVE  IsElement([time_ms |-> t, time_zone |-> Int8(z)], Fields["time"])
<1>1. IsValue(t, "time_ms") /\ IsValue(Int8(z), "time_zone")
  BY SignedByte, Widths DEF IsValue, Bytes8
<1>2. QED  BY <1>1, Records

LEMMA MemoryTyped ==
    ASSUME NEW m, MachineTyped(m)
    PROVE  IsElement(get_meminfo(m), Fields["memory"])
<1>1. IsValue(m.free, "free_bytes") /\ IsValue(m.total, "total_bytes")
  BY Widths DEF IsValue, MachineTyped, Bytes8
<1>2. QED  BY <1>1, Records DEF get_meminfo

\* A list of elements.
IsList(c, fields) ==
    /\ c = [i \in 1 .. Len(c) |-> c[i]]
    /\ \A i \in 1 .. Len(c) : IsElement(c[i], fields)

\* There is one element for each drive.
LEMMA DrivesTyped ==
    ASSUME NEW m, MachineTyped(m)
    PROVE  LET c == get_drives(m) IN
           /\ IsList(c, Fields["drives"]) /\ \A i \in 1 .. Len(c) : Len(c[i].name) = 3
           /\ Len(c) = Cardinality(DOMAIN m.drives) /\ Len(c) \in Nat /\ Len(c) <= 26
<1> DEFINE D == DOMAIN m.drives
           letters == Visited(26, D)
           drive(l) == [type |-> DriveType(m.drives[l].kind), name |-> <<64 + l, 58, 92>>,
                        free_bytes |-> IF m.drives[l].free = <<>> THEN Word(8, 0) ELSE m.drives[l].free]
           c == get_drives(m)
<1>1. D \subseteq 1 .. 26 /\ D \cap (1 .. 26) = D
  BY DEF MachineTyped
<1>2. letters \in Seq(D) /\ Len(letters) = Cardinality(D) /\ Len(letters) \in Nat
  <2> HIDE DEF D
  <2>1. letters \in Seq(D) /\ Len(letters) = Cardinality(D)
    BY <1>1, VisitedKeeps DEF Keeps
  <2>2. QED  BY <2>1
<1>3. Cardinality(D) \in Nat /\ Cardinality(D) <= 26
  <2> HIDE DEF D, letters
  <2>1. IsFiniteSet(1 .. 26) /\ Cardinality(1 .. 26) = 26
    <3>1. ASSUME NEW n \in Nat, n > 0 PROVE IsFiniteSet(1 .. n) /\ Cardinality(1 .. n) = n
      BY <3>1, FS_Interval
    <3>2. 26 \in Nat /\ 26 > 0
      OBVIOUS
    <3>3. QED  BY <3>1, <3>2, Zenon
  <2>2. Cardinality(D) <= 26
    BY <1>1, <2>1, FS_Subset
  <2>3. Cardinality(D) \in Nat
    BY <1>2
  <2>4. QED  BY <2>2, <2>3
<1>4. c = [i \in 1 .. Len(letters) |-> drive(letters[i])]
  <2>1. DOMAIN letters = 1 .. Len(letters)
    BY <1>2
  <2>2. c = [i \in DOMAIN letters |-> drive(letters[i])]
    BY Zenon DEF get_drives
  <2>3. QED  BY <2>1, <2>2
<1>5. ASSUME NEW l \in D
      PROVE  IsElement(drive(l), Fields["drives"]) /\ Len(drive(l).name) = 3
  <2> DEFINE name == <<64 + l, 58, 92>>
             free == IF m.drives[l].free = <<>> THEN Word(8, 0) ELSE m.drives[l].free
             type == DriveType(m.drives[l].kind)
  <2>1. l \in 1 .. 26
    BY <1>1
  <2>2. 64 + l \in Byte /\ 58 \in Byte /\ 92 \in Byte
    BY <2>1 DEF Byte
  <2>3. IsValue(name, "name") /\ Len(name) = 3
    BY <2>2, Widths DEF IsValue
  <2>4. IsValue(free, "free_bytes")
    <3>1. Word(8, 0) \in Seq(Byte) /\ Len(Word(8, 0)) = 8
      BY WordType
    <3>2. m.drives[l].free = <<>> \/ Bytes8(m.drives[l].free)
      BY DEF MachineTyped
    <3>3. QED  BY <3>1, <3>2, Widths DEF IsValue, Bytes8
  <2>5. IsValue(type, "type")
    <3>1. \A n \in 0 .. 4 : Word(1, n) \in Seq(Byte) /\ Len(Word(1, n)) = 1
      BY ByteWord
    <3>2. \E n \in 0 .. 4 : type = Word(1, n)
      <4>1. 0 \in 0 .. 4 /\ 1 \in 0 .. 4 /\ 2 \in 0 .. 4 /\ 3 \in 0 .. 4 /\ 4 \in 0 .. 4
        OBVIOUS
      <4>2. QED  BY <4>1, Zenon DEF DriveType
    <3>3. QED  BY <3>1, <3>2, Widths DEF IsValue
  <2>6. drive(l).name = name
    OBVIOUS
  <2> HIDE DEF name, free, type
  <2>7. IsElement([type |-> type, name |-> name, free_bytes |-> free], Fields["drives"])
    BY <2>3, <2>4, <2>5, Records
  <2>8. QED  BY <2>3, <2>6, <2>7 DEF name, free, type
<1> HIDE DEF letters, D, c, drive
<1>6. Len(c) = Len(letters) /\ c = [i \in 1 .. Len(c) |-> c[i]]
  BY <1>2, <1>4
<1>7. \A i \in 1 .. Len(c) : letters[i] \in D /\ c[i] = drive(letters[i])
  BY <1>2, <1>4, <1>6
<1>8. QED  BY <1>2, <1>3, <1>5, <1>6, <1>7 DEF IsList, c, D

\* The entries of a DACL that are told, by their numbers.
ToldOf(d) == {i \in DOMAIN d.dacl : Told(d.dacl[i])}

LEMMA EntryTyped ==
    ASSUME NEW ace, ace.mask \in Seq(Byte), Len(ace.mask) = 4, ace.sid \in Seq(Byte), Len(ace.sid) <= 32
    PROVE  IsElement(Entry(ace), Fields["rights"]) /\ Len(Entry(ace).sid) = 32
<1> DEFINE mask == ace.mask
           type == Word(1, IF ace.type = "ALLOWED" THEN 0 ELSE 1)
           scope == Scope(ace.flags)
           sid == Sid(ace.sid)
<1>1. \A n \in 0 .. 2 : Word(1, n) \in Seq(Byte) /\ Len(Word(1, n)) = 1
  BY ByteWord
<1>2. type \in Seq(Byte) /\ Len(type) = 1
  <2>1. 0 \in 0 .. 2 /\ 1 \in 0 .. 2
    OBVIOUS
  <2>2. QED  BY <1>1, <2>1
<1>3. scope \in Seq(Byte) /\ Len(scope) = 1
  <2>1. 0 \in 0 .. 2 /\ 1 \in 0 .. 2 /\ 2 \in 0 .. 2
    OBVIOUS
  <2>2. \E n \in 0 .. 2 : scope = Word(1, n)
    BY <2>1, Zenon DEF Scope
  <2>3. QED  BY <1>1, <2>2
<1>4. sid \in Seq(Byte) /\ Len(sid) = 32
  BY SidTyped
<1>5. IsValue(mask, "accessMask") /\ IsValue(type, "aceType") /\ IsValue(scope, "scope") /\ IsValue(sid, "sid")
  BY <1>2, <1>3, <1>4, Widths DEF IsValue
<1>6. Entry(ace) = [accessMask |-> mask, aceType |-> type, scope |-> scope, sid |-> sid]
  BY Zenon DEF Entry
<1> HIDE DEF mask, type, scope, sid
<1>7. IsElement([accessMask |-> mask, aceType |-> type, scope |-> scope, sid |-> sid], Fields["rights"])
  BY <1>5, Records
<1>8. Entry(ace).sid = sid
  BY <1>6
<1>9. QED  BY <1>4, <1>6, <1>7, <1>8, Zenon

\* There is one element for each entry that is told.
LEMMA RightsTyped ==
    ASSUME NEW m, MachineTyped(m), NEW req, req.type = "rights", ~LongSid(m, req)
    PROVE  LET c == get_access_info(m, req.arg) IN
           /\ IsList(c, Fields["rights"]) /\ \A i \in 1 .. Len(c) : Len(c[i].sid) = 32
           /\ Exists(m, req.arg) => Len(c) = Cardinality(ToldOf(Descriptor(m, req.arg)))
           /\ ~Exists(m, req.arg) => Len(c) = 0
           /\ Len(c) \in Nat /\ Len(c) < SHORTS
<1> DEFINE c == get_access_info(m, req.arg)
           d == Descriptor(m, req.arg)
           dacl == d.dacl
           told == Visited(Len(dacl), {i \in DOMAIN dacl : Told(dacl[i])})
<1>1. CASE ~Exists(m, req.arg)
  <2>1. c = <<>>
    BY <1>1 DEF get_access_info
  <2>2. Len(<<>>) = 0 /\ <<>> = [i \in 1 .. 0 |-> <<>>[i]] /\ 0 \in Nat /\ 0 < SHORTS /\ 1 .. 0 = {}
    BY SMT DEF SHORTS
  <2> HIDE DEF c
  <2>3. QED  BY <1>1, <2>1, <2>2 DEF IsList, c
<1>2. CASE Exists(m, req.arg)
  <2>1. DescriptorTyped(d)
    BY <1>2 DEF MachineTyped
  <2>2. \A i \in DOMAIN dacl : Told(dacl[i]) => ~(Len(dacl[i].sid) > 32)
    BY <1>2 DEF LongSid, SID_SIZE
  <2> HIDE DEF d
  <2>3. Len(dacl) \in Nat /\ Len(dacl) < SHORTS /\ DOMAIN dacl = 1 .. Len(dacl)
    BY <2>1 DEF DescriptorTyped
  <2> DEFINE T == ToldOf(d)
  <2>4. T \subseteq 1 .. Len(dacl) /\ T \cap (1 .. Len(dacl)) = T
    BY <2>3 DEF ToldOf
  <2>5. told = Visited(Len(dacl), T)
    BY DEF ToldOf
  <2>6. Len(dacl) \in Nat
    BY <2>3
  <2> HIDE DEF T, told, dacl
  <2>7. told \in Seq(T) /\ Len(told) = Cardinality(T)
    BY <2>4, <2>5, <2>6, VisitedKeeps DEF Keeps
  <2>8. Len(told) \in Nat /\ DOMAIN told = 1 .. Len(told) /\ \A i \in 1 .. Len(told) : told[i] \in T
    BY <2>7
  <2>9. Cardinality(T) <= Len(dacl)
    <3>1. IsFiniteSet(1 .. Len(dacl)) /\ Cardinality(1 .. Len(dacl)) = Len(dacl)
      <4>1. ASSUME NEW n \in Nat PROVE IsFiniteSet(1 .. n) /\ Cardinality(1 .. n) = n
        BY FS_Interval
      <4>2. QED  BY <2>6, <4>1, Zenon
    <3>2. QED  BY <2>4, <3>1, FS_Subset, Zenon
  <2>10. Len(told) \in Nat /\ Len(told) < SHORTS
    <3>1. SHORTS \in Nat
      BY SMT DEF SHORTS
    <3>2. ASSUME NEW l \in Nat, NEW n \in Nat, n <= l, l < SHORTS PROVE n < SHORTS
      BY <3>1, <3>2, SMT
    <3>3. Len(told) <= Len(dacl)
      BY <2>7, <2>9, Zenon
    <3>4. QED  BY <2>3, <2>8, <3>2, <3>3, Zenon
  <2>11. ASSUME NEW i \in T
         PROVE  IsElement(Entry(dacl[i]), Fields["rights"]) /\ Len(Entry(dacl[i]).sid) = 32
    <3>1. i \in DOMAIN dacl /\ Told(dacl[i])
      BY DEF T, ToldOf, dacl
    <3>2. dacl[i].mask \in Seq(Byte) /\ Len(dacl[i].mask) = 4 /\ dacl[i].sid \in Seq(Byte)
      BY <2>1, <2>3, <3>1 DEF DescriptorTyped, dacl
    <3>3. Len(dacl[i].sid) <= 32
      <4>1. Len(dacl[i].sid) \in Nat
        BY <3>2
      <4>2. QED  BY <2>2, <3>1, <4>1
    <3>4. QED  BY <3>2, <3>3, EntryTyped
  <2>12. c = [i \in 1 .. Len(told) |-> Entry(dacl[told[i]])]
    <3>1. c = [i \in DOMAIN told |-> Entry(dacl[told[i]])]
      BY <1>2, Zenon DEF get_access_info, told, dacl, d
    <3>2. QED  BY <2>8, <3>1
  <2> HIDE DEF c
  <2>13. Len(c) = Len(told) /\ c = [i \in 1 .. Len(c) |-> c[i]]
    BY <2>8, <2>12
  <2>14. \A i \in 1 .. Len(c) : told[i] \in T /\ c[i] = Entry(dacl[told[i]])
    BY <2>8, <2>12, <2>13
  <2>15. IsList(c, Fields["rights"]) /\ \A i \in 1 .. Len(c) : Len(c[i].sid) = 32
    BY <2>11, <2>13, <2>14 DEF IsList
  <2>16. QED  BY <1>2, <2>7, <2>10, <2>13, <2>15 DEF c, T, d
<1>3. QED  BY <1>1, <1>2

LEMMA OwnerTyped ==
    ASSUME NEW m, MachineTyped(m), NEW req, req.type = "owner", ~LongSid(m, req)
    PROVE  LET c == get_owner_info(m, req.arg)
               d == Descriptor(m, req.arg) IN
           /\ IsElement(c, Fields["owner"]) /\ Len(c.sid) = 32
           /\ \/ Len(c.ownerDomain) = 0 /\ Len(c.ownerName) = 0
              \/ Exists(m, req.arg) /\ c.ownerDomain = d.domain /\ c.ownerName = d.name
<1> DEFINE d == Descriptor(m, req.arg)
           c == get_owner_info(m, req.arg)
<1>1. CASE ~Exists(m, req.arg) \/ d.sid = <<>>
  <2>1. <<>> \in Seq(Byte) /\ Len(<<>>) = 0
    OBVIOUS
  <2> DEFINE sid == Sid(<<>>)
  <2>2. sid \in Seq(Byte) /\ Len(sid) = 32
    <3>1. 0 <= 32
      OBVIOUS
    <3>2. QED  BY <2>1, <3>1, SidTyped
  <2>3. IsValue(<<>>, "ownerDomain") /\ IsValue(<<>>, "ownerName") /\ IsValue(sid, "sid")
    BY <2>1, <2>2, Widths DEF IsValue
  <2>4. c = [ownerDomain |-> <<>>, ownerName |-> <<>>, sid |-> sid]
    BY <1>1 DEF get_owner_info
  <2> HIDE DEF sid
  <2>5. IsElement([ownerDomain |-> <<>>, ownerName |-> <<>>, sid |-> sid], Fields["owner"])
    BY <2>3, Records
  <2>6. c.ownerDomain = <<>> /\ c.ownerName = <<>> /\ c.sid = sid
    BY <2>4
  <2> HIDE DEF c
  <2>7. IsElement(c, Fields["owner"])
    BY <2>4, <2>5, Zenon
  <2>8. QED  BY <2>1, <2>2, <2>6, <2>7 DEF c
<1>2. CASE ~(~Exists(m, req.arg) \/ d.sid = <<>>)
  <2>1. d.sid \in Seq(Byte) /\ d.domain \in Seq(Byte) /\ d.name \in Seq(Byte)
    BY <1>2 DEF MachineTyped, DescriptorTyped
  <2>2. Len(d.sid) <= 32
    <3>1. ~(Len(d.sid) > 32)
      BY <1>2 DEF LongSid, SID_SIZE
    <3>2. Len(d.sid) \in Nat
      BY <2>1
    <3>3. QED  BY <3>1, <3>2
  <2> DEFINE sid == Sid(d.sid)
  <2>3. sid \in Seq(Byte) /\ Len(sid) = 32
    BY <2>1, <2>2, SidTyped
  <2>4. IsValue(d.domain, "ownerDomain") /\ IsValue(d.name, "ownerName") /\ IsValue(sid, "sid")
    BY <2>1, <2>3, Widths DEF IsValue
  <2>5. c = [ownerDomain |-> d.domain, ownerName |-> d.name, sid |-> sid]
    BY <1>2 DEF get_owner_info
  <2> HIDE DEF sid, d
  <2> DEFINE domain == d.domain
             name == d.name
  <2> HIDE DEF domain, name
  <2>6. IsElement([ownerDomain |-> domain, ownerName |-> name, sid |-> sid], Fields["owner"])
    BY <2>4, Records DEF domain, name
  <2>7. c = [ownerDomain |-> domain, ownerName |-> name, sid |-> sid]
    BY <2>5 DEF domain, name
  <2>8. c.ownerDomain = domain /\ c.ownerName = name /\ c.sid = sid
    BY <2>7
  <2> HIDE DEF c
  <2>9. IsElement(c, Fields["owner"])
    BY <2>6, <2>7, Zenon
  <2>10. QED  BY <1>2, <2>3, <2>8, <2>9 DEF c, d, domain, name
<1>3. QED  BY <1>1, <1>2

\* The handler of each type.
LEMMA HandlerOf ==
    ASSUME NEW m, NEW req
    PROVE  /\ req.type = "os" => Handle(m, req) =
                [type |-> "os", content |-> [type |-> get_type(m), major |-> get_version(m).major,
                                             minor |-> get_version(m).minor]]
           /\ req.type = "time" => Handle(m, req) = [type |-> "time", content |-> HandleGetTime(m)]
           /\ req.type = "uptime" => Handle(m, req) =
                [type |-> "time", content |-> [time_ms |-> m.uptime, time_zone |-> Int8(0)]]
           /\ req.type = "memory" => Handle(m, req) = [type |-> "memory", content |-> get_meminfo(m)]
           /\ req.type = "drives" => Handle(m, req) = [type |-> "drives", content |-> get_drives(m)]
           /\ req.type = "rights" =>
                Handle(m, req) = [type |-> "rights", content |-> get_access_info(m, req.arg)]
           /\ req.type = "owner" =>
                Handle(m, req) = [type |-> "owner", content |-> get_owner_info(m, req.arg)]
BY Zenon DEF Handle

\* What a handler returns to a request that is defined is a response.
LEMMA Handled ==
    ASSUME NEW m, MachineTyped(m), NEW req, req \in Requests, ~Undefined(m, req)
    PROVE  IsResponse(Handle(m, req))
<1> DEFINE r == Handle(m, req)
<1>1. req.type \in {"os", "time", "uptime", "memory", "drives", "rights", "owner"}
  BY DEF Requests, ToSet, RequestTypes
<1>2. {"os", "time", "memory", "drives", "rights", "owner"} \subseteq ToSet(ResponseTypes)
  BY DEF ToSet, ResponseTypes
<1>3. ASSUME NEW t \in {"os", "time", "memory", "owner"}, NEW c, IsElement(c, Fields[t]),
             r = [type |-> t, content |-> c]
      PROVE  IsResponse(r)
  BY <1>2, <1>3 DEF IsResponse, Lists
<1>4. ASSUME NEW t \in {"drives", "rights"}, NEW c, IsList(c, Fields[t]), Len(c) \in Nat, Len(c) < LIMIT,
             r = [type |-> t, content |-> c]
      PROVE  IsResponse(r)
  <2> HIDE DEF r
  <2>1. QED  BY <1>2, <1>4 DEF IsResponse, Lists, IsList
<1> HIDE DEF r
<1>5. CASE req.type = "os"
  BY <1>3, <1>5, OsTyped, HandlerOf, Zenon DEF r
<1>6. CASE req.type = "time"
  <2>1. Bytes8(m.time) /\ Quotient(-1 * m.bias, 60) \in Int
    BY SMT DEF MachineTyped, Quotient
  <2>2. IsElement(HandleGetTime(m), Fields["time"])
    BY <2>1, TimeTyped DEF HandleGetTime, get_timezone_hours
  <2>3. QED  BY <1>3, <1>6, <2>2, HandlerOf, Zenon DEF r
<1>7. CASE req.type = "uptime"
  <2>1. Bytes8(m.uptime) /\ 0 \in Int
    BY DEF MachineTyped
  <2>2. IsElement([time_ms |-> m.uptime, time_zone |-> Int8(0)], Fields["time"])
    BY <2>1, TimeTyped
  <2>3. QED  BY <1>3, <1>7, <2>2, HandlerOf, Zenon DEF r
<1>8. CASE req.type = "memory"
  BY <1>3, <1>8, MemoryTyped, HandlerOf, Zenon DEF r
<1>9. CASE req.type = "drives"
  <2> DEFINE c == get_drives(m)
  <2>1. IsList(c, Fields["drives"]) /\ Len(c) \in Nat /\ Len(c) <= 26
    BY DrivesTyped
  <2>2. r = [type |-> "drives", content |-> c]
    BY <1>9, HandlerOf, Zenon DEF r
  <2> HIDE DEF c
  <2>3. ASSUME NEW n \in Nat, n <= 26 PROVE n < LIMIT
    BY <2>3, SMT DEF LIMIT
  <2>4. Len(c) < LIMIT
    BY <2>1, <2>3
  <2>5. IsResponse(r)
    BY <1>4, <2>1, <2>2, <2>4
  <2>6. QED  BY <2>5 DEF r
<1>10. CASE req.type = "rights"
  <2> DEFINE c == get_access_info(m, req.arg)
  <2>1. ~LongSid(m, req)
    BY <1>10 DEF Undefined
  <2>2. IsList(c, Fields["rights"]) /\ Len(c) \in Nat /\ Len(c) < SHORTS
    BY <1>10, <2>1, RightsTyped
  <2>3. r = [type |-> "rights", content |-> c]
    BY <1>10, HandlerOf, Zenon DEF r
  <2> HIDE DEF c
  <2>4. ASSUME NEW n \in Nat, n < SHORTS PROVE n < LIMIT
    BY <2>4, SMT DEF LIMIT, SHORTS
  <2>5. Len(c) < LIMIT
    BY <2>2, <2>4
  <2>6. IsResponse(r)
    BY <1>4, <2>2, <2>3, <2>5
  <2>7. QED  BY <2>6 DEF r
<1>11. CASE req.type = "owner"
  <2>1. ~LongSid(m, req)
    BY <1>11 DEF Undefined
  <2>2. IsElement(get_owner_info(m, req.arg), Fields["owner"])
    BY <1>11, <2>1, OwnerTyped
  <2>3. QED  BY <1>3, <1>11, <2>2, HandlerOf, Zenon DEF r
<1>12. QED  BY <1>1, <1>5, <1>6, <1>7, <1>8, <1>9, <1>10, <1>11 DEF r

(***************************************************************************)
(* How long they are when they are packed.                                 *)
(***************************************************************************)
\* What a field takes.
Space(v, f) == IF f \in DOMAIN Width THEN Width[f] ELSE 8 + Len(v)

\* Q[i] is how much the first i fields of e take.
Sums(Q, fields, e) ==
    /\ Q[0] = 0 /\ Q[Len(fields)] = Len(PushFields(fields, e))
    /\ \A i \in 1 .. Len(fields) : Q[i] = Q[i - 1] + Space(e[fields[i]], fields[i])

LEMMA FieldsLength ==
    ASSUME NEW fields, Listing(fields), NEW e, IsElement(e, fields)
    PROVE  \E Q \in [0 .. Len(fields) -> Nat] : Sums(Q, fields, e)
<1> DEFINE n == Len(fields)
           seqs == Parcels(fields, e)
           s == PushFields(fields, e)
<1>1. n \in Nat
  BY DEF Listing
<1>2. seqs \in [1 .. n -> Seq(Byte)] /\ s = FlattenSeq(seqs) /\ s \in Seq(Byte)
  BY PushedFields
<1>3. \A i \in 1 .. n : Len(seqs[i]) = Space(e[fields[i]], fields[i])
  <2>1. TAKE i \in 1 .. n
  <2>2. seqs[i] = Stored(e[fields[i]], fields[i]) /\ IsValue(e[fields[i]], fields[i])
    BY DEF Parcels, IsElement
  <2>3. Len(Stored(e[fields[i]], fields[i])) = Space(e[fields[i]], fields[i])
    BY <2>2, StoredType DEF Space
  <2> HIDE DEF seqs
  <2>4. QED  BY <2>2, <2>3
<1> HIDE DEF seqs
<1>4. Len(s) \in Nat /\ Lies(FlattenSeq(seqs), s, 1)
  BY <1>2, LiesInItself
<1>5. PICK P : Placed(P, seqs, n, s, 1) /\ P[n + 1] = 1 + Len(FlattenSeq(seqs))
  <2>1. 1 \in Nat \ {0}
    OBVIOUS
  <2> HIDE DEF s
  <2>2. QED  BY <1>1, <1>2, <1>4, <2>1, Parts
<1>6. /\ P \in [1 .. n + 1 -> Nat \ {0}] /\ P[1] = 1
      /\ \A i \in 1 .. n : P[i + 1] = P[i] + Len(seqs[i])
  BY <1>5 DEF Placed
<1> DEFINE Q == [i \in 0 .. n |-> P[i + 1] - 1]
<1> HIDE DEF s
<1>7. Q \in [0 .. n -> Nat]
  <2>1. \A i \in 0 .. n : i + 1 \in 1 .. n + 1
    BY <1>1
  <2>2. \A i \in 0 .. n : P[i + 1] - 1 \in Nat
    <3>1. TAKE i \in 0 .. n
    <3>2. i + 1 \in 1 .. n + 1
      BY <2>1
    <3>3. P[i + 1] \in Nat \ {0}
      BY <1>6, <3>2
    <3>4. \A p \in Nat \ {0} : p - 1 \in Nat
      OBVIOUS
    <3>5. QED  BY <3>3, <3>4
  <2>3. QED  BY <2>2
<1>8. Q[0] = 0 /\ Q[n] = Len(s)
  <2>1. 0 \in 0 .. n /\ n \in 0 .. n /\ 0 + 1 = 1 /\ 1 - 1 = 0
    BY <1>1
  <2>2. Q[0] = P[1] - 1 /\ Q[n] = P[n + 1] - 1
    BY <2>1
  <2>3. (1 + Len(s)) - 1 = Len(s)
    BY <1>4
  <2> HIDE DEF Q
  <2>4. QED  BY <1>2, <1>5, <1>6, <2>1, <2>2, <2>3
<1>9. \A i \in 1 .. n : Q[i] = Q[i - 1] + Space(e[fields[i]], fields[i])
  <2>1. TAKE i \in 1 .. n
  <2>2. i \in 0 .. n /\ i - 1 \in 0 .. n /\ (i - 1) + 1 = i /\ i \in 1 .. n + 1 /\ i + 1 \in 1 .. n + 1
    BY <1>1
  <2>3. Q[i] = P[i + 1] - 1 /\ Q[i - 1] = P[i] - 1
    BY <2>2
  <2>4. P[i] \in Nat /\ P[i + 1] \in Nat /\ P[i + 1] = P[i] + Space(e[fields[i]], fields[i])
    BY <1>3, <1>6, <2>2
  <2> DEFINE k == Space(e[fields[i]], fields[i])
  <2>5. k \in Nat
    <3>1. seqs[i] \in Seq(Byte)
      BY <1>2
    <3>2. QED  BY <1>3, <3>1
  <2> HIDE DEF Q, k
  <2>6. Q[i] = Q[i - 1] + k
    <3>1. P[i + 1] = P[i] + k
      BY <2>4 DEF k
    <3>2. QED  BY <2>3, <2>4, <2>5, <3>1
  <2>7. QED  BY <2>6 DEF k
<1> HIDE DEF Q
<1>10. QED  BY <1>7, <1>8, <1>9 DEF Sums, s, n

\* Two, three and four fields.
LEMMA FieldsAdd ==
    ASSUME NEW fields, Listing(fields), NEW e, IsElement(e, fields)
    PROVE  LET k(i) == Space(e[fields[i]], fields[i])
               n == Len(PushFields(fields, e)) IN
           /\ Len(fields) = 2 => n = k(1) + k(2)
           /\ Len(fields) = 3 => n = k(1) + k(2) + k(3)
           /\ Len(fields) = 4 => n = k(1) + k(2) + k(3) + k(4)
<1> DEFINE k(i) == Space(e[fields[i]], fields[i])
           n == Len(PushFields(fields, e))
           l == Len(fields)
<1>1. \A i \in 1 .. l : k(i) \in Nat
  <2>1. TAKE i \in 1 .. l
  <2>2. IsValue(e[fields[i]], fields[i])
    BY DEF IsElement
  <2>3. QED  BY <2>2 DEF IsValue, Space
<1>2. PICK Q \in [0 .. l -> Nat] : Sums(Q, fields, e)
  BY FieldsLength
<1>3. /\ Q[0] = 0 /\ Q[l] = n /\ l \in Nat
      /\ \A i \in 1 .. l : Q[i] = Q[i - 1] + k(i)
  BY <1>2 DEF Sums, Listing
<1> HIDE DEF k, n, l
<1>4. CASE l = 2
  <2>1. 1 \in 1 .. l /\ 2 \in 1 .. l /\ 1 - 1 = 0 /\ 2 - 1 = 1
    BY <1>4
  <2>2. Q[1] = 0 + k(1) /\ Q[2] = Q[1] + k(2) /\ k(1) \in Nat /\ k(2) \in Nat
    BY <1>1, <1>3, <2>1, Zenon
  <2>3. n = k(1) + k(2)
    BY <1>3, <1>4, <2>2
  <2>4. QED  BY <1>4, <2>3 DEF k, n, l
<1>5. CASE l = 3
  <2>1. 1 \in 1 .. l /\ 2 \in 1 .. l /\ 3 \in 1 .. l /\ 1 - 1 = 0 /\ 2 - 1 = 1 /\ 3 - 1 = 2
    BY <1>5
  <2>2. /\ Q[1] = 0 + k(1) /\ Q[2] = Q[1] + k(2) /\ Q[3] = Q[2] + k(3)
        /\ k(1) \in Nat /\ k(2) \in Nat /\ k(3) \in Nat
    BY <1>1, <1>3, <2>1, Zenon
  <2>3. n = k(1) + k(2) + k(3)
    BY <1>3, <1>5, <2>2
  <2>4. QED  BY <1>5, <2>3 DEF k, n, l
<1>6. CASE l = 4
  <2>1. /\ 1 \in 1 .. l /\ 2 \in 1 .. l /\ 3 \in 1 .. l /\ 4 \in 1 .. l
        /\ 1 - 1 = 0 /\ 2 - 1 = 1 /\ 3 - 1 = 2 /\ 4 - 1 = 3
    BY <1>6
  <2>2. /\ Q[1] = 0 + k(1) /\ Q[2] = Q[1] + k(2) /\ Q[3] = Q[2] + k(3) /\ Q[4] = Q[3] + k(4)
        /\ k(1) \in Nat /\ k(2) \in Nat /\ k(3) \in Nat /\ k(4) \in Nat
    BY <1>1, <1>3, <2>1, Zenon
  <2>3. n = k(1) + k(2) + k(3) + k(4)
    BY <1>3, <1>6, <2>2
  <2>4. QED  BY <1>6, <2>3 DEF k, n, l
<1>7. QED  BY <1>4, <1>5, <1>6 DEF k, n, l

\* The elements of a list take as much as one of them, if they take the same.
AllTake(c, fields, k) ==
    /\ Len(c) \in Nat /\ k \in Nat
    /\ \A i \in 1 .. Len(c) : Len(PushFields(fields, c[i])) = k

LEMMA ListLength ==
    ASSUME NEW fields, Listing(fields), NEW c, IsList(c, fields), NEW k, AllTake(c, fields, k)
    PROVE  Len(FlattenSeq(Elements(fields, c))) = Len(c) * k
<1> DEFINE seqs == Elements(fields, c)
<1>1. seqs \in [1 .. Len(c) -> Seq(Byte)]
  BY ElementsType DEF IsList, AllTake
<1>2. Len(c) \in Nat /\ k \in Nat /\ \A i \in 1 .. Len(c) : Len(seqs[i]) = k
  BY DEF Elements, AllTake
<1> HIDE DEF seqs
<1>3. Len(FlattenSeq(seqs)) = Len(c) * k
  BY <1>1, <1>2, EqualParts
<1>4. QED  BY <1>3 DEF seqs

\* The records of responses take so much.
LEMMA RecordLengths ==
    ASSUME NEW e
    PROVE  /\ IsElement(e, Fields["os"]) => Len(PushFields(Fields["os"], e)) = 5
           /\ IsElement(e, Fields["time"]) => Len(PushFields(Fields["time"], e)) = 9
           /\ IsElement(e, Fields["memory"]) => Len(PushFields(Fields["memory"], e)) = 16
           /\ IsElement(e, Fields["drives"]) /\ Len(e.name) = 3
                => Len(PushFields(Fields["drives"], e)) = 20
           /\ IsElement(e, Fields["rights"]) /\ Len(e.sid) = 32
                => Len(PushFields(Fields["rights"], e)) = 46
           /\ IsElement(e, Fields["owner"]) /\ Len(e.sid) = 32
                => Len(PushFields(Fields["owner"], e)) = 56 + Len(e.ownerDomain) + Len(e.ownerName)
<1>1. \A t \in {"os", "time", "memory", "drives", "rights", "owner"} : Listing(Fields[t])
  BY FieldLists DEF ToSet, ResponseTypes
<1>2. ASSUME IsElement(e, Fields["os"])
      PROVE  Len(PushFields(Fields["os"], e)) = 5
  <2> DEFINE fields == Fields["os"]
  <2>1. Len(fields) = 3 /\ fields[1] = "type" /\ fields[2] = "major" /\ fields[3] = "minor"
    BY DEF Fields
  <2>2. Listing(fields) /\ IsElement(e, fields)
    BY <1>1, <1>2
  <2> HIDE DEF fields
  <2>3. Len(PushFields(fields, e)) = Space(e["type"], "type") + Space(e["major"], "major") + Space(e["minor"], "minor")
    BY <2>1, <2>2, FieldsAdd, Zenon
  <2>4. Space(e["type"], "type") = 1 /\ Space(e["major"], "major") = 2 /\ Space(e["minor"], "minor") = 2
    BY Widths DEF Space
  <2>5. QED  BY <2>3, <2>4 DEF fields
<1>3. ASSUME IsElement(e, Fields["time"])
      PROVE  Len(PushFields(Fields["time"], e)) = 9
  <2> DEFINE fields == Fields["time"]
  <2>1. Len(fields) = 2 /\ fields[1] = "time_ms" /\ fields[2] = "time_zone"
    BY DEF Fields
  <2>2. Listing(fields) /\ IsElement(e, fields)
    BY <1>1, <1>3
  <2> HIDE DEF fields
  <2>3. Len(PushFields(fields, e)) = Space(e["time_ms"], "time_ms") + Space(e["time_zone"], "time_zone")
    BY <2>1, <2>2, FieldsAdd, Zenon
  <2>4. Space(e["time_ms"], "time_ms") = 8 /\ Space(e["time_zone"], "time_zone") = 1
    BY Widths DEF Space
  <2>5. QED  BY <2>3, <2>4 DEF fields
<1>4. ASSUME IsElement(e, Fields["memory"])
      PROVE  Len(PushFields(Fields["memory"], e)) = 16
  <2> DEFINE fields == Fields["memory"]
  <2>1. Len(fields) = 2 /\ fields[1] = "free_bytes" /\ fields[2] = "total_bytes"
    BY DEF Fields
  <2>2. Listing(fields) /\ IsElement(e, fields)
    BY <1>1, <1>4
  <2> HIDE DEF fields
  <2>3. Len(PushFields(fields, e)) = Space(e["free_bytes"], "free_bytes") + Space(e["total_bytes"], "total_bytes")
    BY <2>1, <2>2, FieldsAdd, Zenon
  <2>4. Space(e["free_bytes"], "free_bytes") = 8 /\ Space(e["total_bytes"], "total_bytes") = 8
    BY Widths DEF Space
  <2>5. QED  BY <2>3, <2>4 DEF fields
<1>5. ASSUME IsElement(e, Fields["drives"]), Len(e.name) = 3
      PROVE  Len(PushFields(Fields["drives"], e)) = 20
  <2> DEFINE fields == Fields["drives"]
  <2>1. Len(fields) = 3 /\ fields[1] = "type" /\ fields[2] = "free_bytes" /\ fields[3] = "name"
    BY DEF Fields
  <2>2. Listing(fields) /\ IsElement(e, fields)
    BY <1>1, <1>5
  <2> HIDE DEF fields
  <2>3. Len(PushFields(fields, e))
          = Space(e["type"], "type") + Space(e["free_bytes"], "free_bytes") + Space(e["name"], "name")
    BY <2>1, <2>2, FieldsAdd, Zenon
  <2>4. /\ Space(e["type"], "type") = 1 /\ Space(e["free_bytes"], "free_bytes") = 8
        /\ Space(e["name"], "name") = 8 + 3
    BY <1>5, Widths DEF Space
  <2>5. QED  BY <2>3, <2>4 DEF fields
<1>6. ASSUME IsElement(e, Fields["rights"]), Len(e.sid) = 32
      PROVE  Len(PushFields(Fields["rights"], e)) = 46
  <2> DEFINE fields == Fields["rights"]
  <2>1. /\ Len(fields) = 4 /\ fields[1] = "accessMask" /\ fields[2] = "aceType"
        /\ fields[3] = "scope" /\ fields[4] = "sid"
    BY DEF Fields
  <2>2. Listing(fields) /\ IsElement(e, fields)
    BY <1>1, <1>6
  <2> HIDE DEF fields
  <2>3. Len(PushFields(fields, e)) = Space(e["accessMask"], "accessMask") + Space(e["aceType"], "aceType")
                                       + Space(e["scope"], "scope") + Space(e["sid"], "sid")
    BY <2>1, <2>2, FieldsAdd, Zenon
  <2>4. /\ Space(e["accessMask"], "accessMask") = 4 /\ Space(e["aceType"], "aceType") = 1
        /\ Space(e["scope"], "scope") = 1 /\ Space(e["sid"], "sid") = 8 + 32
    BY <1>6, Widths DEF Space
  <2>5. QED  BY <2>3, <2>4 DEF fields
<1>7. ASSUME IsElement(e, Fields["owner"]), Len(e.sid) = 32
      PROVE  Len(PushFields(Fields["owner"], e)) = 56 + Len(e.ownerDomain) + Len(e.ownerName)
  <2> DEFINE fields == Fields["owner"]
  <2>1. Len(fields) = 3 /\ fields[1] = "ownerDomain" /\ fields[2] = "ownerName" /\ fields[3] = "sid"
    BY DEF Fields
  <2>2. Listing(fields) /\ IsElement(e, fields)
    BY <1>1, <1>7
  <2> HIDE DEF fields
  <2>3. Len(PushFields(fields, e))
          = Space(e["ownerDomain"], "ownerDomain") + Space(e["ownerName"], "ownerName") + Space(e["sid"], "sid")
    BY <2>1, <2>2, FieldsAdd, Zenon
  <2>4. /\ Space(e["ownerDomain"], "ownerDomain") = 8 + Len(e.ownerDomain)
        /\ Space(e["ownerName"], "ownerName") = 8 + Len(e.ownerName) /\ Space(e["sid"], "sid") = 8 + 32
    BY <1>7, Widths DEF Space
  <2>5. Len(e.ownerDomain) \in Nat /\ Len(e.ownerName) \in Nat
    <3>1. \A i \in 1 .. 3 : IsValue(e[fields[i]], fields[i])
      BY <2>1, <2>2 DEF IsElement
    <3>2. e["ownerDomain"] \in Seq(Byte) /\ e["ownerName"] \in Seq(Byte)
      <4>1. 1 \in 1 .. 3 /\ 2 \in 1 .. 3
        OBVIOUS
      <4>2. QED  BY <2>1, <3>1, <4>1 DEF IsValue
    <3>3. QED  BY <3>2
  <2>6. ASSUME NEW x \in Nat, NEW y \in Nat PROVE (8 + x) + (8 + y) + (8 + 32) = 56 + x + y
    OBVIOUS
  <2>7. Len(PushFields(fields, e)) = (8 + Len(e.ownerDomain)) + (8 + Len(e.ownerName)) + (8 + 32)
    BY <2>3, <2>4, Zenon
  <2>8. Len(PushFields(fields, e)) = 56 + Len(e.ownerDomain) + Len(e.ownerName)
    BY <2>5, <2>6, <2>7, Zenon
  <2>9. QED  BY <2>8 DEF fields
<1>8. QED  BY <1>2, <1>3, <1>4, <1>5, <1>6, <1>7

\* What a handler returns to a request takes so much when it is packed.
IsLong(n, m, req) ==
    LET d == Descriptor(m, req.arg) IN
    /\ req.type \in {"os", "time", "uptime", "memory"} => n <= 25
    /\ req.type = "drives" => n = 17 + Cardinality(DOMAIN m.drives) * 20
    /\ req.type = "rights" =>
         \/ n = 17
         \/ Exists(m, req.arg) /\ n = 17 + Cardinality(ToldOf(d)) * 46
    /\ req.type = "owner" =>
         \/ n = 65
         \/ Exists(m, req.arg) /\ n = 65 + Len(d.domain) + Len(d.name)

LEMMA ResponseLength ==
    ASSUME NEW m, MachineTyped(m), NEW req, req \in Requests, ~Undefined(m, req)
    PROVE  LET p == PackResponse(Handle(m, req)) IN
           p \in Seq(Byte) /\ Len(p) < LIMIT /\ 2 * Len(p) + 64 < LIMIT /\ IsLong(Len(p), m, req)
<1> DEFINE r == Handle(m, req)
           p == PackResponse(r)
<1>1. IsResponse(r) /\ HoldsResponse(p, r)
  BY Handled, PackedResponse
<1>2. p \in Seq(Byte) /\ Len(p) \in Nat
  BY <1>1 DEF HoldsResponse
<1>3. req.type \in {"os", "time", "uptime", "memory", "drives", "rights", "owner"}
  BY DEF Requests, ToSet, RequestTypes
<1> HIDE DEF p, r
<1>a. ASSUME NEW t \in {"os", "time", "memory", "owner"}, NEW c, r = [type |-> t, content |-> c]
      PROVE  IsElement(c, Fields[t]) /\ Len(p) = 9 + Len(PushFields(Fields[t], c))
  BY <1>1, <1>a DEF IsResponse, HoldsResponse, Lists
<1>b. ASSUME NEW t \in {"drives", "rights"}, NEW c, r = [type |-> t, content |-> c]
      PROVE  Len(p) = 17 + Len(FlattenSeq(Elements(Fields[t], c)))
  BY <1>1, <1>b DEF HoldsResponse, Lists
<1>c. ASSUME NEW n \in Nat, n < FAR
      PROVE  n < LIMIT /\ 2 * n + 64 < LIMIT
  BY <1>c, SMT DEF LIMIT, FAR
<1>d. ASSUME NEW n \in Nat, n <= 26
      PROVE  n < FAR /\ 17 + n * 20 < FAR
  BY <1>d, SMT DEF FAR
<1>4. CASE req.type \in {"os", "time", "uptime", "memory"}
  <2>1. Len(p) <= 25
    <3>1. CASE req.type = "os"
      <4> DEFINE c == [type |-> get_type(m), major |-> get_version(m).major, minor |-> get_version(m).minor]
      <4>1. r = [type |-> "os", content |-> c]
        BY <3>1, HandlerOf, Zenon DEF r
      <4> HIDE DEF c
      <4>2. Len(p) = 9 + 5
        BY <1>a, <4>1, RecordLengths
      <4>3. QED  BY <4>2
    <3>2. CASE req.type \in {"time", "uptime"}
      <4>1. PICK c : r = [type |-> "time", content |-> c]
        BY <3>2, HandlerOf, Zenon DEF r
      <4>2. Len(p) = 9 + 9
        BY <1>a, <4>1, RecordLengths
      <4>3. QED  BY <4>2
    <3>3. CASE req.type = "memory"
      <4>1. PICK c : r = [type |-> "memory", content |-> c]
        BY <3>3, HandlerOf, Zenon DEF r
      <4>2. Len(p) = 9 + 16
        BY <1>a, <4>1, RecordLengths
      <4>3. QED  BY <4>2
    <3>4. QED  BY <1>4, <3>1, <3>2, <3>3
  <2>2. IsLong(Len(p), m, req)
    BY <1>4, <2>1 DEF IsLong
  <2>3. Len(p) < FAR
    <3>1. Len(p) <= 26
      BY <1>2, <2>1
    <3>2. QED  BY <1>2, <1>d, <3>1, Zenon
  <2>4. QED  BY <1>2, <1>c, <2>2, <2>3 DEF p, r
<1>5. CASE req.type = "drives"
  <2> DEFINE c == get_drives(m)
  <2>1. r = [type |-> "drives", content |-> c]
    BY <1>5, HandlerOf, Zenon DEF r
  <2>2. /\ IsList(c, Fields["drives"]) /\ \A i \in 1 .. Len(c) : Len(c[i].name) = 3
        /\ Len(c) = Cardinality(DOMAIN m.drives) /\ Len(c) \in Nat /\ Len(c) <= 26
    BY DrivesTyped
  <2> HIDE DEF c
  <2>3. Len(FlattenSeq(Elements(Fields["drives"], c))) = Len(c) * 20
    <3>1. Listing(Fields["drives"])
      BY FieldLists DEF ToSet, ResponseTypes
    <3>2. \A i \in 1 .. Len(c) : Len(PushFields(Fields["drives"], c[i])) = 20
      <4>1. TAKE i \in 1 .. Len(c)
      <4>2. IsElement(c[i], Fields["drives"]) /\ Len(c[i].name) = 3
        BY <2>2 DEF IsList
      <4>3. QED  BY <4>2, RecordLengths
    <3>3. AllTake(c, Fields["drives"], 20)
      BY <2>2, <3>2 DEF AllTake
    <3>4. QED  BY <2>2, <3>1, <3>3, ListLength
  <2>4. Len(p) = 17 + Len(c) * 20
    BY <1>b, <2>1, <2>3
  <2>5. Len(p) < FAR
    BY <1>d, <2>2, <2>4, Zenon
  <2>6. IsLong(Len(p), m, req)
    BY <1>5, <2>2, <2>4, Zenon DEF IsLong
  <2>7. QED  BY <1>2, <1>c, <2>5, <2>6 DEF p, r
<1>6. CASE req.type = "rights"
  <2> DEFINE c == get_access_info(m, req.arg)
  <2>1. r = [type |-> "rights", content |-> c]
    BY <1>6, HandlerOf, Zenon DEF r
  <2>2. /\ IsList(c, Fields["rights"]) /\ \A i \in 1 .. Len(c) : Len(c[i].sid) = 32
        /\ Exists(m, req.arg) => Len(c) = Cardinality(ToldOf(Descriptor(m, req.arg)))
        /\ ~Exists(m, req.arg) => Len(c) = 0
        /\ Len(c) \in Nat /\ Len(c) < SHORTS
    <3>1. ~LongSid(m, req)
      BY <1>6 DEF Undefined
    <3>2. QED  BY <1>6, <3>1, RightsTyped
  <2> HIDE DEF c
  <2>3. Len(FlattenSeq(Elements(Fields["rights"], c))) = Len(c) * 46
    <3>1. Listing(Fields["rights"])
      BY FieldLists DEF ToSet, ResponseTypes
    <3>2. \A i \in 1 .. Len(c) : Len(PushFields(Fields["rights"], c[i])) = 46
      <4>1. TAKE i \in 1 .. Len(c)
      <4>2. IsElement(c[i], Fields["rights"]) /\ Len(c[i].sid) = 32
        BY <2>2 DEF IsList
      <4>3. QED  BY <4>2, RecordLengths
    <3>3. AllTake(c, Fields["rights"], 46)
      BY <2>2, <3>2 DEF AllTake
    <3>4. QED  BY <2>2, <3>1, <3>3, ListLength
  <2>4. Len(p) = 17 + Len(c) * 46
    BY <1>b, <2>1, <2>3
  <2>5. Len(p) < FAR
    <3>1. ASSUME NEW n \in Nat, n < SHORTS PROVE 17 + n * 46 < FAR
      BY <3>1, SMT DEF SHORTS, FAR
    <3>2. QED  BY <2>2, <2>4, <3>1, Zenon
  <2>6. IsLong(Len(p), m, req)
    <3>1. 17 + 0 * 46 = 17
      OBVIOUS
    <3>2. CASE Exists(m, req.arg)
      <4>1. Len(c) = Cardinality(ToldOf(Descriptor(m, req.arg)))
        BY <2>2, <3>2
      <4>2. Len(p) = 17 + Cardinality(ToldOf(Descriptor(m, req.arg))) * 46
        BY <2>4, <4>1
      <4>3. QED  BY <1>6, <3>2, <4>2 DEF IsLong
    <3>3. CASE ~Exists(m, req.arg)
      <4>1. Len(p) = 17
        BY <2>2, <2>4, <3>1, <3>3
      <4>2. QED  BY <1>6, <4>1 DEF IsLong
    <3>4. QED  BY <3>2, <3>3
  <2>7. QED  BY <1>2, <1>c, <2>5, <2>6 DEF p, r
<1>7. CASE req.type = "owner"
  <2> DEFINE c == get_owner_info(m, req.arg)
             d == Descriptor(m, req.arg)
  <2>1. r = [type |-> "owner", content |-> c]
    BY <1>7, HandlerOf, Zenon DEF r
  <2>2. /\ Len(c.sid) = 32
        /\ \/ Len(c.ownerDomain) = 0 /\ Len(c.ownerName) = 0
           \/ Exists(m, req.arg) /\ c.ownerDomain = d.domain /\ c.ownerName = d.name
    <3>1. ~LongSid(m, req)
      BY <1>7 DEF Undefined
    <3>2. QED  BY <1>7, <3>1, OwnerTyped
  <2> HIDE DEF c
  <2>3. Len(p) = 9 + (56 + Len(c.ownerDomain) + Len(c.ownerName))
    <3>1. "owner" \in {"os", "time", "memory", "owner"}
      OBVIOUS
    <3>2. IsElement(c, Fields["owner"]) /\ Len(p) = 9 + Len(PushFields(Fields["owner"], c))
      BY <1>a, <2>1, <3>1, Zenon
    <3>3. Len(PushFields(Fields["owner"], c)) = 56 + Len(c.ownerDomain) + Len(c.ownerName)
      BY <2>2, <3>2, RecordLengths
    <3>4. QED  BY <3>2, <3>3, Zenon
  <2>4. CASE Len(c.ownerDomain) = 0 /\ Len(c.ownerName) = 0
    <3>1. Len(p) = 65
      BY <2>3, <2>4
    <3>2. IsLong(Len(p), m, req)
      BY <1>7, <3>1, Zenon DEF IsLong
    <3>3. Len(p) < FAR
      <4>1. 65 < FAR
        BY SMT DEF FAR
      <4>2. QED  BY <3>1, <4>1, Zenon
    <3>4. QED  BY <1>2, <1>c, <3>2, <3>3 DEF p, r
  <2>5. CASE Exists(m, req.arg) /\ c.ownerDomain = d.domain /\ c.ownerName = d.name
    <3>1. Len(d.domain) \in Nat /\ Len(d.name) \in Nat /\ Len(d.domain) < 256 /\ Len(d.name) < 256
      BY <2>5 DEF MachineTyped, DescriptorTyped
    <3> HIDE DEF d
    <3>a. ASSUME NEW x \in Nat, NEW y \in Nat, x < 256, y < 256
          PROVE  9 + (56 + x + y) = 65 + x + y /\ 65 + x + y < FAR
      BY <3>a, SMT DEF FAR
    <3>b. Len(p) = 9 + (56 + Len(d.domain) + Len(d.name))
      BY <2>3, <2>5, Zenon
    <3>2. Len(p) = 65 + Len(d.domain) + Len(d.name)
      BY <3>1, <3>a, <3>b, Zenon
    <3>3. Len(p) < FAR
      BY <3>1, <3>2, <3>a, Zenon
    <3>4. IsLong(Len(p), m, req)
      BY <1>7, <2>5, <3>2, Zenon DEF IsLong, d
    <3>5. QED  BY <1>2, <1>c, <3>3, <3>4 DEF p, r
  <2>6. QED  BY <2>2, <2>4, <2>5
<1>8. QED  BY <1>3, <1>4, <1>5, <1>6, <1>7

(***************************************************************************)
(* The cells that are sent and buffered.                                   *)
(***************************************************************************)
\* A byte is a cell, and so is one that is encrypted.
LEMMA CellsOfBytes ==
    ASSUME NEW b \in Byte
    PROVE  b \in Cell /\ CIPHER + b \in Cell
BY SMT DEF Byte, Cell, CIPHER

LEMMA EncryptedCells ==
    ASSUME NEW s \in Seq(Byte)
    PROVE  Encrypt(s) \in Seq(Cell)
<1> DEFINE padding == Padding(Len(s))
           n == Len(s) + padding
           e == [i \in 1 .. n |-> CIPHER + (IF i <= Len(s) THEN s[i] ELSE padding)]
<1>1. Len(s) \in Nat
  OBVIOUS
<1>2. padding \in 1 .. 16 /\ n \in Nat
  <2>1. padding \in 1 .. 16
    BY <1>1, PaddingFits
  <2> HIDE DEF padding
  <2>2. QED  BY <1>1, <2>1
<1>3. Encrypt(s) = e
  BY <1>1, PaddingFits DEF Encrypt
<1>4. padding \in Byte
  <2> HIDE DEF padding
  <2>1. QED  BY <1>2, SMT DEF Byte
<1> HIDE DEF padding, n
<1>5. \A i \in 1 .. n : e[i] \in Cell
  <2>1. TAKE i \in 1 .. n
  <2>2. (IF i <= Len(s) THEN s[i] ELSE padding) \in Byte
    <3>1. CASE i <= Len(s)
      BY <1>1, <1>2, <3>1
    <3>2. CASE ~(i <= Len(s))
      BY <1>4, <3>2
    <3>3. QED  BY <3>1, <3>2
  <2>3. e[i] = CIPHER + (IF i <= Len(s) THEN s[i] ELSE padding)
    OBVIOUS
  <2>4. QED  BY <2>2, <2>3, CellsOfBytes, Zenon
<1>6. e \in [1 .. n -> Cell]
  BY <1>5
<1> HIDE DEF e
<1>7. QED  BY <1>2, <1>3, <1>6

\* A message is made of cells if its content is.
LEMMA CellsFramed ==
    ASSUME NEW content \in Seq(Cell), NEW t \in ToSet(MessageTypes), NEW e \in ToSet(Encryptions)
    PROVE  Framed(t, e, content) \in Seq(Cell)
<1>1. PICK n \in 0 .. 127 : Code(MessageTypes, t) = <<n>>
  BY Enumerations DEF Enums
<1>2. PICK m \in 0 .. 127 : Code(Encryptions, e) = <<m>>
  BY Enumerations DEF Enums
<1> DEFINE header == Word(SIZE, HEADER + Len(content))
<1>3. header \in Seq(Byte) /\ header \in Seq(Memory) /\ Len(header) = SIZE
  <2>1. HEADER + Len(content) \in Nat
    BY DEF HEADER, SIZE
  <2> HIDE DEF header
  <2>2. QED  BY <2>1, SizeWord DEF header
<1>4. header \in Seq(Cell) /\ Len(header) = 8
  <2> HIDE DEF header
  <2>1. Byte \subseteq Cell
    BY CellsOfBytes
  <2>2. header \in Seq(Cell)
    BY <1>3, <2>1, SeqMonotonic
  <2>3. QED  BY <1>3, <2>2 DEF SIZE
<1>5. Framed(t, e, content) = header \o <<n>> \o <<m>> \o content
  BY <1>1, <1>2, <1>3, <1>4, SwappedTwice DEF Framed, InMemory, ntoh_generic
<1>6. n \in Cell /\ m \in Cell
  <2>1. n \in Byte /\ m \in Byte
    BY DEF Byte
  <2>2. QED  BY <2>1, CellsOfBytes
<1> HIDE DEF header
<1>7. QED  BY <1>4, <1>5, <1>6, Layout, Zenon

(***************************************************************************)
(* The exchange, with what is answered.                                    *)
(***************************************************************************)
Reply(m, req) == Message("response", PackResponse(Handle(m, req)))

Defined(req) == req \in Requests /\ ~Undefined(machine, req)

\* What is sent, buffered and answered are cells.
Celled ==
    /\ wire \in Seq(Cell) /\ answer \in Seq(Cell)
    /\ recvBuf \in [1 .. MAX_BUF_SIZE -> Cell]

\* A request is answered with what the handler of its type returns, and its answer is
\* what is printed.
Answered ==
    stage = "answered" => \/ line = NoLine
                          \/ LET r == parse_command(line.keys) IN
                             Defined(r) /\ answer = Reply(machine, r)

Shown ==
    stage = "prompt" => \/ line = NoLine
                        \/ printed = <<"usage">>
                        \/ LET r == parse_command(line.keys) IN
                           /\ Defined(r)
                           /\ printed = <<Handle(machine, r), Printed(r.type, Handle(machine, r))>>

\* What is undefined is that of a handler, or the copy of an answer that is too long.
Overrun ==
    stage = "undefined" =>
        \/ ~(HEADER + Len(SessionKey) <= MAX_BUF_SIZE)
        \/ /\ asked \in Requests
           /\ Undefined(machine, asked) \/ ~(Len(Reply(machine, asked)) <= MAX_BUF_SIZE)

\* The inductive invariant, with Receiving.
Answering ==
    /\ machine \in Machines
    /\ asked.type \in ToSet(RequestTypes) \cup {"none"}
    /\ Celled /\ Answered /\ Shown /\ Overrun

\* Machines that are what Windows documents.
MachinesTyped == \A m \in Machines : MachineTyped(m)

\* The message of a response: what is received of it is what the handler returned.
LEMMA ReplyMessage ==
    ASSUME NEW m, MachineTyped(m), NEW req, req \in Requests, ~Undefined(m, req)
    PROVE  LET p == PackResponse(Handle(m, req)) IN
           /\ Reply(m, req) \in Seq(Cell) /\ Reply(m, req) \in Seq(Memory)
           /\ Len(Reply(m, req)) \in Nat
           /\ Len(p) \in Nat /\ Len(Reply(m, req)) = 10 + (Len(p) + Padding(Len(p)))
           /\ IsLong(Len(p), m, req)
           /\ Received(Reply(m, req)).type = "response"
           /\ ParseResponse(Received(Reply(m, req)).buf) = Handle(m, req)
<1> DEFINE r == Handle(m, req)
           p == PackResponse(r)
           reply == Message("response", p)
<1>1. IsResponse(r) /\ HoldsResponse(p, r)
  BY Handled, PackedResponse
<1>2. /\ p \in Seq(Byte) /\ Len(p) \in Nat /\ Len(p) < LIMIT /\ 2 * Len(p) + 64 < LIMIT
      /\ IsLong(Len(p), m, req)
  <2>1. Len(p) \in Nat
    BY <1>1 DEF HoldsResponse
  <2>2. QED  BY <2>1, ResponseLength
<1> HIDE DEF p, r
<1>3. /\ IsMessage(reply) /\ Len(reply) = 10 + (Len(p) + Padding(Len(p)))
      /\ \A buf \in Seq(Memory) :
           Len(reply) <= Len(buf) /\ SameCells(buf, reply, Len(reply)) => Carries(buf, "response", p)
  BY <1>2, EncryptedMessage, Names
<1>4. reply \in Seq(Cell)
  <2>1. Encrypt(p) \in Seq(Cell)
    BY <1>2, EncryptedCells
  <2>2. QED  BY <2>1, CellsFramed, Names DEF Message
<1> HIDE DEF reply
<1>5. Carries(reply, "response", p)
  <2>1. reply \in Seq(Memory) /\ Len(reply) <= Len(reply) /\ SameCells(reply, reply, Len(reply))
    BY <1>3 DEF IsMessage, SameCells
  <2>2. QED  BY <1>3, <2>1
<1>6. ParseResponse(Received(reply).buf) = r
  <2> DEFINE buf == Received(reply).buf
  <2>1. buf \in Seq(Memory) /\ Len(p) <= Len(buf) /\ SameCells(buf, p, Len(p))
    BY <1>5 DEF Carries
  <2> HIDE DEF buf
  <2>2. ParseResponse(buf) = r
    BY <1>1, <1>2, <2>1, ParsedResponse
  <2>3. QED  BY <2>2 DEF buf
<1>7. Received(reply).type = "response" /\ reply \in Seq(Memory) /\ Len(reply) \in Nat
  BY <1>3, <1>5 DEF Carries, IsMessage
<1>8. reply = Reply(m, req)
  BY DEF Reply, reply, p, r
<1>9. QED  BY <1>2, <1>3, <1>4, <1>6, <1>7, <1>8 DEF p, r

\* The message that hands out the key is of its own kind.
LEMMA KeyReply ==
    LET m == Framed("key_response", "asymmetric", SessionKey) IN
    m \in Seq(Cell) /\ Len(m) = HEADER + Len(SessionKey)
<1>1. Byte \subseteq Memory /\ Byte \subseteq Cell
  BY CellsOfBytes DEF Byte, Memory
<1>2. SessionKey \in Seq(Byte)
  BY ExchangeAssumption DEF Byte
<1>3. SessionKey \in Seq(Memory) /\ SessionKey \in Seq(Cell)
  BY <1>1, <1>2, SeqMonotonic
<1>4. QED  BY <1>3, FramedCells, CellsFramed, Names DEF IsFramed

\* What is on its way from the client: the key request, or a request.
LEMMA SentCells ==
    /\ KeyRequest \in Seq(Cell)
    /\ \A r \in Requests : Message("request", PackRequest(r)) \in Seq(Cell)
<1>1. KeyRequest \in Seq(Cell)
  <2>1. Byte \subseteq Cell
    BY CellsOfBytes
  <2>2. PublicKey \in Seq(Byte)
    BY ExchangeAssumption DEF Byte
  <2>3. PublicKey \in Seq(Cell)
    BY <2>1, <2>2, SeqMonotonic
  <2>4. QED  BY <2>3, CellsFramed, Names DEF KeyRequest
<1>2. ASSUME NEW r \in Requests PROVE Message("request", PackRequest(r)) \in Seq(Cell)
  <2>1. PackRequest(r) \in Seq(Byte)
    BY PackedRequest DEF Holds
  <2>2. Encrypt(PackRequest(r)) \in Seq(Cell)
    BY <2>1, EncryptedCells
  <2>3. QED  BY <2>2, CellsFramed, Names DEF Message
<1>3. QED  BY <1>1, <1>2

\* Cells that arrive are cells wherever they are stored.
LEMMA ArrivingCells ==
    ASSUME Celled, Receiving, NEW n, n \in 1 .. Len(wire)
    PROVE  SubSeq(wire, n + 1, Len(wire)) \in Seq(Cell) /\ Filled(n) \in [1 .. MAX_BUF_SIZE -> Cell]
<1>1. /\ wire \in Seq(Cell) /\ recvBuf \in [1 .. MAX_BUF_SIZE -> Cell]
      /\ recvBufSize \in Nat /\ MAX_BUF_SIZE \in Nat /\ Len(wire) \in Nat
  BY ExchangeAssumption DEF Celled, Receiving
<1>2. n \in Nat /\ 1 <= n /\ n <= Len(wire)
  BY <1>1
<1>3. SubSeq(wire, n + 1, Len(wire)) \in Seq(Cell)
  BY <1>1, <1>2
<1>4. ASSUME NEW i \in 1 .. MAX_BUF_SIZE
      PROVE  (IF i - recvBufSize \in 1 .. n THEN wire[i - recvBufSize] ELSE recvBuf[i]) \in Cell
  <2>1. CASE i - recvBufSize \in 1 .. n
    <3>1. i - recvBufSize \in 1 .. Len(wire)
      BY <1>1, <1>2, <2>1
    <3>2. QED  BY <1>1, <2>1, <3>1
  <2>2. CASE ~(i - recvBufSize \in 1 .. n)
    BY <1>1, <2>2
  <2>3. QED  BY <2>1, <2>2
<1>5. Filled(n) \in [1 .. MAX_BUF_SIZE -> Cell]
  BY <1>4 DEF Filled
<1>6. QED  BY <1>3, <1>5

LEMMA AnsweringInit ==
    ASSUME Init
    PROVE  Answering
<1>1. 0 \in Cell
  <2>1. 0 \in Byte
    BY DEF Byte
  <2>2. QED  BY <2>1, CellsOfBytes
<1>2. /\ machine \in Machines /\ wire = KeyRequest /\ answer = <<>> /\ stage = "sending"
      /\ recvBuf = [i \in 1 .. MAX_BUF_SIZE |-> 0] /\ asked.type = "none"
  BY DEF Init, NoRequest
<1>3. Celled
  <2>1. recvBuf \in [1 .. MAX_BUF_SIZE -> Cell]
    BY <1>1, <1>2
  <2>2. QED  BY <1>2, <2>1, SentCells DEF Celled
<1>4. QED  BY <1>2, <1>3 DEF Answering, Answered, Shown, Overrun

LEMMA AnsweringType ==
    ASSUME PathsFit, Answering, NEW l \in Lines, Type(l)
    PROVE  Answering'
<1> DEFINE r == parse_command(l.keys)
<1>1. /\ machine' = machine /\ recvBuf' = recvBuf /\ asked' = asked /\ answer' = answer
      /\ machine \in Machines /\ asked.type \in ToSet(RequestTypes) \cup {"none"}
      /\ wire \in Seq(Cell) /\ answer \in Seq(Cell) /\ recvBuf \in [1 .. MAX_BUF_SIZE -> Cell]
  BY DEF Answering, Celled, Type
<1>2. CASE r.type = "none"
  <2>1. stage' = "prompt" /\ wire' = wire /\ printed' = <<"usage">>
    BY <1>2 DEF Type
  <2>2. QED  BY <1>1, <2>1 DEF Answering, Celled, Answered, Shown, Overrun
<1>3. CASE r.type # "none"
  <2>1. r \in Requests
    BY <1>3, Commands DEF PathsFit
  <2>2. wire' = Message("request", PackRequest(r)) /\ stage' = "sending"
    BY <1>3 DEF Type
  <2> HIDE DEF r
  <2>3. wire' \in Seq(Cell)
    BY <2>1, <2>2, SentCells
  <2>4. QED  BY <1>1, <2>2, <2>3 DEF Answering, Celled, Answered, Shown, Overrun
<1>4. QED  BY <1>2, <1>3

LEMMA AnsweringPart ==
    ASSUME Receiving, Answering, NEW n, ArrivesPartly(n)
    PROVE  Answering'
<1>1. /\ n \in 1 .. Len(wire) /\ wire' = SubSeq(wire, n + 1, Len(wire)) /\ recvBuf' = Filled(n)
      /\ machine' = machine /\ asked' = asked /\ answer' = answer /\ stage' = "sending"
  BY DEF ArrivesPartly, Arrives
<1>2. wire' \in Seq(Cell) /\ recvBuf' \in [1 .. MAX_BUF_SIZE -> Cell]
  BY <1>1, ArrivingCells DEF Answering
<1>3. QED  BY <1>1, <1>2 DEF Answering, Celled, Answered, Shown, Overrun

\* A request that is taken is answered by its handler, or is undefined.
LEMMA AnsweringWhole ==
    ASSUME KeyFits, MachinesTyped, Receiving, Answering, NEW n, ArrivesWhole(n)
    PROVE  Answering'
<1> DEFINE f == Filled(n)
           r == parse_command(line.keys)
           key == Framed("key_response", "asymmetric", SessionKey)
<1>1. Recognised(f) /\ wire' = <<>>
  BY TakenWhole
<1>2. /\ n \in 1 .. Len(wire) /\ recvBuf' = f /\ machine' = machine /\ line' = line
      /\ machine \in Machines /\ MachineTyped(machine)
  BY DEF ArrivesWhole, Arrives, Answering, MachinesTyped
<1>3. recvBuf' \in [1 .. MAX_BUF_SIZE -> Cell] /\ <<>> \in Seq(Cell) /\ wire' \in Seq(Cell)
  BY <1>1, <1>2, ArrivingCells DEF Answering
<1>4. /\ Received(f).type = "key_request" => Sends(key) /\ asked' = asked
      /\ Received(f).type # "key_request" =>
           LET req == ParseRequest(Received(f).buf) IN
           /\ asked' = req
           /\ IF req.type = "invalid" THEN answer' = <<>> /\ stage' = "ignored"
              ELSE IF Undefined(machine, req) THEN answer' = <<>> /\ stage' = "undefined"
              ELSE Sends(Reply(machine, req))
  BY Zenon DEF ArrivesWhole, Reply
<1>5. asked.type \in ToSet(RequestTypes) \cup {"none"}
  BY DEF Answering
<1> HIDE DEF f, r, key
<1>6. ASSUME NEW m, m \in Seq(Cell), Sends(m)
      PROVE  /\ answer' \in Seq(Cell)
             /\ \/ stage' = "answered" /\ answer' = m
                \/ stage' = "undefined" /\ ~(Len(m) <= MAX_BUF_SIZE)
  BY <1>3, <1>6 DEF Sends
<1>7. CASE line = NoLine /\ Received(f).type = "key_request"
  <2>1. key \in Seq(Cell) /\ Len(key) = HEADER + Len(SessionKey)
    BY KeyReply DEF key
  <2>2. Sends(key) /\ asked' = asked
    BY <1>4, <1>7
  <2>3. /\ answer' \in Seq(Cell)
        /\ \/ stage' = "answered"
           \/ stage' = "undefined" /\ ~(HEADER + Len(SessionKey) <= MAX_BUF_SIZE)
    BY <1>6, <2>1, <2>2, Zenon
  <2>4. QED  BY <1>2, <1>3, <1>5, <1>7, <2>2, <2>3 DEF Answering, Celled, Answered, Shown, Overrun
<1>8. CASE /\ Received(f).type = "request"
           /\ ParseRequest(Received(f).buf) = r
           /\ r \in Requests
  <2>1. r.type \in ToSet(RequestTypes) /\ r.type # "invalid"
    <3>1. r.type \in ToSet(RequestTypes)
      BY <1>8 DEF Requests
    <3>2. QED  BY <3>1 DEF ToSet, RequestTypes
  <2>2. /\ asked' = r
        /\ IF Undefined(machine, r) THEN answer' = <<>> /\ stage' = "undefined"
           ELSE Sends(Reply(machine, r))
    BY <1>4, <1>8, <2>1, Zenon
  <2>3. CASE Undefined(machine, r)
    <3>1. answer' = <<>> /\ stage' = "undefined"
      BY <2>2, <2>3
    <3>2. Overrun'
      BY <1>2, <1>8, <2>2, <2>3 DEF Overrun
    <3>3. QED  BY <1>2, <1>3, <2>1, <2>2, <3>1, <3>2 DEF Answering, Celled, Answered, Shown
  <2>4. CASE ~Undefined(machine, r)
    <3> DEFINE reply == Reply(machine, r)
    <3>1. reply \in Seq(Cell)
      BY <1>2, <1>8, <2>4, ReplyMessage
    <3>2. Sends(reply)
      BY <2>2, <2>4
    <3> HIDE DEF reply
    <3>3. /\ answer' \in Seq(Cell)
          /\ \/ stage' = "answered" /\ answer' = reply
             \/ stage' = "undefined" /\ ~(Len(reply) <= MAX_BUF_SIZE)
      BY <1>6, <3>1, <3>2, Zenon
    <3>4. Overrun'
      BY <1>2, <1>8, <2>2, <3>3 DEF Overrun, reply
    <3>5. Answered'
      BY <1>2, <1>8, <2>4, <3>3 DEF Answered, Defined, reply, r
    <3>6. Shown'
      BY <3>3 DEF Shown
    <3>7. QED  BY <1>2, <1>3, <2>1, <2>2, <3>3, <3>4, <3>5, <3>6 DEF Answering, Celled
  <2>5. QED  BY <2>3, <2>4
<1>9. QED  BY <1>1, <1>7, <1>8 DEF Recognised, r

\* What is printed is what was answered.
LEMMA AnsweringDisplay ==
    ASSUME MachinesTyped, Answering, Display
    PROVE  Answering'
<1> DEFINE r == parse_command(line.keys)
<1>1. /\ stage = "answered" /\ stage' = "prompt" /\ answer' = <<>> /\ machine' = machine
      /\ line' = line /\ wire' = wire /\ recvBuf' = recvBuf /\ asked' = asked
  BY DEF Display
<1>2. Celled' /\ Answered' /\ Overrun' /\ machine' \in Machines
      /\ asked'.type \in ToSet(RequestTypes) \cup {"none"}
  BY <1>1 DEF Answering, Celled, Answered, Overrun
<1>3. ASSUME line # NoLine
      PROVE  Defined(r) /\ printed' = <<Handle(machine, r), Printed(r.type, Handle(machine, r))>>
  <2>1. Defined(r) /\ answer = Reply(machine, r) /\ machine \in Machines
    BY <1>1, <1>3 DEF Answering, Answered
  <2>2. Received(answer).type # "key_request" /\ Received(answer).type # "key_response"
        /\ ParseResponse(Received(answer).buf) = Handle(machine, r)
    <3>1. r \in Requests /\ ~Undefined(machine, r) /\ MachineTyped(machine)
      BY <2>1 DEF Defined, MachinesTyped
    <3> HIDE DEF r
    <3>2. QED  BY <2>1, <3>1, ReplyMessage
  <2>3. printed' = IF Received(answer).type = "key_response" THEN <<"key">>
                   ELSE <<ParseResponse(Received(answer).buf),
                          Printed(r.type, ParseResponse(Received(answer).buf))>>
    BY Zenon DEF Display
  <2>4. QED  BY <2>1, <2>2, <2>3
<1>4. Shown'
  BY <1>1, <1>3 DEF Shown, Defined
<1>5. QED  BY <1>2, <1>4 DEF Answering

\* The inductive invariant holds: what is answered, and what is printed, is what the
\* handler of the request that was typed returned.
THEOREM AnsweringAlways ==
    ASSUME KeyFits, PathsFit, MachinesTyped
    PROVE  Spec => []Answering
<1>1. Init => Answering
  BY AnsweringInit
<1>2. Receiving /\ Answering /\ [Next]_vars => Answering'
  <2>1. ASSUME Receiving, Answering, Next PROVE Answering'
    <3>1. CASE \E l \in Lines : Type(l)
      BY <2>1, <3>1, AnsweringType
    <3>2. CASE \E n : ArrivesPartly(n) \/ ArrivesWhole(n)
      BY <2>1, <3>2, AnsweringPart, AnsweringWhole
    <3>3. CASE BufferFull
      BY <2>1, <3>3 DEF BufferFull, Answering, Celled, Answered, Shown, Overrun
    <3>4. CASE Display
      BY <2>1, <3>4, AnsweringDisplay
    <3>5. QED  BY <2>1, <3>1, <3>2, <3>3, <3>4 DEF Next
  <2>2. ASSUME Answering, UNCHANGED vars PROVE Answering'
    BY <2>2 DEF Answering, Celled, Answered, Shown, Overrun, Defined, vars
  <2>3. QED  BY <2>1, <2>2
<1>3. QED  BY <1>1, <1>2, ReceivingAlways, PTL DEF Spec

\* Every variable has its type: no cell that is sent or buffered is undefined, although
\* pop and the constructors of a message read past what they parse.
THEOREM CellsAreDefined ==
    ASSUME KeyFits, PathsFit, MachinesTyped
    PROVE  Spec => []TypeOK
<1>1. Receiving /\ Answering => TypeOK
  BY DEF Receiving, Answering, Celled, TypeOK, Stages
<1>2. QED  BY <1>1, ReceivingAlways, AnsweringAlways, PTL

\* The client prints what the handler returned for what the user asked, whatever the
\* drives, descriptors and accounts of the server are: no field is read as another,
\* and no list loses an element (pack and the parsing constructors of responses).
THEOREM ToldIsSo ==
    ASSUME KeyFits, PathsFit, Understood, MachinesTyped
    PROVE  Spec => []ToldWhatIsSo
<1>1. Receiving /\ Answering => ToldWhatIsSo
  <2>1. SUFFICES ASSUME Receiving, Answering, stage = "prompt", line # NoLine, printed # <<"usage">>
                 PROVE  printed[1] = Handle(machine, line.meant)
    BY DEF ToldWhatIsSo
  <2>2. parse_command(line.keys) = line.meant
    BY <2>1 DEF Receiving, Understood
  <2>3. printed = <<Handle(machine, line.meant), Printed(line.meant.type, Handle(machine, line.meant))>>
    BY <2>1, <2>2, Zenon DEF Answering, Shown
  <2>4. QED  BY <2>3
<1>2. QED  BY <1>1, ReceivingAlways, AnsweringAlways, PTL
-----------------------------------------------------------------------------
\* With buffers of 512 bytes the copy of a response overruns only for 24 drives or more,
\* 11 entries or more, and names of more than 430 bytes together (SendMessage's copy
\* into sendBuf); a handler is undefined only for a missing DACL and a long SID.
THEOREM OnlyLongResponsesOverrun ==
    ASSUME KeyFits, PathsFit, MachinesTyped, MAX_BUF_SIZE >= 512,
           HEADER + Len(SessionKey) <= MAX_BUF_SIZE
    PROVE  Spec => []ResponsesFit
<1>1. Answering => ResponsesFit
  <2>1. SUFFICES ASSUME Answering, stage = "undefined" PROVE ResponsesFit
    BY DEF ResponsesFit
  <2> DEFINE d == Descriptor(machine, asked.arg)
             told == {i \in DOMAIN d.dacl : d.dacl[i].type \in {"ALLOWED", "DENIED"}}
             DrivesFit == ~(Cardinality(DOMAIN machine.drives) > 23)
             RightsFit == ~(~d.hasDacl \/ Cardinality(told) > 10 \/ \E i \in told : Len(d.dacl[i].sid) > 32)
             OwnerFits == ~(Len(d.sid) > 32 \/ Len(d.domain) + Len(d.name) > 430)
  <2>2. /\ asked \in Requests /\ machine \in Machines /\ MachineTyped(machine)
        /\ Undefined(machine, asked) \/ ~(Len(Reply(machine, asked)) <= MAX_BUF_SIZE)
    BY <2>1 DEF Answering, Overrun, MachinesTyped
  <2>3. told = ToldOf(d)
    BY DEF ToldOf, Told
  <2>4. /\ asked.type = "drives" => ~DrivesFit
        /\ asked.type = "rights" => ~RightsFit
        /\ asked.type = "owner" => ~OwnerFits
        /\ asked.type \in {"drives", "rights", "owner"}
    <3>1. CASE Undefined(machine, asked)
      <4>1. CASE asked.type = "rights" /\ NullDacl(machine, asked.arg)
        BY <4>1 DEF NullDacl
      <4>2. CASE asked.type = "rights" /\ LongSid(machine, asked)
        BY <4>2 DEF LongSid, Told, SID_SIZE
      <4>3. CASE asked.type = "owner" /\ LongSid(machine, asked)
        BY <4>3 DEF LongSid, SID_SIZE
      <4>4. QED  BY <3>1, <4>1, <4>2, <4>3 DEF Undefined
    <3>2. CASE ~Undefined(machine, asked)
      <4> DEFINE p == PackResponse(Handle(machine, asked))
                 n == Len(p)
      <4>a. ASSUME NEW k \in Nat PROVE IsFiniteSet(1 .. k)
        BY FS_Interval
      <4>1. n \in Nat /\ IsLong(n, machine, asked) /\ ~(10 + (n + Padding(n)) <= MAX_BUF_SIZE)
        BY <2>2, <3>2, ReplyMessage
      <4> HIDE DEF n
      <4>2. n > 495
        <5>1. ASSUME NEW k \in Nat, k <= 495, NEW b \in Nat, b >= 512
              PROVE  10 + (k + Padding(k)) <= b
          BY <5>1, SMT DEF Padding, BLOCK
        <5>2. MAX_BUF_SIZE \in Nat /\ MAX_BUF_SIZE >= 512
          BY ExchangeAssumption
        <5>3. ~(n <= 495)
          BY <4>1, <5>1, <5>2
        <5>4. QED  BY <4>1, <5>3, SMT
      <4>3. asked.type \in {"os", "time", "uptime", "memory", "drives", "rights", "owner"}
        BY <2>2 DEF Requests, ToSet, RequestTypes
      <4>4. CASE asked.type \in {"os", "time", "uptime", "memory"}
        <5>1. n <= 25
          BY <4>1, <4>4 DEF IsLong
        <5>2. QED  BY <4>1, <4>2, <5>1, SMT
      <4>5. CASE asked.type = "drives"
        <5>1. n = 17 + Cardinality(DOMAIN machine.drives) * 20
          BY <4>1, <4>5 DEF IsLong
        <5>2. Cardinality(DOMAIN machine.drives) \in Nat
          <6>1. IsFiniteSet(1 .. 26)
            <7>1. 26 \in Nat
              OBVIOUS
            <7>2. QED  BY <4>a, <7>1, Zenon
          <6>2. QED  BY <2>2, <6>1, FS_Subset, FS_CardinalityType DEF MachineTyped
        <5>3. ASSUME NEW k \in Nat, 17 + k * 20 > 495 PROVE k > 23
          BY <5>3, SMT
        <5>4. QED  BY <4>2, <4>5, <5>1, <5>2, <5>3
      <4>6. CASE asked.type = "rights"
        <5>1. n = 17 \/ (Exists(machine, asked.arg) /\ n = 17 + Cardinality(told) * 46)
          BY <2>3, <4>1, <4>6 DEF IsLong
        <5>2. Exists(machine, asked.arg) /\ n = 17 + Cardinality(told) * 46
          <6>1. ~(17 > 495)
            BY SMT
          <6>2. QED  BY <4>2, <5>1, <6>1
        <5>3. Cardinality(told) \in Nat
          <6>1. DescriptorTyped(d)
            BY <2>2, <5>2 DEF MachineTyped
          <6> HIDE DEF d
          <6>2. Len(d.dacl) \in Nat /\ DOMAIN d.dacl = 1 .. Len(d.dacl)
            BY <6>1 DEF DescriptorTyped
          <6>3. IsFiniteSet(DOMAIN d.dacl)
            BY <4>a, <6>2, Zenon
          <6>4. QED  BY <6>3, FS_Subset, FS_CardinalityType
        <5>4. ASSUME NEW k \in Nat, 17 + k * 46 > 495 PROVE k > 10
          BY <5>4, SMT
        <5>5. QED  BY <4>2, <4>6, <5>2, <5>3, <5>4
      <4>7. CASE asked.type = "owner"
        <5>1. n = 65 \/ (Exists(machine, asked.arg) /\ n = 65 + Len(d.domain) + Len(d.name))
          BY <4>1, <4>7 DEF IsLong
        <5>2. Exists(machine, asked.arg) /\ n = 65 + Len(d.domain) + Len(d.name)
          <6>1. ~(65 > 495)
            BY SMT
          <6>2. QED  BY <4>2, <5>1, <6>1
        <5>3. Len(d.domain) \in Nat /\ Len(d.name) \in Nat
          <6>1. DescriptorTyped(d)
            BY <2>2, <5>2 DEF MachineTyped
          <6>2. QED  BY <6>1 DEF DescriptorTyped
        <5>4. ASSUME NEW x \in Nat, NEW y \in Nat, 65 + x + y > 495 PROVE x + y > 430
          BY <5>4, SMT
        <5> HIDE DEF d
        <5>5. Len(d.domain) + Len(d.name) > 430
          BY <4>2, <5>2, <5>3, <5>4
        <5>6. QED  BY <4>7, <5>5
      <4>8. QED  BY <4>3, <4>4, <4>5, <4>6, <4>7
    <3>3. QED  BY <3>1, <3>2
  <2>5. QED  BY <2>4, Zenon DEF ResponsesFit
<1>2. QED  BY <1>1, AnsweringAlways, PTL
-----------------------------------------------------------------------------
\* The number of a word is one.
LEMMA UnsignedType ==
    ASSUME NEW w, Bytes8(w)
    PROVE  Unsigned(w) \in Nat
<1>1. w \in [1 .. 8 -> Byte]
  BY LenProperties DEF Bytes8
<1>2. \A i \in 1 .. 8 : w[i] \in Nat
  BY <1>1, Bytes DEF Byte
<1>3. /\ w[1] \in Nat /\ w[2] \in Nat /\ w[3] \in Nat /\ w[4] \in Nat
      /\ w[5] \in Nat /\ w[6] \in Nat /\ w[7] \in Nat /\ w[8] \in Nat
  BY <1>2
<1>4. ASSUME NEW a \in Nat, NEW b \in Nat PROVE a * 256 + b \in Nat
  BY SMT
<1> DEFINE n2 == w[1] * 256 + w[2]
           n3 == n2 * 256 + w[3]
           n4 == n3 * 256 + w[4]
           n5 == n4 * 256 + w[5]
           n6 == n5 * 256 + w[6]
           n7 == n6 * 256 + w[7]
           n8 == n7 * 256 + w[8]
<1>5. Unsigned(w) = n8
  BY SMT DEF Unsigned
<1>6. n2 \in Nat
  BY <1>3, <1>4
<1> HIDE DEF n2
<1>7. n3 \in Nat
  BY <1>3, <1>4, <1>6
<1> HIDE DEF n3
<1>8. n4 \in Nat
  BY <1>3, <1>4, <1>7
<1> HIDE DEF n4
<1>9. n5 \in Nat
  BY <1>3, <1>4, <1>8
<1> HIDE DEF n5
<1>10. n6 \in Nat
  BY <1>3, <1>4, <1>9
<1> HIDE DEF n6
<1>11. n7 \in Nat
  BY <1>3, <1>4, <1>10
<1> HIDE DEF n7
<1>12. n8 \in Nat
  BY <1>3, <1>4, <1>11
<1>13. QED  BY <1>5, <1>12

\* A zone differs from that of Greenwich by less than a day.
DAY == 1440
ZonesFit == \A m \in Machines : -DAY < m.bias /\ m.bias < DAY

\* The hours of a bias: their byte is read as they are, and less than one is dropped.
LEMMA ZoneHours ==
    ASSUME NEW bias \in Int, -DAY < bias, bias < DAY
    PROVE  LET z == Signed(Int8(Quotient(-1 * bias, 60))) IN
           z \in Int /\ z * 60 + bias >= -59 /\ z * 60 + bias <= 59
<1> DEFINE q == Quotient(-1 * bias, 60)
<1>1. q \in Int /\ q > -24 /\ q < 24 /\ q * 60 + bias >= -59 /\ q * 60 + bias <= 59
  BY SMT DEF Quotient, DAY
<1> HIDE DEF q
<1>2. Int8(q) = <<q % 256>> /\ Int8(q)[1] = q % 256
  BY DEF Int8
<1>3. Signed(Int8(q)) = q
  <2>1. Signed(Int8(q)) = IF (q % 256) > 127 THEN (q % 256) - 256 ELSE (q % 256)
    BY <1>2, SMT DEF Signed
  <2>2. (IF (q % 256) > 127 THEN (q % 256) - 256 ELSE (q % 256)) = q
    BY <1>1, SMT
  <2>3. QED  BY <2>1, <2>2, SMT
<1>4. QED  BY <1>1, <1>3 DEF q

\* The clock of a zone differs by its hours from that of Greenwich.
ClockShows(clock, zone, t) ==
    /\ clock \in [hours : 0 .. 23, minutes : 0 .. 59, seconds : 0 .. 59]
    /\ ((clock.hours - zone) * 3600 + clock.minutes * 60 + clock.seconds - t) % 86400 = 0

LEMMA ClockOfZone ==
    ASSUME NEW ms \in Nat, NEW z \in Int
    PROVE  ClockShows(format_time(ms + z * 3600 * 1000), z, ms \div 1000)
<1> DEFINE t == ms \div 1000
           s == (ms + z * 3600 * 1000) \div 1000
           m == s \div 60
           h == m \div 60
           clock == format_time(ms + z * 3600 * 1000)
<1>1. t \in Nat /\ s \in Int /\ s = t + z * 3600
  BY SMT
<1>2. clock = [hours |-> h % 24, minutes |-> m % 60, seconds |-> s % 60]
  BY SMT DEF format_time
<1> HIDE DEF t, clock
<1>3. s \in Int /\ m \in Int /\ h \in Int
  <2> HIDE DEF s
  <2>1. m \in Int
    BY <1>1, SMT
  <2> HIDE DEF m
  <2>2. h \in Int
    BY <2>1, SMT
  <2>3. QED  BY <1>1, <2>1, <2>2
<1> HIDE DEF s
<1>4. s = 60 * m + (s % 60) /\ s % 60 \in 0 .. 59
  BY <1>1, SMT
<1> HIDE DEF m
<1>5. m = 60 * h + (m % 60) /\ m % 60 \in 0 .. 59
  BY <1>3, SMT
<1> HIDE DEF h
<1>6. h = 24 * (h \div 24) + (h % 24) /\ h % 24 \in 0 .. 23 /\ h \div 24 \in Int
  BY <1>3, SMT
<1>7. ASSUME NEW d \in Int, NEW hh \in Int, NEW mm \in Int, NEW ss \in Int, h = 24 * d + hh,
             m = 60 * h + mm, s = 60 * m + ss
      PROVE  ((hh - z) * 3600 + mm * 60 + ss - t) % 86400 = 0
  <2>1. (hh - z) * 3600 + mm * 60 + ss - t = (-d) * 86400
    BY <1>1, <1>3, <1>7, SMT
  <2>2. ((-d) * 86400) % 86400 = 0
    BY <1>7, SMT
  <2>3. QED  BY <2>1, <2>2, SMT
<1>8. clock.hours = h % 24 /\ clock.minutes = m % 60 /\ clock.seconds = s % 60
  BY <1>2
<1>9. (h % 24) \in Int /\ (m % 60) \in Int /\ (s % 60) \in Int
  BY <1>4, <1>5, <1>6
<1>10. ((clock.hours - z) * 3600 + clock.minutes * 60 + clock.seconds - t) % 86400 = 0
  <2> DEFINE d  == h \div 24
             hh == clock.hours
             mm == clock.minutes
             ss == clock.seconds
  <2>1. hh \in Int /\ mm \in Int /\ ss \in Int /\ d \in Int
    BY <1>6, <1>8, <1>9
  <2>2. h = 24 * d + hh /\ m = 60 * h + mm /\ s = 60 * m + ss
    BY <1>4, <1>5, <1>6, <1>8
  <2> HIDE DEF d, hh, mm, ss
  <2>3. ((hh - z) * 3600 + mm * 60 + ss - t) % 86400 = 0
    BY <1>7, <2>1, <2>2, SMT
  <2>4. QED  BY <2>3, SMT DEF hh, mm, ss
<1>11. clock \in [hours : 0 .. 23, minutes : 0 .. 59, seconds : 0 .. 59]
  BY <1>2, <1>4, <1>5, <1>6
<1>12. QED  BY <1>10, <1>11, SMT DEF ClockShows, clock, t

\* The units of a duration add up, each below the next one.
LEMMA UnitsAddUp ==
    ASSUME NEW ms \in Nat
    PROVE  LET d == format_milliseconds(ms) IN
           /\ d.hours < 24 /\ d.minutes < 60 /\ d.seconds < 60
           /\ d.days * 86400 + d.hours * 3600 + d.minutes * 60 + d.seconds = ms \div 1000
<1> DEFINE t == ms \div 1000
           a == t % 86400
           b == a % 3600
           d == format_milliseconds(ms)
<1>1. d = [days |-> t \div 86400, hours |-> a \div 3600, minutes |-> b \div 60, seconds |-> b % 60]
  BY SMT DEF format_milliseconds
<1> HIDE DEF d
<1>2. /\ d.days = t \div 86400 /\ d.hours = a \div 3600 /\ d.minutes = b \div 60
      /\ d.seconds = b % 60
  BY <1>1, SMT
<1>3. t \in Nat
  BY SMT
<1> HIDE DEF t
<1>4. t = 86400 * (t \div 86400) + a /\ a \in Nat /\ a < 86400 /\ t \div 86400 \in Nat
  BY <1>3, SMT
<1> HIDE DEF a
<1>5. a = 3600 * (a \div 3600) + b /\ b \in Nat /\ b < 3600 /\ a \div 3600 \in Nat /\ a \div 3600 < 24
  BY <1>4, SMT
<1> HIDE DEF b
<1>6. b = 60 * (b \div 60) + (b % 60) /\ b % 60 \in Nat /\ b % 60 < 60 /\ b \div 60 \in Nat /\ b \div 60 < 60
  BY <1>5, SMT
<1>7. d.hours < 24 /\ d.minutes < 60 /\ d.seconds < 60
  BY <1>2, <1>5, <1>6
<1>8. d.days * 86400 + d.hours * 3600 + d.minutes * 60 + d.seconds = t
  BY <1>2, <1>3, <1>4, <1>5, <1>6, SMT
<1>9. QED  BY <1>7, <1>8 DEF d, t

\* The clock that is printed for a server is right for the zone printed with it, which
\* is that of the server but for less than an hour, and an uptime is split into days,
\* hours, minutes and seconds without loss (format_time and format_milliseconds on what
\* HandleGetTime and get_timezone_hours sent).
THEOREM ClocksAreRight ==
    ASSUME KeyFits, PathsFit, Understood, MachinesTyped, ZonesFit
    PROVE  Spec => []TimesAreRight
<1>1. Receiving /\ Answering => TimesAreRight
  <2>1. SUFFICES ASSUME Receiving, Answering, stage = "prompt", Len(printed) = 2
                 PROVE  TimesAreRight
    BY DEF TimesAreRight
  <2> DEFINE shown == printed[2]
             TimeRight ==
               /\ ClockShows(shown.clock, shown.utc, Unsigned(machine.time) \div 1000)
               /\ (shown.utc * 60 + machine.bias) \in -59 .. 59
             UptimeRight ==
               /\ shown.hours < 24 /\ shown.minutes < 60 /\ shown.seconds < 60
               /\ shown.days * 86400 + shown.hours * 3600 + shown.minutes * 60 + shown.seconds
                    = Unsigned(machine.uptime) \div 1000
  <2>2. (line.meant.type = "time" => TimeRight) /\ (line.meant.type = "uptime" => UptimeRight)
    <3>1. CASE line = NoLine
      <4>1. line.meant.type = "none"
        BY <3>1 DEF NoLine, NoRequest
      <4>2. QED  BY <4>1, SMT
    <3>2. CASE line # NoLine
      <4> DEFINE r == line.meant
      <4>1. line \in Lines /\ parse_command(line.keys) = r
        BY <2>1, <3>2 DEF Receiving, Understood
      <4>2. printed # <<"usage">>
        <5>1. Len(<<"usage">>) = 1
          OBVIOUS
        <5>2. QED  BY <2>1, <5>1
      <4>3. printed = <<Handle(machine, r), Printed(r.type, Handle(machine, r))>>
        BY <2>1, <3>2, <4>1, <4>2, Zenon DEF Answering, Shown
      <4>4. shown = Printed(r.type, Handle(machine, r))
        BY <4>3
      <4>5. /\ MachineTyped(machine) /\ machine.bias \in Int
            /\ -DAY < machine.bias /\ machine.bias < DAY
        BY <2>1 DEF Answering, MachinesTyped, ZonesFit, MachineTyped
      <4>6. Unsigned(machine.time) \in Nat /\ Unsigned(machine.uptime) \in Nat
        BY <4>5, UnsignedType DEF MachineTyped
      <4> HIDE DEF shown, r
      <4>7. ASSUME r.type = "time" PROVE TimeRight
        <5> DEFINE z == Signed(Int8(Quotient(-1 * machine.bias, 60)))
                   ms == Unsigned(machine.time)
        <5>1. Handle(machine, r) = [type |-> "time", content |-> HandleGetTime(machine)]
          BY <4>7, HandlerOf, Zenon
        <5>2. /\ HandleGetTime(machine).time_ms = machine.time
              /\ HandleGetTime(machine).time_zone = Int8(Quotient(-1 * machine.bias, 60))
          BY DEF HandleGetTime, get_timezone_hours
        <5>3. Handle(machine, r).content = HandleGetTime(machine)
          BY <5>1
        <5>4. shown = getTime(HandleGetTime(machine))
          BY <4>4, <4>7, <5>3, Zenon DEF Printed
        <5>5. z \in Int /\ z * 60 + machine.bias >= -59 /\ z * 60 + machine.bias <= 59
          BY <4>5, ZoneHours
        <5>6. ms \in Nat
          BY <4>6
        <5> HIDE DEF z, ms
        <5>7. shown.clock = format_time(ms + z * 3600 * 1000) /\ shown.utc = z
          BY <5>2, <5>4, SMT DEF getTime, z, ms
        <5>8. ClockShows(shown.clock, shown.utc, ms \div 1000)
          BY <5>5, <5>6, <5>7, ClockOfZone, SMT
        <5>9. (shown.utc * 60 + machine.bias) \in -59 .. 59
          BY <4>5, <5>5, <5>7
        <5>10. QED  BY <5>8, <5>9 DEF ms
      <4>8. ASSUME r.type = "uptime" PROVE UptimeRight
        <5> DEFINE ms == Unsigned(machine.uptime)
        <5>1. Handle(machine, r) =
                [type |-> "time", content |-> [time_ms |-> machine.uptime, time_zone |-> Int8(0)]]
          BY <4>8, HandlerOf, Zenon
        <5>2. Handle(machine, r).content.time_ms = machine.uptime
          BY <5>1
        <5>3. shown = format_milliseconds(ms)
          BY <4>4, <4>8, <5>2, Zenon DEF Printed
        <5>4. ms \in Nat
          BY <4>6
        <5> HIDE DEF ms
        <5>5. QED  BY <5>3, <5>4, UnitsAddUp DEF ms
      <4>9. QED  BY <4>7, <4>8 DEF r
    <3>3. QED  BY <3>1, <3>2
  <2>3. QED  BY <2>2, SMT DEF TimesAreRight, ClockShows
<1>2. QED  BY <1>1, ReceivingAlways, AnsweringAlways, PTL
===============================================================================
