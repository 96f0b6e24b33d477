---------------------------- MODULE ExchangeProofs ----------------------------
(***************************************************************************)
(* Theorems about the bytes of requests, for every path a user can name,   *)
(* any size of the buffers and any way messages are cut into segments.     *)
(***************************************************************************)
EXTENDS Exchange, SequenceTheorems, TLAPS

Byte == 0 .. 255
Memory == Int   \* whatever a cell may hold

\* Sizes and counts are below half of what fits 31 bits.
LIMIT == 1073741824

\* A byte is a number.
LEMMA Bytes ==
    ASSUME NEW x, x \in 0 .. 255
    PROVE  x \in Int /\ x >= 0 /\ x \in Nat /\ x <= 255
OBVIOUS

(***************************************************************************)
(* Words and cells.                                                        *)
(***************************************************************************)
\* A word is a sequence of bytes.
LEMMA WordType ==
    ASSUME NEW w \in Nat, NEW n \in Nat
    PROVE  Word(w, n) \in Seq(Byte) /\ Len(Word(w, n)) = w
<1>1. \A j \in 1 .. 4 : LowBytes(n)[j] \in Byte
  BY SMT DEF LowBytes, Byte
<1>2. \A i \in 1 .. w : Word(w, n)[i] \in Byte
  <2>1. TAKE i \in 1 .. w
  <2>2. CASE w - i < 4
    BY <1>1, <2>2, SMT DEF Word
  <2>3. CASE ~(w - i < 4)
    BY <2>3, SMT DEF Word, Byte
  <2>4. QED  BY <2>2, <2>3
<1>3. Word(w, n) \in [1 .. w -> Byte]
  BY <1>2 DEF Word
<1>4. QED  BY <1>3

\* The word of a size has eight.
LEMMA SizeWord ==
    ASSUME NEW n \in Nat
    PROVE  Word(SIZE, n) \in Seq(Byte) /\ Word(SIZE, n) \in Seq(Memory) /\ Len(Word(SIZE, n)) = SIZE
<1>1. SIZE \in Nat
  BY DEF SIZE
<1>2. Word(SIZE, n) \in Seq(Byte) /\ Len(Word(SIZE, n)) = SIZE
  BY <1>1, WordType
<1>3. Byte \subseteq Memory
  BY DEF Byte, Memory
<1>4. QED  BY <1>2, <1>3, SeqMonotonic

\* What four bytes stand for, the least significant one first.
Value(a, b, c, d) == a + 256 * b + 65536 * c + 16777216 * d

LEMMA ValueBelowEight ==
    ASSUME NEW a \in Nat, NEW b \in Nat, NEW c \in Nat, NEW d \in Nat, Value(a, b, c, d) <= 7
    PROVE  a = Value(a, b, c, d)
BY SMT DEF Value

\* What eight bytes stand for, if they stand for anything.
LEMMA NumberOfEight ==
    ASSUME NEW word \in Seq(Memory), Len(word) = 8, Number(word) # UNDEF
    PROVE  /\ \A i \in 1 .. 8 : word[i] \in Nat
           /\ Number(word) = Value(word[8], word[7], word[6], word[5])
<1>1. IsNumber(word)
  BY DEF Number
<1>2. \A i \in 1 .. 8 : word[i] \in Nat
  <2>1. TAKE i \in 1 .. 8
  <2>2. i \in DOMAIN word
    OBVIOUS
  <2>3. word[i] = 0 \/ word[i] \in 0 .. 255
    BY <1>1, <2>2 DEF IsNumber
  <2>4. CASE word[i] = 0
    BY <2>4
  <2>5. CASE word[i] \in 0 .. 255
    BY <2>5, Bytes
  <2>6. QED  BY <2>3, <2>4, <2>5
<1>3. Low(word, 0) = word[8] /\ Low(word, 1) = word[7] /\ Low(word, 2) = word[6] /\ Low(word, 3) = word[5]
  BY SMT DEF Low
<1>4. QED  BY <1>1, <1>2, <1>3, SMT DEF Number, Value

\* A number that fits is found again in its eight bytes.
LEMMA NumberOfWord ==
    ASSUME NEW n \in Nat, n < LIMIT
    PROVE  Number(Word(SIZE, n)) = n
<1> DEFINE word == Word(SIZE, n)
<1>1. Len(word) = 8
  BY SMT DEF Word, SIZE
<1>2. /\ word[8] = n % 256 /\ word[7] = (n \div 256) % 256
      /\ word[6] = (n \div 65536) % 256 /\ word[5] = (n \div 16777216) % 256
      /\ \A i \in 1 .. 4 : word[i] = 0
  BY SMT DEF Word, LowBytes, SIZE
<1>3. n \div 16777216 < 128 /\ n \div 16777216 >= 0
  BY SMT DEF LIMIT
<1>4. /\ n % 256 \in 0 .. 255 /\ (n \div 256) % 256 \in 0 .. 255
      /\ (n \div 65536) % 256 \in 0 .. 255 /\ (n \div 16777216) % 256 = n \div 16777216
  BY <1>3, SMT
<1>5. n = (n % 256) + 256 * ((n \div 256) % 256) + 65536 * ((n \div 65536) % 256)
            + 16777216 * (n \div 16777216)
  BY SMT
<1> HIDE DEF word
<1>6. Low(word, 0) = word[8] /\ Low(word, 1) = word[7] /\ Low(word, 2) = word[6] /\ Low(word, 3) = word[5]
  BY <1>1, SMT DEF Low
<1>7. IsNumber(word)
  <2>1. DOMAIN word = 1 .. 8
    BY DEF word, Word, SIZE
  <2>2. \A i \in 1 .. 8 : word[i] \in IF 8 - i < 4 THEN 0 .. 255 ELSE {0}
    BY <1>2, <1>3, <1>4, SMT
  <2>3. QED  BY <1>1, <1>2, <1>3, <1>4, <1>6, <2>1, <2>2, SMT DEF IsNumber
<1>8. Number(word) = n
  BY <1>2, <1>4, <1>5, <1>6, <1>7, SMT DEF Number
<1>9. QED  BY <1>8 DEF word

\* So is one that fits a byte.
LEMMA NumberOfByte ==
    ASSUME NEW n \in Nat, n <= 255
    PROVE  Number(<<n>>) = n
<1> DEFINE word == <<n>>
<1>1. Len(word) = 1 /\ DOMAIN word = {1} /\ word[1] = n
  OBVIOUS
<1> HIDE DEF word
<1>2. Low(word, 0) = n /\ Low(word, 1) = 0 /\ Low(word, 2) = 0 /\ Low(word, 3) = 0
  BY <1>1 DEF Low
<1>3. \A i \in DOMAIN word : Len(word) - i < 4 /\ word[i] \in 0 .. 255
  BY <1>1
<1>4. IsNumber(word)
  BY <1>2, <1>3 DEF IsNumber
<1>5. Number(word) = n
  BY <1>2, <1>4, SMT DEF Number
<1>6. QED  BY <1>5 DEF word

\* Twice swapped is not swapped: a word is popped, and a size received, as it was
\* pushed and sent.
LEMMA SwappedTwice ==
    ASSUME NEW S, NEW s \in Seq(S)
    PROVE  /\ Swapped(s) \in Seq(S) /\ Len(Swapped(s)) = Len(s)
           /\ Swapped(Swapped(s)) = s
<1>1. Swapped(s) \in Seq(S) /\ Len(Swapped(s)) = Len(s)
  <2>1. \A i \in 1 .. Len(s) : Len(s) + 1 - i \in 1 .. Len(s)
    OBVIOUS
  <2>2. Swapped(s) \in [1 .. Len(s) -> S]
    BY <2>1 DEF Swapped
  <2>3. QED  BY <2>2
<1>2. Swapped(Swapped(s)) = [i \in 1 .. Len(s) |-> s[i]]
  BY <1>1 DEF Swapped
<1>3. QED  BY <1>1, <1>2

\* Cells that are allocated are read as they are.
LEMMA CellsWithin ==
    ASSUME NEW S, NEW buf \in Seq(S), NEW i \in Nat \ {0}, NEW n \in Nat, i + n - 1 <= Len(buf)
    PROVE  /\ Cells(buf, i, n) \in Seq(S) /\ Len(Cells(buf, i, n)) = n
           /\ \A j \in 1 .. n : Cells(buf, i, n)[j] = buf[i + j - 1]
<1> DEFINE read == SubSeq(buf, i, i + n - 1)
<1>1. /\ read \in Seq(S) /\ Len(read) = n
      /\ \A j \in 1 .. n : read[j] = buf[i + j - 1]
  BY SubSeqProperties
<1>2. Cells(buf, i, n) = read
  <2>1. Cells(buf, i, n) = read \o [j \in 1 .. n - Len(read) |-> UNDEF]
    BY DEF Cells
  <2>2. [j \in 1 .. n - Len(read) |-> UNDEF] = << >>
    BY <1>1
  <2>3. QED  BY <1>1, <2>1, <2>2
<1>3. QED  BY <1>1, <1>2

\* The first cells of a buffer.
SameCells(c, buf, n) == \A j \in 1 .. n : c[j] = buf[j]

LEMMA FirstCells ==
    ASSUME NEW S, NEW buf \in Seq(S), NEW n \in Nat, n <= Len(buf)
    PROVE  /\ Cells(buf, 1, n) \in Seq(S) /\ Len(Cells(buf, 1, n)) = n
           /\ SameCells(Cells(buf, 1, n), buf, n)
<1> DEFINE c == Cells(buf, 1, n)
<1>1. 1 \in Nat \ {0} /\ 1 + n - 1 <= Len(buf)
  OBVIOUS
<1>2. /\ c \in Seq(S) /\ Len(c) = n
      /\ \A j \in 1 .. n : c[j] = buf[1 + j - 1]
  BY <1>1, CellsWithin
<1> HIDE DEF c
<1>3. \A j \in 1 .. n : 1 + j - 1 = j
  OBVIOUS
<1>4. QED  BY <1>2, <1>3 DEF c, SameCells

\* The first eight cells of a buffer hold a number.
Announces(buf, n) == \A j \in 1 .. SIZE : buf[j] = Word(SIZE, n)[j]

\* The size a buffer announces is the number its first eight cells hold.
LEMMA SizeAnnounced ==
    ASSUME NEW buf \in Seq(Memory), NEW n \in Nat, n < LIMIT,
           SIZE <= Len(buf), Announces(buf, n)
    PROVE  MessageSize(buf) = n
<1> DEFINE read == Cells(buf, 1, SIZE)
<1>1. /\ read \in Seq(Memory) /\ Len(read) = SIZE
      /\ \A j \in 1 .. SIZE : read[j] = buf[j]
  <2>1. SIZE \in Nat
    BY DEF SIZE
  <2>2. read \in Seq(Memory) /\ Len(read) = SIZE /\ SameCells(read, buf, SIZE)
    BY <2>1, FirstCells
  <2> HIDE DEF read
  <2>3. QED  BY <2>2 DEF SIZE, SameCells
<1> HIDE DEF read
<1>2. Word(SIZE, n) \in Seq(Memory) /\ Len(Word(SIZE, n)) = SIZE
  BY SizeWord
<1>3. read = Word(SIZE, n)
  BY <1>1, <1>2, SeqEqual DEF Announces
<1>4. Swapped(Swapped(read)) = read
  BY <1>1, SwappedTwice
<1>5. QED  BY <1>3, <1>4, NumberOfWord DEF MessageSize, ntoh_generic, FromMemory, read

\* A size below eight is its last byte: where that byte is no such size, neither are
\* the eight.
LEMMA SizeInLastByte ==
    ASSUME NEW buf \in Seq(Memory), SIZE <= Len(buf), MessageSize(buf) \in 1 .. 7
    PROVE  buf[8] = MessageSize(buf)
<1> DEFINE read == Cells(buf, 1, SIZE)
<1>1. /\ read \in Seq(Memory) /\ Len(read) = 8
      /\ read[8] = buf[8]
  <2>1. SIZE \in Nat
    BY DEF SIZE
  <2>2. read \in Seq(Memory) /\ Len(read) = SIZE /\ SameCells(read, buf, SIZE)
    BY <2>1, FirstCells
  <2> HIDE DEF read
  <2>3. QED  BY <2>2 DEF SIZE, SameCells
<1> HIDE DEF read
<1>2. MessageSize(buf) = Number(read)
  BY <1>1, SwappedTwice DEF MessageSize, ntoh_generic, FromMemory, read
<1>3. Number(read) \in Int /\ Number(read) >= 1 /\ Number(read) <= 7
  BY <1>2
<1>4. /\ \A i \in 1 .. 8 : read[i] \in Nat
      /\ Number(read) = Value(read[8], read[7], read[6], read[5])
  <2>1. Number(read) # UNDEF
    BY <1>3, SMT DEF UNDEF
  <2>2. QED  BY <1>1, <2>1, NumberOfEight
<1>5. read[8] = Number(read)
  <2>1. read[5] \in Nat /\ read[6] \in Nat /\ read[7] \in Nat /\ read[8] \in Nat
    BY <1>4
  <2>2. Value(read[8], read[7], read[6], read[5]) <= 7
    BY <1>3, <1>4
  <2>3. QED  BY <1>4, <2>1, <2>2, ValueBelowEight
<1>6. QED  BY <1>1, <1>2, <1>5

(***************************************************************************)
(* Enumerations.                                                           *)
(***************************************************************************)
\* No name stands twice in an enumeration that fits a byte.
Enumerates(types) ==
    /\ Len(types) \in Nat /\ Len(types) < 128
    /\ \A i, j \in 1 .. Len(types) : types[i] = types[j] => i = j

\* A name is found again by the byte that stands for it.
LEMMA NameOfCode ==
    ASSUME NEW types, Enumerates(types), NEW k \in 1 .. Len(types)
    PROVE  /\ k - 1 \in 0 .. 127 /\ Code(types, types[k]) = <<k - 1>>
           /\ Named(types, <<k - 1>>) = types[k]
<1>1. (CHOOSE n \in 0 .. Len(types) - 1 : types[n + 1] = types[k]) = k - 1
  <2>1. k - 1 \in 0 .. Len(types) - 1 /\ types[(k - 1) + 1] = types[k]
    OBVIOUS
  <2>2. \A n \in 0 .. Len(types) - 1 : types[n + 1] = types[k] => n = k - 1
    BY DEF Enumerates
  <2>3. QED  BY <2>1, <2>2
<1>2. Number(<<k - 1>>) = k - 1
  <2>1. k - 1 \in Nat /\ k - 1 <= 255
    BY DEF Enumerates
  <2>2. QED  BY <2>1, NumberOfByte
<1>3. k - 1 \in 0 .. Len(types) - 1 /\ types[(k - 1) + 1] = types[k]
  OBVIOUS
<1>4. Named(types, <<k - 1>>) = types[k]
  BY <1>2, <1>3 DEF Named
<1>5. k - 1 \in 0 .. 127
  BY DEF Enumerates
<1>6. QED  BY <1>1, <1>4, <1>5 DEF Code

\* The four enumerations that are sent in one byte.
Enums == {MessageTypes, Encryptions, RequestTypes, ResponseTypes}

LEMMA Enumerations ==
    \A types \in Enums : \A t \in ToSet(types) :
        \E n \in 0 .. 127 : Code(types, t) = <<n>> /\ Named(types, <<n>>) = t
<1>1. \A types \in Enums : Enumerates(types) /\ DOMAIN types = 1 .. Len(types)
  <2>1. /\ Len(MessageTypes) = 4 /\ DOMAIN MessageTypes = 1 .. 4
        /\ \A i, j \in 1 .. 4 : MessageTypes[i] = MessageTypes[j] => i = j
    BY DEF MessageTypes
  <2>2. /\ Len(Encryptions) = 3 /\ DOMAIN Encryptions = 1 .. 3
        /\ \A i, j \in 1 .. 3 : Encryptions[i] = Encryptions[j] => i = j
    BY DEF Encryptions
  <2>3. /\ Len(RequestTypes) = 7 /\ DOMAIN RequestTypes = 1 .. 7
        /\ \A i, j \in 1 .. 7 : RequestTypes[i] = RequestTypes[j] => i = j
    BY DEF RequestTypes
  <2>4. /\ Len(ResponseTypes) = 6 /\ DOMAIN ResponseTypes = 1 .. 6
        /\ \A i, j \in 1 .. 6 : ResponseTypes[i] = ResponseTypes[j] => i = j
    BY DEF ResponseTypes
  <2>5. /\ Enumerates(MessageTypes) /\ Enumerates(Encryptions)
        /\ Enumerates(RequestTypes) /\ Enumerates(ResponseTypes)
    BY <2>1, <2>2, <2>3, <2>4 DEF Enumerates
  <2>6. QED  BY <2>1, <2>2, <2>3, <2>4, <2>5 DEF Enums
<1>2. TAKE types \in Enums
<1>3. TAKE t \in ToSet(types)
<1>4. Enumerates(types) /\ DOMAIN types = 1 .. Len(types)
  BY <1>1
<1>5. PICK k \in 1 .. Len(types) : types[k] = t
  BY <1>4 DEF ToSet
<1>6. /\ k - 1 \in 0 .. 127 /\ Code(types, types[k]) = <<k - 1>>
      /\ Named(types, <<k - 1>>) = types[k]
  BY <1>4, NameOfCode
<1>7. QED  BY <1>5, <1>6

\* Their names.
LEMMA Names ==
    /\ {"request", "response", "key_request", "key_response"} \subseteq ToSet(MessageTypes)
    /\ {"symmetric", "asymmetric", "none"} \subseteq ToSet(Encryptions)
<1>1. /\ DOMAIN MessageTypes = 1 .. 4
      /\ MessageTypes[1] = "request" /\ MessageTypes[2] = "response"
      /\ MessageTypes[3] = "key_request" /\ MessageTypes[4] = "key_response"
  BY DEF MessageTypes
<1>2. /\ DOMAIN Encryptions = 1 .. 3
      /\ Encryptions[1] = "symmetric" /\ Encryptions[2] = "asymmetric" /\ Encryptions[3] = "none"
  BY DEF Encryptions
<1>3. QED  BY <1>1, <1>2 DEF ToSet

(***************************************************************************)
(* Messages.                                                               *)
(***************************************************************************)
LEMMA Extended ==
    ASSUME NEW S, NEW s \in Seq(S), NEW x \in S
    PROVE  /\ s \o <<x>> \in Seq(S) /\ Len(s \o <<x>>) = Len(s) + 1
           /\ \A i \in 1 .. Len(s) : (s \o <<x>>)[i] = s[i]
           /\ (s \o <<x>>)[Len(s) + 1] = x
<1>1. <<x>> \in Seq(S) /\ Len(<<x>>) = 1 /\ <<x>>[1] = x
  OBVIOUS
<1>2. QED  BY <1>1

\* f is eight cells, two more, and a content.
LaidOut(f, header, n, m, content) ==
    /\ Len(f) = 10 + Len(content)
    /\ \A i \in 1 .. 8 : f[i] = header[i]
    /\ f[9] = n /\ f[10] = m
    /\ \A i \in 1 .. Len(content) : f[10 + i] = content[i]

LEMMA Layout ==
    ASSUME NEW S, NEW header \in Seq(S), Len(header) = 8, NEW n \in S, NEW m \in S,
           NEW content \in Seq(S)
    PROVE  /\ header \o <<n>> \o <<m>> \o content \in Seq(S)
           /\ LaidOut(header \o <<n>> \o <<m>> \o content, header, n, m, content)
<1>1. /\ header \o <<n>> \in Seq(S) /\ Len(header \o <<n>>) = 9
      /\ \A i \in 1 .. 8 : (header \o <<n>>)[i] = header[i]
      /\ (header \o <<n>>)[9] = n
  <2>1. /\ header \o <<n>> \in Seq(S) /\ Len(header \o <<n>>) = Len(header) + 1
        /\ \A i \in 1 .. Len(header) : (header \o <<n>>)[i] = header[i]
        /\ (header \o <<n>>)[Len(header) + 1] = n
    BY Extended
  <2>2. QED  BY <2>1
<1> DEFINE g == header \o <<n>>
<1> HIDE DEF g
<1>2. /\ g \o <<m>> \in Seq(S) /\ Len(g \o <<m>>) = 10
      /\ \A i \in 1 .. 9 : (g \o <<m>>)[i] = g[i]
      /\ (g \o <<m>>)[10] = m
  BY <1>1 DEF g
<1> DEFINE h == g \o <<m>>
<1> HIDE DEF h
<1>3. /\ h \o content \in Seq(S) /\ Len(h \o content) = 10 + Len(content)
      /\ \A i \in 1 .. 10 : (h \o content)[i] = h[i]
      /\ \A i \in 1 .. Len(content) : (h \o content)[10 + i] = content[i]
  BY <1>2 DEF h
<1>4. h \o content = header \o <<n>> \o <<m>> \o content
  BY DEF g, h
<1>5. /\ \A i \in 1 .. 8 : h[i] = header[i]
      /\ h[9] = n /\ h[10] = m
  BY <1>1, <1>2 DEF g, h
<1>6. /\ \A i \in 1 .. 8 : (h \o content)[i] = header[i]
      /\ (h \o content)[9] = n /\ (h \o content)[10] = m
  BY <1>3, <1>5
<1>7. LaidOut(h \o content, header, n, m, content)
  BY <1>3, <1>6 DEF LaidOut
<1>8. QED  BY <1>3, <1>4, <1>7

\* A message: its size, its type and its encryption, and its content.
IsFramed(f, t, e, content) ==
    /\ Len(f) = HEADER + Len(content)
    /\ Announces(f, Len(f))
    /\ Named(MessageTypes, <<f[SIZE + 1]>>) = t /\ f[SIZE + 1] \in Byte
    /\ Named(Encryptions, <<f[HEADER]>>) = e /\ f[HEADER] \in Byte
    /\ \A i \in 1 .. Len(content) : f[HEADER + i] = content[i]

LEMMA FramedCells ==
    ASSUME NEW content \in Seq(Memory), NEW t \in ToSet(MessageTypes),
           NEW e \in ToSet(Encryptions)
    PROVE  Framed(t, e, content) \in Seq(Memory) /\ IsFramed(Framed(t, e, content), t, e, content)
<1>1. PICK n \in 0 .. 127 : Code(MessageTypes, t) = <<n>> /\ Named(MessageTypes, <<n>>) = t
  BY Enumerations DEF Enums
<1>2. PICK m \in 0 .. 127 : Code(Encryptions, e) = <<m>> /\ Named(Encryptions, <<m>>) = e
  BY Enumerations DEF Enums
<1>3. HEADER = 10 /\ SIZE = 8 /\ HEADER + Len(content) \in Nat
  BY DEF HEADER, SIZE
<1> DEFINE size == HEADER + Len(content)
           f == Word(SIZE, size) \o <<n>> \o <<m>> \o content
<1>4. Word(SIZE, size) \in Seq(Memory) /\ Len(Word(SIZE, size)) = 8
  BY <1>3, SizeWord
<1>5. Framed(t, e, content) = f
  BY <1>1, <1>2, <1>4, SwappedTwice DEF Framed, InMemory, ntoh_generic
<1>6. n \in Memory /\ m \in Memory
  BY DEF Memory
<1>7. /\ f \in Seq(Memory) /\ Len(f) = size
      /\ \A i \in 1 .. 8 : f[i] = Word(SIZE, size)[i]
      /\ f[9] = n /\ f[10] = m
      /\ \A i \in 1 .. Len(content) : f[10 + i] = content[i]
  <2> DEFINE header == Word(SIZE, size)
  <2>1. header \in Seq(Memory) /\ Len(header) = 8
    BY <1>4
  <2> HIDE DEF header
  <2>2. /\ header \o <<n>> \o <<m>> \o content \in Seq(Memory)
        /\ LaidOut(header \o <<n>> \o <<m>> \o content, header, n, m, content)
    BY <1>6, <2>1, Layout
  <2>3. QED  BY <1>3, <2>2 DEF header, LaidOut
<1> HIDE DEF f, size
<1>8. Announces(f, size) /\ size \in Nat /\ size = HEADER + Len(content)
  BY <1>3, <1>7 DEF Announces, size
<1>9. SIZE + 1 = 9
  BY <1>3
<1>10. IsFramed(f, t, e, content)
  <2>1. n \in Byte /\ m \in Byte
    BY DEF Byte
  <2>2. QED  BY <1>1, <1>2, <1>3, <1>7, <1>8, <1>9, <2>1 DEF IsFramed
<1>11. QED  BY <1>5, <1>7, <1>10

(***************************************************************************)
(* Encryption.                                                             *)
(***************************************************************************)
\* There is always room for the last block and its padding.
LEMMA PaddingFits ==
    ASSUME NEW n \in Nat
    PROVE  /\ Padding(n) \in 1 .. 16 /\ n + Padding(n) <= Room(n)
           /\ (n + Padding(n)) % 16 = 0
BY SMT DEF Padding, BLOCK, Room

\* What is encrypted is decrypted: the padding is recognised and dropped.
LEMMA Decrypted ==
    ASSUME NEW s \in Seq(Byte)
    PROVE  /\ Encrypt(s) \in Seq(Memory)
           /\ Len(Encrypt(s)) = Len(s) + Padding(Len(s))
           /\ Decrypt(Encrypt(s)) = s
<1> DEFINE padding == Padding(Len(s))
           n == Len(s) + padding
           e == [i \in 1 .. n |-> CIPHER + (IF i <= Len(s) THEN s[i] ELSE padding)]
<1>1. Len(s) \in Nat
  OBVIOUS
<1>2. padding \in 1 .. 16 /\ n \in Nat /\ n > 0 /\ n - padding = Len(s)
  <2>1. padding \in 1 .. 16
    BY <1>1, PaddingFits
  <2> HIDE DEF padding
  <2>2. QED  BY <1>1, <2>1
<1>3. Encrypt(s) = e
  BY <1>1, PaddingFits DEF Encrypt
<1> HIDE DEF padding, n
<1>4. \A i \in 1 .. n : (IF i <= Len(s) THEN s[i] ELSE padding) \in Nat
  <2>1. TAKE i \in 1 .. n
  <2>2. CASE i <= Len(s)
    <3>1. s[i] \in Byte
      BY <1>1, <1>2, <2>2 DEF n
    <3>2. s[i] \in Nat
      BY <3>1, Bytes DEF Byte
    <3>3. QED  BY <2>2, <3>2
  <2>3. CASE ~(i <= Len(s))
    BY <1>2, <2>3
  <2>4. QED  BY <2>2, <2>3
<1>5. \A i \in 1 .. n : e[i] \in Memory /\ e[i] >= CIPHER
                        /\ e[i] - CIPHER = IF i <= Len(s) THEN s[i] ELSE padding
  <2>1. ASSUME NEW x \in Nat
        PROVE  CIPHER + x \in Memory /\ CIPHER + x >= CIPHER /\ (CIPHER + x) - CIPHER = x
    BY SMT DEF CIPHER, Memory
  <2>2. TAKE i \in 1 .. n
  <2>3. e[i] = CIPHER + (IF i <= Len(s) THEN s[i] ELSE padding)
    OBVIOUS
  <2>4. QED  BY <1>4, <2>1, <2>3
<1>6. e \in [1 .. n -> Memory] /\ Len(e) = n /\ DOMAIN e = 1 .. n
  BY <1>2, <1>5
<1>7. e \in Seq(Memory)
  BY <1>2, <1>6
<1> HIDE DEF e
<1>8. e # <<>> /\ n \in 1 .. n /\ Last(e) = e[n]
  BY <1>2, <1>6 DEF Last
<1>9. Last(e) - CIPHER = padding
  <2>1. ~(n <= Len(s))
    BY <1>1, <1>2
  <2>2. QED  BY <1>5, <1>8, <2>1
<1>10. Decrypt(e) = [i \in 1 .. Len(s) |-> e[i] - CIPHER]
  <2>1. \A i \in DOMAIN e : e[i] >= CIPHER
    BY <1>5, <1>6
  <2>2. Len(e) - (Last(e) - CIPHER) = Len(s)
    BY <1>2, <1>6, <1>9
  <2>3. QED  BY <1>8, <2>1, <2>2 DEF Decrypt
<1>11. \A i \in 1 .. Len(s) : e[i] - CIPHER = s[i]
  <2>1. \A i \in 1 .. Len(s) : i \in 1 .. n /\ i <= Len(s)
    BY <1>1, <1>2
  <2>2. QED  BY <1>5, <2>1
<1>12. Decrypt(e) = s
  <2>1. [i \in 1 .. Len(s) |-> e[i] - CIPHER] = [i \in 1 .. Len(s) |-> s[i]]
    BY <1>11
  <2>2. [i \in 1 .. Len(s) |-> s[i]] = s
    OBVIOUS
  <2>3. QED  BY <1>10, <2>1, <2>2
<1>13. QED  BY <1>3, <1>6, <1>7, <1>12 DEF n, padding

(***************************************************************************)
(* Packed requests.                                                        *)
(***************************************************************************)
\* A unit of UTF-16.
Char == [1 .. WCHAR -> Byte]

LEMMA CharIsWord ==
    ASSUME NEW c \in [1 .. 2 -> Byte]
    PROVE  c \in Seq(Byte)
OBVIOUS

LEMMA WordIsChar ==
    ASSUME NEW c \in Seq(Byte), Len(c) = 2
    PROVE  c \in [1 .. 2 -> Byte]
BY LenProperties

\* What a user can ask: two types take a path, of any characters.
Paths == {"rights", "owner"}
Requests ==
    {r \in [type : ToSet(RequestTypes), arg : Seq(Char)] :
        /\ r.type \in Paths <=> r.arg # <<>>
        /\ 4 * Len(r.arg) + 128 < LIMIT}

\* f is s with t behind it.
IsJoin(f, s, t) ==
    /\ Len(f) = Len(s) + Len(t)
    /\ \A i \in 1 .. Len(s) : f[i] = s[i]
    /\ \A i \in 1 .. Len(t) : f[Len(s) + i] = t[i]

LEMMA Joined ==
    ASSUME NEW S, NEW s \in Seq(S), NEW t \in Seq(S)
    PROVE  s \o t \in Seq(S) /\ IsJoin(s \o t, s, t)
<1>1. /\ s \o t \in Seq(S) /\ Len(s \o t) = Len(s) + Len(t)
      /\ Len(s) \in Nat /\ Len(t) \in Nat
  OBVIOUS
<1>2. \A i \in 1 .. Len(s) : (s \o t)[i] = s[i]
  BY ConcatProperties
<1>3. \A i \in 1 .. Len(t) : (s \o t)[Len(s) + i] = t[i]
  OBVIOUS
<1>4. QED  BY <1>1, <1>2, <1>3 DEF IsJoin

\* A value is pushed as it is: it is swapped by the program and by the machine.
LEMMA Pushed ==
    ASSUME NEW ctx, NEW word \in Seq(Byte)
    PROVE  Push(ctx, word) = ctx \o word
BY SwappedTwice DEF Push, InMemory, hton_generic

\* The elements of an array, byte after byte.
Flat(words) == [i \in 1 .. Len(words) * WCHAR |-> words[1 + ((i - 1) \div WCHAR)][1 + ((i - 1) % WCHAR)]]

LEMMA FlatBytes ==
    ASSUME NEW words \in Seq(Char)
    PROVE  /\ Flat(words) \in Seq(Byte) /\ Len(Flat(words)) = 2 * Len(words)
           /\ \A i \in 1 .. Len(words) : /\ Flat(words)[2 * i - 1] = words[i][1]
                                         /\ Flat(words)[2 * i] = words[i][2]
<1>1. Len(words) \in Nat /\ WCHAR = 2
  BY DEF WCHAR
<1>2. ASSUME NEW n \in Nat, NEW i \in 1 .. n * 2
      PROVE  /\ 1 + ((i - 1) \div 2) \in 1 .. n /\ 1 + ((i - 1) % 2) \in 1 .. 2
  <2>1. i - 1 \in Nat /\ i - 1 < n * 2
    OBVIOUS
  <2>2. ASSUME NEW k \in Nat, k < n * 2
        PROVE  1 + (k \div 2) \in 1 .. n /\ 1 + (k % 2) \in 1 .. 2
    BY <2>2, SMT
  <2>3. QED  BY <2>1, <2>2
<1>3. \A i \in 1 .. Len(words) * 2 : words[1 + ((i - 1) \div 2)][1 + ((i - 1) % 2)] \in Byte
  <2>1. TAKE i \in 1 .. Len(words) * 2
  <2>2. 1 + ((i - 1) \div 2) \in 1 .. Len(words) /\ 1 + ((i - 1) % 2) \in 1 .. 2
    BY <1>1, <1>2
  <2>3. \A k \in 1 .. Len(words) : words[k] \in [1 .. 2 -> Byte]
    BY <1>1 DEF Char
  <2>4. QED  BY <2>2, <2>3
<1>4. Flat(words) = [i \in 1 .. Len(words) * 2 |-> words[1 + ((i - 1) \div 2)][1 + ((i - 1) % 2)]]
  BY <1>1 DEF Flat
<1>5. Flat(words) \in [1 .. Len(words) * 2 -> Byte]
  BY <1>3, <1>4
<1>6. Flat(words) \in Seq(Byte) /\ Len(Flat(words)) = 2 * Len(words)
  BY <1>1, <1>5
<1>7. ASSUME NEW i \in 1 .. Len(words)
      PROVE  Flat(words)[2 * i - 1] = words[i][1] /\ Flat(words)[2 * i] = words[i][2]
  <2>1. ASSUME NEW n \in Nat, NEW k \in 1 .. n
        PROVE  /\ 2 * k - 1 \in 1 .. n * 2 /\ 2 * k \in 1 .. n * 2
               /\ 1 + (((2 * k - 1) - 1) \div 2) = k /\ 1 + (((2 * k - 1) - 1) % 2) = 1
               /\ 1 + ((2 * k - 1) \div 2) = k /\ 1 + ((2 * k - 1) % 2) = 2
    <3>1. k \in Int /\ 1 <= k /\ k <= n
      OBVIOUS
    <3>2. QED  BY <3>1, SMT
  <2>2. QED  BY <1>1, <1>4, <2>1
<1>8. QED  BY <1>6, <1>7

\* A packed request: its size as it is in memory, its type, and its argument with the
\* size in front.
Holds(p, r) ==
    /\ Len(p) \in Nat /\ 2 * Len(p) + 64 < LIMIT
    /\ \A j \in 1 .. SIZE : p[j] = Swapped(Word(SIZE, Len(p)))[j]
    /\ Len(p) >= 9 /\ Named(RequestTypes, <<p[9]>>) = r.type
    /\ r.arg = <<>> => Len(p) = 9
    /\ r.arg # <<>> =>
         /\ Len(p) = 17 + 2 * Len(r.arg)
         /\ \A j \in 1 .. SIZE : p[9 + j] = Word(SIZE, 2 * Len(r.arg))[j]
         /\ \A i \in 1 .. 2 * Len(r.arg) : p[17 + i] = Flat(r.arg)[i]

\* pack puts the size in front.
LEMMA PackCells ==
    ASSUME NEW ctx \in Seq(Byte)
    PROVE  /\ Pack(ctx) \in Seq(Byte) /\ Len(Pack(ctx)) = 8 + Len(ctx)
           /\ \A j \in 1 .. SIZE : Pack(ctx)[j] = Swapped(Word(SIZE, Len(Pack(ctx))))[j]
           /\ \A j \in 1 .. Len(ctx) : Pack(ctx)[8 + j] = ctx[j]
<1> DEFINE word == Swapped(Word(SIZE, SIZE + Len(ctx)))
<1>1. SIZE = 8 /\ Len(ctx) \in Nat /\ SIZE + Len(ctx) \in Nat
  BY DEF SIZE
<1>2. word \in Seq(Byte) /\ Len(word) = SIZE
  BY <1>1, SizeWord, SwappedTwice
<1>3. Pack(ctx) = word \o ctx
  BY DEF Pack, InMemory
<1> HIDE DEF word
<1>4. word \o ctx \in Seq(Byte) /\ IsJoin(word \o ctx, word, ctx)
  BY <1>2, Joined
<1>5. \A j \in 1 .. SIZE : word[j] = Swapped(Word(SIZE, SIZE + Len(ctx)))[j]
  BY DEF word
<1>6. QED  BY <1>1, <1>2, <1>3, <1>4, <1>5 DEF IsJoin

LEMMA PackedRequest ==
    ASSUME NEW r \in Requests
    PROVE  PackRequest(r) \in Seq(Byte) /\ Holds(PackRequest(r), r)
<1>1. /\ r.type \in ToSet(RequestTypes) /\ r.arg \in Seq(Char)
      /\ 4 * Len(r.arg) + 128 < LIMIT /\ Len(r.arg) \in Nat
  BY DEF Requests
<1>2. PICK n \in 0 .. 127 : Code(RequestTypes, r.type) = <<n>> /\ Named(RequestTypes, <<n>>) = r.type
  BY <1>1, Enumerations DEF Enums
<1>3. <<n>> \in Seq(Byte) /\ Len(<<n>>) = 1 /\ <<n>>[1] = n
  BY DEF Byte
<1>4. Push(Empty, Code(RequestTypes, r.type)) = <<n>>
  <2>1. Push(Empty, <<n>>) = <<>> \o <<n>>
    BY <1>3, Pushed DEF Empty
  <2>2. <<>> \o <<n>> = <<n>>
    BY <1>3, ConcatEmptySeq
  <2>3. QED  BY <1>2, <2>1, <2>2
<1>5. CASE r.arg = <<>>
  <2> DEFINE p == Pack(<<n>>)
  <2>1. PackRequest(r) = p
    BY <1>4, <1>5 DEF PackRequest
  <2>2. /\ p \in Seq(Byte) /\ Len(p) = 8 + 1
        /\ \A j \in 1 .. SIZE : p[j] = Swapped(Word(SIZE, Len(p)))[j]
        /\ \A j \in 1 .. 1 : p[8 + j] = <<n>>[j]
    BY <1>3, PackCells
  <2> HIDE DEF p
  <2>3. p[9] = n
    BY <1>3, <2>2
  <2>4. Holds(p, r)
    BY <1>2, <1>5, <2>2, <2>3, SMT DEF Holds, LIMIT
  <2>5. QED  BY <2>1, <2>2, <2>4
<1>6. CASE r.arg # <<>>
  <2> DEFINE size == Word(SIZE, 2 * Len(r.arg))
             flat == Flat(r.arg)
             ctx  == <<n>> \o size \o flat
             p    == Pack(ctx)
  <2>1. size \in Seq(Byte) /\ Len(size) = 8
    BY <1>1, SizeWord DEF SIZE
  <2>2. flat \in Seq(Byte) /\ Len(flat) = 2 * Len(r.arg)
    BY <1>1, FlatBytes
  <2>3. PackRequest(r) = p
    <3>1. PushArray(<<n>>, r.arg, WCHAR) = Push(<<n>>, size) \o flat
      <4>1. Len(r.arg) * WCHAR = 2 * Len(r.arg) /\ WCHAR = 2
        BY <1>1 DEF WCHAR
      <4>2. \A i \in 1 .. Len(r.arg) * WCHAR : 1 + ((i - 1) \div WCHAR) \in 1 .. Len(r.arg)
        <5>1. ASSUME NEW k \in Nat, NEW i \in 1 .. 2 * k
              PROVE  1 + ((i - 1) \div 2) \in 1 .. k
          <6>1. i - 1 \in Nat /\ i - 1 < 2 * k
            OBVIOUS
          <6>2. ASSUME NEW j \in Nat, j < 2 * k
                PROVE  1 + (j \div 2) \in 1 .. k
            BY <6>2, SMT
          <6>3. QED  BY <6>1, <6>2
        <5>2. QED  BY <1>1, <4>1, <5>1
      <4>3. \A k \in 1 .. Len(r.arg) : InMemory(hton_generic(r.arg[k])) = r.arg[k]
        <5>1. \A k \in 1 .. Len(r.arg) : r.arg[k] \in Seq(Byte)
          <6>1. TAKE k \in 1 .. Len(r.arg)
          <6>2. r.arg[k] \in [1 .. 2 -> Byte]
            BY <1>1, <4>1 DEF Char
          <6>3. QED  BY <6>2, CharIsWord
        <5>2. QED  BY <5>1, SwappedTwice DEF InMemory, hton_generic
      <4>4. [i \in 1 .. Len(r.arg) * WCHAR |->
               InMemory(hton_generic(r.arg[1 + ((i - 1) \div WCHAR)]))[1 + ((i - 1) % WCHAR)]] = flat
        BY <4>2, <4>3 DEF Flat
      <4>5. QED  BY <4>1, <4>4 DEF PushArray
    <3>2. Push(<<n>>, size) = <<n>> \o size
      BY <2>1, Pushed
    <3>3. QED  BY <1>4, <1>6, <3>1, <3>2 DEF PackRequest
  <2> HIDE DEF size, flat
  <2>4. /\ <<n>> \o size \in Seq(Byte) /\ Len(<<n>> \o size) = 9
        /\ (<<n>> \o size)[1] = n
        /\ \A j \in 1 .. 8 : (<<n>> \o size)[1 + j] = size[j]
    <3>1. <<n>> \o size \in Seq(Byte) /\ IsJoin(<<n>> \o size, <<n>>, size)
      BY <1>3, <2>1, Joined
    <3>2. QED  BY <1>3, <2>1, <3>1 DEF IsJoin
  <2> DEFINE front == <<n>> \o size
  <2> HIDE DEF front
  <2>5. /\ front \o flat \in Seq(Byte) /\ Len(front \o flat) = 9 + 2 * Len(r.arg)
        /\ \A j \in 1 .. 9 : (front \o flat)[j] = front[j]
        /\ \A i \in 1 .. 2 * Len(r.arg) : (front \o flat)[9 + i] = flat[i]
    <3>1. front \in Seq(Byte) /\ Len(front) = 9
      BY <2>4 DEF front
    <3>2. front \o flat \in Seq(Byte) /\ IsJoin(front \o flat, front, flat)
      BY <2>2, <3>1, Joined
    <3>3. QED  BY <2>2, <3>1, <3>2 DEF IsJoin
  <2>6. ctx = front \o flat
    BY DEF front
  <2> HIDE DEF ctx
  <2>7. /\ ctx \in Seq(Byte) /\ Len(ctx) = 9 + 2 * Len(r.arg)
        /\ ctx[1] = n
        /\ \A j \in 1 .. 8 : ctx[1 + j] = size[j]
        /\ \A i \in 1 .. 2 * Len(r.arg) : ctx[9 + i] = flat[i]
    <3>1. ctx[1] = n
      BY <2>4, <2>5, <2>6 DEF front
    <3>2. \A j \in 1 .. 8 : ctx[1 + j] = size[j]
      BY <2>4, <2>5, <2>6 DEF front
    <3>3. QED  BY <2>5, <2>6, <3>1, <3>2
  <2>8. /\ p \in Seq(Byte) /\ Len(p) = 8 + Len(ctx)
        /\ \A j \in 1 .. SIZE : p[j] = Swapped(Word(SIZE, Len(p)))[j]
        /\ \A j \in 1 .. Len(ctx) : p[8 + j] = ctx[j]
    BY <2>7, PackCells
  <2> HIDE DEF p
  <2>9. /\ Len(p) = 17 + 2 * Len(r.arg) /\ p[9] = n
        /\ \A j \in 1 .. 8 : p[9 + j] = size[j]
        /\ \A i \in 1 .. 2 * Len(r.arg) : p[17 + i] = flat[i]
    <3>1. Len(p) = 17 + 2 * Len(r.arg)
      BY <1>1, <2>7, <2>8
    <3>2. p[9] = n
      <4>1. 1 \in 1 .. Len(ctx) /\ 8 + 1 = 9
        BY <1>1, <2>7
      <4>2. QED  BY <2>7, <2>8, <4>1
    <3>3. ASSUME NEW j \in 1 .. 8  PROVE p[9 + j] = size[j]
      <4>1. 1 + j \in 1 .. Len(ctx) /\ 8 + (1 + j) = 9 + j
        BY <1>1, <2>7, SMTT(30)
      <4>2. p[8 + (1 + j)] = ctx[1 + j]
        BY <2>8, <4>1
      <4>3. QED  BY <2>7, <4>1, <4>2
    <3>4. ASSUME NEW i \in 1 .. 2 * Len(r.arg)  PROVE p[17 + i] = flat[i]
      <4>1. 9 + i \in 1 .. Len(ctx) /\ 8 + (9 + i) = 17 + i
        BY <1>1, <2>7
      <4>2. p[8 + (9 + i)] = ctx[9 + i]
        BY <2>8, <4>1
      <4>3. QED  BY <2>7, <4>1, <4>2
    <3>5. QED  BY <3>1, <3>2, <3>3, <3>4
  <2>10. Len(p) \in Nat /\ Len(p) >= 9 /\ 2 * Len(p) + 64 < LIMIT
    <3>1. ASSUME NEW k \in Nat, 4 * k + 128 < LIMIT
          PROVE  17 + 2 * k \in Nat /\ 17 + 2 * k >= 9 /\ 2 * (17 + 2 * k) + 64 < LIMIT
      BY <3>1, SMT DEF LIMIT
    <3>2. QED  BY <1>1, <2>9, <3>1
  <2>11. Holds(p, r)
    BY <1>2, <1>6, <2>8, <2>9, <2>10 DEF Holds, SIZE, size, flat
  <2>12. QED  BY <2>3, <2>8, <2>11
<1>7. QED  BY <1>5, <1>6

\* What is popped where memory is allocated: the cells that are there.
LEMMA PoppedCells ==
    ASSUME NEW S, NEW buf \in Seq(S), NEW i \in Nat \ {0}, NEW n \in Nat, i + n - 1 <= Len(buf)
    PROVE  /\ Popped(buf, i, n) \in Seq(S) /\ Len(Popped(buf, i, n)) = n
           /\ \A j \in 1 .. n : Popped(buf, i, n)[j] = buf[i + j - 1]
<1> DEFINE cells == Cells(buf, i, n)
<1>1. /\ cells \in Seq(S) /\ Len(cells) = n
      /\ \A j \in 1 .. n : cells[j] = buf[i + j - 1]
  BY CellsWithin
<1> HIDE DEF cells
<1>2. Swapped(Swapped(cells)) = cells
  BY <1>1, SwappedTwice
<1>3. Popped(buf, i, n) = cells
  BY <1>2 DEF Popped, ntoh_generic, FromMemory, cells
<1>4. QED  BY <1>1, <1>3

\* PackCtx(buf) finds what was packed, whatever is behind it.
LEMMA OpenedPacked ==
    ASSUME NEW p \in Seq(Byte), NEW buf \in Seq(Memory), Len(p) >= 8, Len(p) < LIMIT,
           \A j \in 1 .. SIZE : p[j] = Swapped(Word(SIZE, Len(p)))[j],
           Len(p) <= Len(buf), \A i \in 1 .. Len(p) : buf[i] = p[i]
    PROVE  Opened(buf) = p
<1> DEFINE word == Word(SIZE, Len(p))
           first == Cells(buf, 1, SIZE)
<1>1. SIZE = 8 /\ SIZE \in Nat /\ Len(p) \in Nat /\ Len(buf) \in Nat
  BY DEF SIZE
<1>2. word \in Seq(Memory) /\ Len(word) = SIZE
  BY <1>1, SizeWord
<1>3. Swapped(word) \in Seq(Memory) /\ Len(Swapped(word)) = SIZE /\ Swapped(Swapped(word)) = word
  BY <1>2, SwappedTwice
<1>4. first \in Seq(Memory) /\ Len(first) = SIZE /\ \A j \in 1 .. SIZE : first[j] = Swapped(word)[j]
  <2>1. first \in Seq(Memory) /\ Len(first) = SIZE /\ SameCells(first, buf, SIZE)
    <3>1. SIZE <= Len(buf)
      BY <1>1
    <3>2. QED  BY <1>1, <3>1, FirstCells
  <2> HIDE DEF first, word
  <2>2. \A j \in 1 .. SIZE : j \in 1 .. Len(p)
    BY <1>1
  <2>3. \A j \in 1 .. SIZE : first[j] = p[j]
    BY <2>1, <2>2 DEF SameCells
  <2>4. QED  BY <2>1, <2>3 DEF word
<1> HIDE DEF word, first
<1>5. first = Swapped(word)
  BY <1>1, <1>3, <1>4, SeqEqual
<1>6. Number(FromMemory(first)) = Len(p)
  <2>1. FromMemory(first) = word
    BY <1>3, <1>5 DEF FromMemory
  <2>2. Number(word) = Len(p)
    BY <1>1, NumberOfWord DEF word
  <2>3. QED  BY <2>1, <2>2
<1>7. Opened(buf) = Cells(buf, 1, Len(p))
  BY <1>6 DEF Opened, first
<1> DEFINE all == Cells(buf, 1, Len(p))
<1>8. all \in Seq(Memory) /\ Len(all) = Len(p) /\ \A j \in 1 .. Len(p) : all[j] = p[j]
  <2>1. all \in Seq(Memory) /\ Len(all) = Len(p) /\ SameCells(all, buf, Len(p))
    BY <1>1, FirstCells
  <2> HIDE DEF all
  <2>2. QED  BY <2>1 DEF SameCells
<1> HIDE DEF all
<1>9. p \in Seq(Memory)
  <2>1. Byte \subseteq Memory
    BY DEF Byte, Memory
  <2>2. QED  BY <2>1, SeqMonotonic
<1>10. all = p
  BY <1>8, <1>9, SeqEqual
<1>11. QED  BY <1>7, <1>10 DEF all

\* A request is parsed as it was packed.
LEMMA ParsedRequest ==
    ASSUME NEW r \in Requests, NEW p \in Seq(Byte), Holds(p, r),
           NEW buf \in Seq(Memory), Len(p) <= Len(buf), \A i \in 1 .. Len(p) : buf[i] = p[i]
    PROVE  ParseRequest(buf) = r
<1>1. /\ r = [type |-> r.type, arg |-> r.arg] /\ r.arg \in Seq(Char) /\ Len(r.arg) \in Nat
      /\ r.type \in Paths <=> r.arg # <<>>
      /\ 4 * Len(r.arg) + 128 < LIMIT
  BY DEF Requests
<1>2. /\ Len(p) \in Nat /\ Len(p) >= 9 /\ Len(p) < LIMIT /\ SIZE = 8 /\ WCHAR = 2
  BY DEF Holds, SIZE, WCHAR, LIMIT
<1>3. Opened(buf) = p
  <2>1. Len(p) >= 8
    BY <1>2
  <2>2. QED  BY <1>2, <2>1, OpenedPacked DEF Holds
<1>4. Named(RequestTypes, Popped(p, SIZE + 1, 1)) = r.type
  <2> DEFINE t == Popped(p, 9, 1)
  <2>1. /\ t \in Seq(Byte) /\ Len(t) = 1
        /\ \A j \in 1 .. 1 : t[j] = p[9 + j - 1]
    <3>1. 9 \in Nat \ {0} /\ 1 \in Nat /\ 9 + 1 - 1 <= Len(p)
      BY <1>2
    <3>2. QED  BY <3>1, PoppedCells, ZenonT(40)
  <2> HIDE DEF t
  <2>2. t = <<p[9]>>
    <3>1. t[1] = p[9]
      BY <2>1
    <3>2. QED  BY <2>1, <3>1
  <2>3. SIZE + 1 = 9
    BY <1>2
  <2>4. QED  BY <2>2, <2>3 DEF t, Holds
<1>5. CASE r.arg = <<>>
  <2>1. r.type \notin {"rights", "owner"}
    BY <1>1, <1>5 DEF Paths
  <2>2. QED  BY <1>1, <1>3, <1>4, <1>5, <2>1 DEF ParseRequest
<1>6. CASE r.arg # <<>>
  <2> DEFINE L == Len(r.arg)
             size == Popped(p, 10, 8)
             units == PoppedArray(p, 10, WCHAR)
  <2>1. /\ L \in Nat /\ Len(p) = 17 + 2 * L /\ 2 * L < LIMIT /\ 2 * L \in Nat
        /\ \A j \in 1 .. SIZE : p[9 + j] = Word(SIZE, 2 * L)[j]
        /\ \A i \in 1 .. 2 * L : p[17 + i] = Flat(r.arg)[i]
    BY <1>1, <1>6 DEF Holds, LIMIT
  <2> HIDE DEF L
  <2>2. size = Word(SIZE, 2 * L)
    <3>1. 10 \in Nat \ {0} /\ 8 \in Nat /\ 10 + 8 - 1 <= Len(p)
      BY <2>1
    <3>2. /\ size \in Seq(Byte) /\ Len(size) = 8
          /\ \A j \in 1 .. 8 : size[j] = p[10 + j - 1]
      BY <3>1, PoppedCells
    <3> HIDE DEF size
    <3>3. \A j \in 1 .. 8 : size[j] = Word(SIZE, 2 * L)[j]
      <4>1. \A j \in 1 .. 8 : 10 + j - 1 = 9 + j
        OBVIOUS
      <4>2. QED  BY <1>2, <2>1, <3>2, <4>1
    <3>4. Word(SIZE, 2 * L) \in Seq(Byte) /\ Len(Word(SIZE, 2 * L)) = 8
      BY <1>2, <2>1, SizeWord
    <3>5. QED  BY <3>2, <3>3, <3>4, SeqEqual
  <2>3. ArraySize(p, 10) = 2 * L
    <3>1. Number(size) = 2 * L
      BY <2>1, <2>2, NumberOfWord
    <3>2. QED  BY <1>2, <3>1 DEF ArraySize
  <2>4. units = [i \in 1 .. 2 * L |-> Popped(p, 18 + (i - 1) * 2, 2)]
    BY <1>2, <2>3 DEF PoppedArray
  <2> HIDE DEF size, units
  <2>5. ASSUME NEW i \in 1 .. L
        PROVE  units[i] = r.arg[i]
    <3>1. /\ i \in 1 .. 2 * L /\ 18 + (i - 1) * 2 = 16 + 2 * i /\ 16 + 2 * i \in Nat \ {0}
          /\ (16 + 2 * i) + 2 - 1 <= Len(p) /\ 2 \in Nat
          /\ (16 + 2 * i) + 1 - 1 = 17 + (2 * i - 1) /\ (16 + 2 * i) + 2 - 1 = 17 + 2 * i
          /\ 2 * i - 1 \in 1 .. 2 * L /\ 2 * i \in 1 .. 2 * L
      BY <2>1, SMTT(30)
    <3> DEFINE u == Popped(p, 16 + 2 * i, 2)
    <3>2. units[i] = u
      BY <2>4, <3>1
    <3>3. /\ u \in Seq(Byte) /\ Len(u) = 2
          /\ \A j \in 1 .. 2 : u[j] = p[(16 + 2 * i) + j - 1]
      BY <3>1, PoppedCells, ZenonT(40)
    <3> HIDE DEF u
    <3>4. u[1] = Flat(r.arg)[2 * i - 1] /\ u[2] = Flat(r.arg)[2 * i]
      <4>1. u[1] = p[17 + (2 * i - 1)] /\ u[2] = p[17 + 2 * i]
        BY <3>1, <3>3
      <4>2. QED  BY <2>1, <3>1, <4>1
    <3>5. Flat(r.arg)[2 * i - 1] = r.arg[i][1] /\ Flat(r.arg)[2 * i] = r.arg[i][2]
      BY <1>1, FlatBytes DEF L
    <3>6. r.arg[i] \in [1 .. 2 -> Byte]
      BY <1>1, <1>2 DEF Char, L
    <3>7. u = r.arg[i]
      <4>1. u \in [1 .. 2 -> Byte]
        BY <3>3, WordIsChar
      <4>2. \A j \in 1 .. 2 : u[j] = r.arg[i][j]
        BY <3>4, <3>5
      <4>3. QED  BY <3>6, <4>1, <4>2
    <3>8. QED  BY <3>2, <3>7
  <2> DEFINE arg == SubSeq(units, 1, L)
  <2>6. /\ arg \in Seq(Char) /\ Len(arg) = L
        /\ \A i \in 1 .. L : arg[i] = r.arg[i]
    <3>1. \A i \in 1 .. L : units[i] \in Char
      BY <1>1, <2>5 DEF L
    <3>2. /\ arg \in Seq(Char) /\ Len(arg) = IF 1 <= L THEN L - 1 + 1 ELSE 0
          /\ \A i \in 1 .. L - 1 + 1 : arg[i] = units[1 + i - 1]
      BY <2>1, <3>1, SubSeqProperties
    <3> HIDE DEF arg
    <3>3. Len(arg) = L /\ L - 1 + 1 = L /\ \A i \in 1 .. L : 1 + i - 1 = i
      BY <2>1, <3>2
    <3>4. QED  BY <2>5, <3>2, <3>3
  <2>7. arg = r.arg
    <3> HIDE DEF arg
    <3>1. QED  BY <1>1, <2>6, SeqEqual DEF L
  <2>8. r.type \in {"rights", "owner"} /\ SIZE + 2 = 10 /\ (2 * L) \div WCHAR = L
    <3>1. ASSUME NEW k \in Nat PROVE (2 * k) \div 2 = k
      BY SMT
    <3>2. QED  BY <1>1, <1>2, <1>6, <2>1, <3>1 DEF Paths
  <2>9. ParseRequest(buf) = [type |-> r.type, arg |-> arg]
    BY <1>3, <1>4, <2>3, <2>8 DEF ParseRequest, units
  <2>10. QED  BY <1>1, <2>7, <2>9
<1>7. QED  BY <1>5, <1>6

\* Cells of which some were not allocated: those that were come first.
LEMMA CellsBeyond ==
    ASSUME NEW buf \in Seq(Memory), NEW n \in Nat, Len(buf) <= n
    PROVE  /\ Cells(buf, 1, n) \in Seq(Memory) /\ Len(Cells(buf, 1, n)) = n
           /\ SameCells(Cells(buf, 1, n), buf, Len(buf))
<1> DEFINE rest == [j \in 1 .. n - Len(buf) |-> UNDEF]
<1>1. Len(buf) \in Nat /\ n - Len(buf) \in Nat
  OBVIOUS
<1>2. Cells(buf, 1, n) = buf \o rest
  <2>1. (IF 1 + n - 1 <= Len(buf) THEN 1 + n - 1 ELSE Len(buf)) = Len(buf)
    BY <1>1
  <2>2. SubSeq(buf, 1, Len(buf)) = buf
    BY SubSeqFull
  <2>3. QED  BY <2>1, <2>2 DEF Cells
<1>3. rest \in Seq(Memory) /\ Len(rest) = n - Len(buf)
  <2>1. UNDEF \in Memory
    BY DEF UNDEF, Memory
  <2>2. ASSUME NEW k \in Nat
        PROVE  [j \in 1 .. k |-> UNDEF] \in Seq(Memory) /\ Len([j \in 1 .. k |-> UNDEF]) = k
    BY <2>1
  <2>3. QED  BY <1>1, <2>2
<1> HIDE DEF rest
<1>4. buf \o rest \in Seq(Memory) /\ IsJoin(buf \o rest, buf, rest)
  BY <1>3, Joined
<1>5. Len(buf) + Len(rest) = n
  BY <1>1, <1>3
<1>6. QED  BY <1>2, <1>4, <1>5 DEF IsJoin, SameCells

(***************************************************************************)
(* Messages that a client sends.                                           *)
(***************************************************************************)
\* A message whose size is not taken for one of its first bytes.
IsMessage(m) ==
    /\ m \in Seq(Memory) /\ Len(m) \in Nat /\ Len(m) >= HEADER /\ Len(m) < LIMIT
    /\ Announces(m, Len(m))
    /\ m[SIZE] \notin 1 .. 7

\* The last byte of the size is that of the size.
LEMMA LastByte ==
    ASSUME NEW m, NEW n \in Nat, Announces(m, n)
    PROVE  m[SIZE] = n % 256
<1>1. SIZE = 8 /\ SIZE \in 1 .. SIZE
  BY DEF SIZE
<1>2. m[SIZE] = Word(SIZE, n)[SIZE]
  BY <1>1 DEF Announces
<1>3. Word(SIZE, n)[SIZE] = n % 256
  BY SMT DEF Word, LowBytes, SIZE
<1>4. QED  BY <1>2, <1>3

\* What is received of a message: its type, and its content with something behind it.
Carries(buf, t, p) ==
    /\ Received(buf).type = t /\ Received(buf).buf \in Seq(Memory)
    /\ Len(p) <= Len(Received(buf).buf) /\ SameCells(Received(buf).buf, p, Len(p))

LEMMA EncryptedMessage ==
    ASSUME NEW t \in ToSet(MessageTypes), NEW p \in Seq(Byte), 2 * Len(p) + 64 < LIMIT
    PROVE  LET m == Message(t, p) IN
           /\ IsMessage(m) /\ Len(m) = 10 + (Len(p) + Padding(Len(p)))
           /\ \A buf \in Seq(Memory) :
                Len(m) <= Len(buf) /\ SameCells(buf, m, Len(m)) => Carries(buf, t, p)
<1> DEFINE c == Encrypt(p)
           m == Message(t, p)
<1>1. Len(p) \in Nat
  OBVIOUS
<1>2. /\ c \in Seq(Memory) /\ Len(c) = Len(p) + Padding(Len(p)) /\ Decrypt(c) = p
  BY <1>1, Decrypted
<1>3. /\ Padding(Len(p)) \in 1 .. 16 /\ (Len(p) + Padding(Len(p))) % 16 = 0
  BY <1>1, PaddingFits
<1> HIDE DEF c
<1>4. m \in Seq(Memory) /\ IsFramed(m, t, "symmetric", c)
  <2>1. m = Framed(t, "symmetric", c)
    BY DEF Message, c
  <2> HIDE DEF m
  <2>2. QED  BY <1>2, <2>1, FramedCells, Names
<1> HIDE DEF m
<1>5. HEADER = 10 /\ SIZE = 8 /\ Len(m) \in Nat
  BY <1>4 DEF HEADER, SIZE
<1>6. /\ Len(c) \in Nat /\ Len(c) % 16 = 0 /\ Len(m) = 10 + Len(c)
      /\ Len(p) <= Len(m) /\ Len(m) >= HEADER /\ Len(m) < LIMIT
  <2>1. Len(c) \in Nat /\ Len(c) = Len(p) + Padding(Len(p))
    BY <1>2
  <2>2. Len(m) = 10 + Len(c)
    BY <1>4, <1>5 DEF IsFramed
  <2>3. ASSUME NEW a \in Nat, NEW b \in 1 .. 16, NEW d \in Nat, d = 10 + (a + b), 2 * a + 64 < LIMIT
        PROVE  a <= d /\ d >= 10 /\ d < LIMIT
    BY <2>3, SMT DEF LIMIT
  <2>4. QED  BY <1>1, <1>3, <1>5, <2>1, <2>2, <2>3
<1>7. m[SIZE] \notin 1 .. 7
  <2>1. ASSUME NEW k \in Nat, k % 16 = 0
        PROVE  (10 + k) % 256 \notin 1 .. 7
    BY <2>1, SMT
  <2>2. m[SIZE] = Len(m) % 256
    BY <1>4, <1>5, LastByte DEF IsFramed
  <2>3. QED  BY <1>6, <2>1, <2>2
<1>8. IsMessage(m)
  BY <1>4, <1>5, <1>6, <1>7 DEF IsMessage, IsFramed
<1>9. ASSUME NEW buf \in Seq(Memory), Len(m) <= Len(buf), SameCells(buf, m, Len(m))
      PROVE  Carries(buf, t, p)
  <2>1. MessageSize(buf) = Len(m)
    <3>1. \A j \in 1 .. SIZE : j \in 1 .. Len(m)
      BY <1>5, <1>6
    <3>2. Announces(buf, Len(m))
      BY <1>4, <1>9, <3>1 DEF Announces, SameCells, IsFramed
    <3>3. SIZE <= Len(buf)
      BY <1>5, <1>6, <1>9
    <3>4. QED  BY <1>5, <1>6, <3>2, <3>3, SizeAnnounced
  <2>2. buf[SIZE + 1] = m[SIZE + 1] /\ buf[HEADER] = m[HEADER]
    <3>1. SIZE + 1 \in 1 .. Len(m) /\ HEADER \in 1 .. Len(m)
      BY <1>5, <1>6
    <3>2. QED  BY <1>9, <3>1 DEF SameCells
  <2> DEFINE content == SubSeq(buf, HEADER + 1, Len(m))
  <2>3. content = c
    <3>1. \A i \in HEADER + 1 .. Len(m) : buf[i] \in Memory
      <4>1. \A i \in HEADER + 1 .. Len(m) : i \in 1 .. Len(buf)
        BY <1>5, <1>9
      <4>2. QED  BY <4>1
    <3>2. HEADER + 1 \in Int /\ Len(m) \in Int
      BY <1>5
    <3>3. /\ content \in Seq(Memory)
          /\ Len(content) = IF HEADER + 1 <= Len(m) THEN Len(m) - (HEADER + 1) + 1 ELSE 0
          /\ \A i \in 1 .. Len(m) - (HEADER + 1) + 1 : content[i] = buf[(HEADER + 1) + i - 1]
      BY <3>1, <3>2, SubSeqProperties
    <3> HIDE DEF content
    <3>4. Len(content) = Len(c) /\ Len(m) - (HEADER + 1) + 1 = Len(c)
      BY <1>5, <1>6, <3>3
    <3>5. \A i \in 1 .. Len(c) : content[i] = c[i]
      <4>1. TAKE i \in 1 .. Len(c)
      <4>2. (HEADER + 1) + i - 1 = HEADER + i /\ HEADER + i \in 1 .. Len(m)
        <5>1. i \in Int /\ i >= 1 /\ i <= Len(c)
          BY <1>6
        <5>2. QED  BY <1>5, <1>6, <5>1
      <4>3. content[i] = buf[HEADER + i]
        BY <3>3, <3>4, <4>2
      <4>4. QED  BY <1>4, <1>9, <4>2, <4>3 DEF SameCells, IsFramed
    <3>6. QED  BY <1>2, <3>3, <3>4, <3>5, SeqEqual
  <2>4. /\ Received(buf).type = t
        /\ Received(buf).buf = Cells(p, 1, Len(m))
    BY <1>2, <1>4, <2>1, <2>2, <2>3 DEF Received, IsFramed
  <2>5. p \in Seq(Memory)
    <3>1. Byte \subseteq Memory
      BY DEF Byte, Memory
    <3>2. QED  BY <1>1, <3>1, SeqMonotonic
  <2> DEFINE plain == Cells(p, 1, Len(m))
  <2>6. plain \in Seq(Memory) /\ Len(plain) = Len(m) /\ SameCells(plain, p, Len(p)) /\ Len(p) <= Len(m)
    <3>1. QED  BY <1>5, <1>6, <2>5, CellsBeyond
  <2> HIDE DEF plain
  <2>7. QED  BY <2>4, <2>6 DEF plain, Carries
<1>10. Len(m) = 10 + (Len(p) + Padding(Len(p)))
  BY <1>2, <1>6
<1>11. QED  BY <1>8, <1>9, <1>10 DEF m

\* The message of a request: what is received of it is the request.
LEMMA RequestMessage ==
    ASSUME NEW r \in Requests
    PROVE  LET m == Message("request", PackRequest(r)) IN
           /\ IsMessage(m)
           /\ \A buf \in Seq(Memory) :
                Len(m) <= Len(buf) /\ SameCells(buf, m, Len(m)) =>
                  /\ Received(buf).type = "request"
                  /\ ParseRequest(Received(buf).buf) = r
<1> DEFINE p == PackRequest(r)
           m == Message("request", p)
<1>1. /\ p \in Seq(Byte) /\ Holds(p, r) /\ Len(p) \in Nat /\ 2 * Len(p) + 64 < LIMIT
  BY PackedRequest DEF Holds
<1> HIDE DEF p
<1>2. /\ IsMessage(m)
      /\ \A buf \in Seq(Memory) :
           Len(m) <= Len(buf) /\ SameCells(buf, m, Len(m)) => Carries(buf, "request", p)
  BY <1>1, EncryptedMessage, Names
<1> HIDE DEF m
<1>3. ASSUME NEW buf \in Seq(Memory), Carries(buf, "request", p)
      PROVE  Received(buf).type = "request" /\ ParseRequest(Received(buf).buf) = r
  <2> DEFINE plain == Received(buf).buf
  <2>1. plain \in Seq(Memory) /\ Len(p) <= Len(plain) /\ SameCells(plain, p, Len(p))
    BY <1>3 DEF Carries
  <2> HIDE DEF plain
  <2>2. ParseRequest(plain) = r
    BY <1>1, <2>1, ParsedRequest DEF SameCells
  <2>3. QED  BY <1>3, <2>2 DEF Carries, plain
<1>4. QED  BY <1>2, <1>3 DEF m, p

\* The blob of a key is one of a size that is not mistaken for one of its first bytes;
\* that of an RSA key of 2048 bits has 276 bytes.
KeyFits == HEADER + Len(PublicKey) < LIMIT /\ (HEADER + Len(PublicKey)) % 256 \notin 1 .. 7

LEMMA KeyMessage ==
    ASSUME KeyFits
    PROVE  /\ IsMessage(KeyRequest)
           /\ \A buf \in Seq(Memory) :
                Len(KeyRequest) <= Len(buf) /\ SameCells(buf, KeyRequest, Len(KeyRequest)) =>
                  Received(buf).type = "key_request"
<1>1. PublicKey \in Seq(Memory)
  <2>1. 0 .. 255 \subseteq Memory
    BY DEF Memory
  <2>2. QED  BY <2>1, ExchangeAssumption, SeqMonotonic
<1> DEFINE m == KeyRequest
<1>2. m \in Seq(Memory) /\ IsFramed(m, "key_request", "none", PublicKey)
  BY <1>1, FramedCells, Names DEF KeyRequest
<1> HIDE DEF m
<1>3. HEADER = 10 /\ SIZE = 8 /\ Len(PublicKey) \in Nat /\ Len(m) \in Nat
  BY <1>1, <1>2 DEF HEADER, SIZE
<1>4. Len(m) >= HEADER /\ Len(m) < LIMIT /\ Len(m) % 256 \notin 1 .. 7
  BY <1>2, <1>3 DEF KeyFits, IsFramed
<1>5. m[SIZE] \notin 1 .. 7
  <2>1. m[SIZE] = Len(m) % 256
    BY <1>2, <1>3, LastByte DEF IsFramed
  <2>2. QED  BY <1>4, <2>1
<1>6. IsMessage(m)
  BY <1>2, <1>3, <1>4, <1>5 DEF IsMessage, IsFramed
<1>7. ASSUME NEW buf \in Seq(Memory), Len(m) <= Len(buf), SameCells(buf, m, Len(m))
      PROVE  Received(buf).type = "key_request"
  <2>1. buf[SIZE + 1] = m[SIZE + 1]
    <3>1. SIZE + 1 \in 1 .. Len(m)
      BY <1>3, <1>4
    <3>2. QED  BY <1>7, <3>1 DEF SameCells
  <2>2. QED  BY <1>2, <2>1 DEF Received, IsFramed
<1>8. QED  BY <1>6, <1>7 DEF m

(***************************************************************************)
(* The exchange.                                                           *)
(***************************************************************************)
\* A path has characters, and not too many.
PathsFit ==
    \A l \in Lines : LET r == parse_command(l.keys) IN
        r.type \in Paths => /\ r.arg \in Seq(Char) /\ r.arg # <<>>
                            /\ 4 * Len(r.arg) + 128 < LIMIT

\* No two commands have one name: what a line asks is a type the server knows, and it
\* has an argument if and only if that type takes a path.
LEMMA Commands ==
    ASSUME NEW keys, LET r == parse_command(keys) IN
           r.type \in Paths => r.arg \in Seq(Char) /\ r.arg # <<>> /\ 4 * Len(r.arg) + 128 < LIMIT
    PROVE  parse_command(keys).type # "none" => parse_command(keys) \in Requests
<1> DEFINE args  == split(keys)
           named == {t \in ToSet(RequestTypes) : args # <<>> /\ args[1] = <<NameOf(t)>>}
           paths == named \cap {"rights", "owner"}
           type  == CHOOSE t \in named : TRUE
           arg   == IF paths = {} THEN <<>> ELSE args[2]
           r     == parse_command(keys)
<1>1. r = IF named = {} \/ (paths # {} /\ Len(args) < 2) THEN NoRequest ELSE [type |-> type, arg |-> arg]
  BY DEF parse_command
<1>2. \A t, u \in ToSet(RequestTypes) : NameOf(t) = NameOf(u) => t = u
  <2>1. TAKE t, u \in ToSet(RequestTypes)
  <2>2. HAVE NameOf(t) = NameOf(u)
  <2>3. PICK n \in 0 .. 127 : Code(RequestTypes, t) = <<n>> /\ Named(RequestTypes, <<n>>) = t
    BY Enumerations DEF Enums
  <2>4. PICK k \in 0 .. 127 : Code(RequestTypes, u) = <<k>> /\ Named(RequestTypes, <<k>>) = u
    BY Enumerations DEF Enums
  <2>5. n = k
    BY <2>2, <2>3, <2>4 DEF NameOf
  <2>6. QED  BY <2>3, <2>4, <2>5
<1>3. \A t, u \in named : t = u
  <2>1. TAKE t, u \in named
  <2>2. <<NameOf(t)>> = <<NameOf(u)>>
    OBVIOUS
  <2>3. QED  BY <1>2, <2>2
<1>4. named # {} => type \in named
  OBVIOUS
<1>5. \A t \in named : t \in ToSet(RequestTypes)
  OBVIOUS
<1>6. paths = named \cap Paths
  BY DEF Paths
<1> HIDE DEF named, paths, type, r, args
<1>7. SUFFICES ASSUME r.type # "none" PROVE r \in Requests
  BY DEF r
<1>8. r = [type |-> type, arg |-> arg] /\ named # {}
  BY <1>1, <1>7 DEF NoRequest
<1>9. r.type = type /\ r.arg = arg /\ type \in ToSet(RequestTypes)
  BY <1>4, <1>5, <1>8
<1>10. CASE type \in Paths
  <2>1. r.arg \in Seq(Char) /\ r.arg # <<>> /\ 4 * Len(r.arg) + 128 < LIMIT
    BY <1>9, <1>10 DEF r
  <2>2. QED  BY <1>8, <1>9, <1>10, <2>1 DEF Requests
<1>11. CASE type \notin Paths
  <2>1. paths = {}
    BY <1>3, <1>4, <1>6, <1>8, <1>11
  <2>2. arg = <<>> /\ Len(<<>>) = 0 /\ <<>> \in Seq(Char)
    BY <2>1
  <2>3. 4 * 0 + 128 < LIMIT
    BY SMT DEF LIMIT
  <2>4. QED  BY <1>8, <1>9, <1>11, <2>2, <2>3 DEF Requests
<1>12. QED  BY <1>10, <1>11

\* What may be on its way: the key request, or that of the line typed last.
Sendable(m) ==
    \/ line = NoLine /\ m = KeyRequest
    \/ LET r == parse_command(line.keys) IN
       line \in Lines /\ r \in Requests /\ m = Message("request", PackRequest(r))

\* A part of m is in the buffer, over what was there, and the rest on its way.
Underway(m) ==
    /\ recvBufSize < Len(m)
    /\ wire = SubSeq(m, recvBufSize + 1, Len(m))
    /\ SameCells(recvBuf, m, recvBufSize)

\* The eighth byte of the buffer is never mistaken for a size of less than eight.
Buffer(b) == b \in Seq(Memory) /\ Len(b) = MAX_BUF_SIZE /\ b[SIZE] \notin 1 .. 7

\* The inductive invariant.
Receiving ==
    /\ line \in Lines \cup {NoLine}
    /\ Buffer(recvBuf)
    /\ recvBufSize \in 0 .. MAX_BUF_SIZE
    /\ stage \in {"prompt", "sending", "answered", "refused", "undefined"}
    /\ stage = "sending" => \E m : IsMessage(m) /\ Sendable(m) /\ Underway(m)
    /\ stage \in {"prompt", "answered", "undefined"} => wire = <<>> /\ recvBufSize = 0
    /\ stage \in {"answered", "undefined"} /\ line # NoLine => asked = parse_command(line.keys)
    /\ stage = "refused" => \E m : Sendable(m) /\ Len(m) \in Nat /\ Len(m) > MAX_BUF_SIZE

\* A message that may be sent is one, and is received as what it was.
LEMMA SendableMessage ==
    ASSUME KeyFits, NEW m, Sendable(m)
    PROVE  /\ IsMessage(m)
           /\ \A buf \in Seq(Memory) :
                Len(m) <= Len(buf) /\ SameCells(buf, m, Len(m)) =>
                  \/ line = NoLine /\ Received(buf).type = "key_request"
                  \/ /\ Received(buf).type = "request"
                     /\ ParseRequest(Received(buf).buf) = parse_command(line.keys)
                     /\ parse_command(line.keys) \in Requests
<1>1. CASE line = NoLine /\ m = KeyRequest
  BY <1>1, KeyMessage
<1> DEFINE r == parse_command(line.keys)
<1>2. CASE line \in Lines /\ r \in Requests /\ m = Message("request", PackRequest(r))
  <2> HIDE DEF r
  <2>1. QED  BY <1>2, RequestMessage DEF r
<1>3. QED  BY <1>1, <1>2 DEF Sendable

\* What is left of m behind its first a cells.
IsRest(w, m, a) == Len(w) = Len(m) - a /\ \A i \in 1 .. Len(w) : w[i] = m[a + i]

LEMMA Rest ==
    ASSUME NEW S, NEW m \in Seq(S), NEW a \in Nat, a <= Len(m)
    PROVE  SubSeq(m, a + 1, Len(m)) \in Seq(S) /\ IsRest(SubSeq(m, a + 1, Len(m)), m, a)
<1> DEFINE w == SubSeq(m, a + 1, Len(m))
<1>1. Len(m) \in Nat /\ \A i \in a + 1 .. Len(m) : m[i] \in S
  OBVIOUS
<1>2. /\ w \in Seq(S)
      /\ Len(w) = IF a + 1 <= Len(m) THEN Len(m) - (a + 1) + 1 ELSE 0
      /\ \A i \in 1 .. Len(m) - (a + 1) + 1 : w[i] = m[(a + 1) + i - 1]
  BY <1>1, SubSeqProperties
<1> HIDE DEF w
<1>3. Len(w) = Len(m) - a /\ Len(m) - (a + 1) + 1 = Len(m) - a
  BY <1>1, <1>2
<1>4. \A i \in 1 .. Len(w) : (a + 1) + i - 1 = a + i
  BY <1>1, <1>3
<1>5. QED  BY <1>2, <1>3, <1>4 DEF w, IsRest

\* The rest of the rest is the rest.
LEMMA RestOfRest ==
    ASSUME NEW S, NEW m \in Seq(S), NEW a \in Nat, NEW w \in Seq(S), IsRest(w, m, a),
           NEW n \in 1 .. Len(w), a + n <= Len(m)
    PROVE  SubSeq(w, n + 1, Len(w)) = SubSeq(m, a + n + 1, Len(m))
<1> DEFINE u == SubSeq(w, n + 1, Len(w))
           v == SubSeq(m, a + n + 1, Len(m))
<1>1. Len(m) \in Nat /\ n \in Nat /\ n > 0 /\ Len(w) = Len(m) - a /\ n <= Len(w)
  BY DEF IsRest
<1>2. u \in Seq(S) /\ IsRest(u, w, n)
  BY <1>1, Rest
<1>3. v \in Seq(S) /\ IsRest(v, m, a + n)
  BY <1>1, Rest
<1> HIDE DEF u, v
<1>4. Len(u) = Len(v) /\ Len(u) = Len(w) - n
  BY <1>1, <1>2, <1>3 DEF IsRest
<1>5. \A i \in 1 .. Len(u) : u[i] = v[i]
  <2>1. TAKE i \in 1 .. Len(u)
  <2>2. n + i \in 1 .. Len(w) /\ a + (n + i) = (a + n) + i
    BY <1>1, <1>4
  <2>3. u[i] = w[n + i] /\ w[n + i] = m[a + (n + i)] /\ v[i] = m[(a + n) + i]
    BY <1>2, <1>3, <1>4, <2>2 DEF IsRest
  <2>4. QED  BY <2>2, <2>3
<1>6. QED  BY <1>2, <1>3, <1>4, <1>5, SeqEqual DEF u, v

\* A segment arrives behind the cells that count, and the buffer is taken for a whole
\* message where it holds all of it and nowhere else.
LEMMA Segment ==
    ASSUME NEW m, IsMessage(m), Underway(m), Buffer(recvBuf), recvBufSize \in 0 .. MAX_BUF_SIZE,
           NEW n \in 1 .. Len(wire), recvBufSize + n <= MAX_BUF_SIZE
    PROVE  /\ Buffer(Filled(n))
           /\ recvBufSize + n \in Nat /\ recvBufSize + n <= Len(m)
           /\ SameCells(Filled(n), m, recvBufSize + n)
           /\ SubSeq(wire, n + 1, Len(wire)) = SubSeq(m, recvBufSize + n + 1, Len(m))
           /\ ValidateBuff(Filled(n), recvBufSize + n) <=> recvBufSize + n = Len(m)
<1> DEFINE f == Filled(n)
           k == recvBufSize + n
<1>1. /\ SIZE = 8 /\ HEADER = 10 /\ MAX_BUF_SIZE \in Nat /\ MAX_BUF_SIZE >= HEADER
      /\ m \in Seq(Memory) /\ Len(m) \in Nat /\ Len(m) >= HEADER /\ Len(m) < LIMIT
      /\ recvBufSize \in Nat /\ recvBufSize < Len(m)
      /\ recvBuf \in Seq(Memory) /\ Len(recvBuf) = MAX_BUF_SIZE
  BY ExchangeAssumption DEF IsMessage, Underway, Buffer, SIZE, HEADER
<1>2. wire \in Seq(Memory) /\ IsRest(wire, m, recvBufSize)
  BY <1>1, Rest DEF Underway
<1>3. /\ n \in Nat /\ n > 0 /\ k \in Nat /\ k > 0
      /\ k <= Len(m) /\ k <= MAX_BUF_SIZE /\ MAX_BUF_SIZE \in Nat
  BY <1>1, <1>2 DEF IsRest
<1>4. \A i \in 1 .. MAX_BUF_SIZE :
        f[i] = IF i - recvBufSize \in 1 .. n THEN wire[i - recvBufSize] ELSE recvBuf[i]
  BY DEF Filled
<1>5. f \in Seq(Memory) /\ Len(f) = MAX_BUF_SIZE
  <2>1. \A i \in 1 .. MAX_BUF_SIZE :
          (IF i - recvBufSize \in 1 .. n THEN wire[i - recvBufSize] ELSE recvBuf[i]) \in Memory
    <3>1. TAKE i \in 1 .. MAX_BUF_SIZE
    <3>2. recvBuf[i] \in Memory
      BY <1>1
    <3>3. i - recvBufSize \in 1 .. n => i - recvBufSize \in 1 .. Len(wire)
      BY <1>1, <1>2, <1>3 DEF IsRest
    <3>4. \A j \in 1 .. Len(wire) : wire[j] \in Memory
      BY <1>2
    <3>5. QED  BY <3>2, <3>3, <3>4
  <2>2. f \in [1 .. MAX_BUF_SIZE -> Memory]
    BY <2>1 DEF Filled
  <2>3. QED  BY <1>1, <2>2
<1> HIDE DEF f
<1>6. SameCells(f, m, k)
  <2>1. ASSUME NEW i \in 1 .. k
        PROVE  f[i] = m[i]
    <3>1. i \in 1 .. MAX_BUF_SIZE /\ i \in Int
      BY <1>3
    <3>2. CASE i <= recvBufSize
      <4>1. i - recvBufSize \notin 1 .. n /\ i \in 1 .. recvBufSize
        BY <1>1, <3>1, <3>2
      <4>2. f[i] = recvBuf[i]
        BY <1>4, <3>1, <4>1
      <4>3. recvBuf[i] = m[i]
        BY <4>1 DEF Underway, SameCells
      <4>4. QED  BY <4>2, <4>3
    <3>3. CASE ~(i <= recvBufSize)
      <4>1. i - recvBufSize \in 1 .. n /\ i - recvBufSize \in 1 .. Len(wire)
            /\ recvBufSize + (i - recvBufSize) = i
        BY <1>1, <1>2, <1>3, <3>1, <3>3 DEF IsRest
      <4>2. f[i] = wire[i - recvBufSize]
        BY <1>4, <3>1, <4>1
      <4>3. wire[i - recvBufSize] = m[recvBufSize + (i - recvBufSize)]
        BY <1>2, <4>1 DEF IsRest
      <4>4. QED  BY <4>1, <4>2, <4>3
    <3>4. QED  BY <3>2, <3>3
  <2>2. QED  BY <2>1 DEF SameCells
<1>7. ASSUME k < 8
      PROVE  Buffer(f) /\ (ValidateBuff(f, k) <=> k = Len(m))
  <2>1. f[SIZE] = recvBuf[SIZE]
    <3>1. SIZE \in 1 .. MAX_BUF_SIZE /\ SIZE - recvBufSize \notin 1 .. n
      BY <1>1, <1>3, <1>7
    <3>2. QED  BY <1>4, <3>1
  <2>2. f[SIZE] \notin 1 .. 7
    BY <2>1 DEF Buffer
  <2>3. ~ValidateBuff(f, k)
    <3>1. SUFFICES ASSUME MessageSize(f) = k PROVE FALSE
      BY DEF ValidateBuff
    <3>2. MessageSize(f) \in 1 .. 7
      BY <1>3, <1>7, <3>1
    <3>3. f[8] = MessageSize(f)
      BY <1>1, <1>5, <3>2, SizeInLastByte
    <3>4. QED  BY <1>1, <2>2, <3>2, <3>3
  <2>4. k # Len(m)
    BY <1>1, <1>3, <1>7
  <2>5. QED  BY <1>5, <2>2, <2>3, <2>4 DEF Buffer
<1>8. ASSUME ~(k < 8)
      PROVE  Buffer(f) /\ (ValidateBuff(f, k) <=> k = Len(m))
  <2>1. \A j \in 1 .. SIZE : j \in 1 .. k
    BY <1>1, <1>3, <1>8
  <2>2. Announces(f, Len(m))
    BY <1>6, <2>1 DEF IsMessage, Announces, SameCells
  <2>3. MessageSize(f) = Len(m)
    BY <1>1, <1>5, <2>2, SizeAnnounced
  <2>4. f[SIZE] = m[SIZE]
    <3>1. SIZE \in 1 .. k
      BY <1>1, <1>3, <1>8
    <3>2. QED  BY <1>6, <3>1 DEF SameCells
  <2>5. QED  BY <1>5, <2>3, <2>4 DEF Buffer, IsMessage, ValidateBuff
<1>9. SubSeq(wire, n + 1, Len(wire)) = SubSeq(m, k + 1, Len(m))
  BY <1>1, <1>2, <1>3, RestOfRest
<1>10. Buffer(f) /\ (ValidateBuff(f, k) <=> k = Len(m))
  BY <1>7, <1>8
<1>11. QED  BY <1>3, <1>6, <1>9, <1>10 DEF f

\* What SendableMessage finds, of a buffer that holds the message.
Recognised(buf) ==
    \/ line = NoLine /\ Received(buf).type = "key_request"
    \/ /\ Received(buf).type = "request"
       /\ ParseRequest(Received(buf).buf) = parse_command(line.keys)
       /\ parse_command(line.keys) \in Requests

LEMMA ReceivingInit ==
    ASSUME KeyFits, Init
    PROVE  Receiving
<1>1. SIZE = 8 /\ HEADER = 10 /\ MAX_BUF_SIZE \in Nat /\ MAX_BUF_SIZE >= HEADER
  BY ExchangeAssumption DEF SIZE, HEADER
<1>2. Buffer(recvBuf)
  <2>1. 0 \in Memory /\ SIZE \in 1 .. MAX_BUF_SIZE /\ 0 \notin 1 .. 7
    BY <1>1 DEF Memory
  <2>2. recvBuf = [i \in 1 .. MAX_BUF_SIZE |-> 0]
    BY DEF Init
  <2>3. recvBuf \in [1 .. MAX_BUF_SIZE -> Memory] /\ recvBuf[SIZE] = 0
    BY <2>1, <2>2
  <2>4. recvBuf \in Seq(Memory) /\ Len(recvBuf) = MAX_BUF_SIZE
    BY <1>1, <2>3
  <2>5. QED  BY <2>1, <2>3, <2>4 DEF Buffer
<1>3. IsMessage(KeyRequest) /\ Sendable(KeyRequest)
  BY KeyMessage DEF Sendable, Init
<1>4. Underway(KeyRequest)
  <2>1. wire = SubSeq(KeyRequest, 1, Len(KeyRequest)) /\ recvBufSize = 0
    BY <1>3, SubSeqFull DEF Init, IsMessage
  <2>2. 0 < Len(KeyRequest) /\ 0 + 1 = 1
    BY <1>1, <1>3 DEF IsMessage
  <2>3. SameCells(recvBuf, KeyRequest, 0)
    BY DEF SameCells
  <2>4. QED  BY <2>1, <2>2, <2>3 DEF Underway
<1>5. recvBufSize = 0 /\ stage = "sending" /\ line = NoLine
  BY DEF Init
<1>6. QED  BY <1>1, <1>2, <1>3, <1>4, <1>5 DEF Receiving

\* A request is typed after the one before it was answered, and taken up from its
\* first cell.
LEMMA ReceivingType ==
    ASSUME KeyFits, PathsFit, Receiving, NEW l \in Lines, Type(l)
    PROVE  Receiving'
<1> DEFINE r == parse_command(l.keys)
           m == Message("request", PackRequest(r))
<1>1. /\ Buffer(recvBuf)' /\ recvBufSize = 0 /\ recvBufSize' = 0 /\ recvBufSize' \in 0 .. MAX_BUF_SIZE
      /\ line' \in Lines
  BY DEF Receiving, Type, Buffer
<1>2. CASE r.type = "none"
  <2>1. stage' = "prompt" /\ wire' = <<>>
    BY <1>2 DEF Type, Receiving
  <2>2. QED  BY <1>1, <2>1 DEF Receiving
<1>3. CASE r.type # "none"
  <2>1. r \in Requests
    BY <1>3, Commands DEF PathsFit
  <2>2. wire' = m /\ stage' = "sending" /\ line' = l
    BY <1>3 DEF Type
  <2>3. IsMessage(m)
    <3> HIDE DEF r
    <3>1. QED  BY <2>1, RequestMessage
  <2>4. Sendable(m)'
    BY <2>1, <2>2 DEF Sendable
  <2> HIDE DEF m, r
  <2>5. Underway(m)'
    <3>1. wire' = SubSeq(m, 0 + 1, Len(m))
      <4>1. 0 + 1 = 1
        OBVIOUS
      <4>2. QED  BY <2>2, <2>3, <4>1, SubSeqFull DEF IsMessage
    <3>2. 0 < Len(m)
      BY <2>3 DEF IsMessage, HEADER, SIZE
    <3>3. SameCells(recvBuf', m, 0)
      BY DEF SameCells
    <3>4. Len(m)' = Len(m) /\ m' = m
      BY DEF m, r
    <3>5. QED  BY <1>1, <3>1, <3>2, <3>3, <3>4 DEF Underway
  <2>6. \E c : IsMessage(c)' /\ Sendable(c)' /\ Underway(c)'
    BY <2>3, <2>4, <2>5
  <2>7. QED  BY <1>1, <2>2, <2>6 DEF Receiving
<1>4. QED  BY <1>2, <1>3

LEMMA ReceivingPart ==
    ASSUME Receiving, NEW n, ArrivesPartly(n)
    PROVE  Receiving'
<1>1. PICK m : IsMessage(m) /\ Sendable(m) /\ Underway(m)
  BY DEF Receiving, ArrivesPartly, Arrives
<1>2. /\ Buffer(recvBuf) /\ recvBufSize \in 0 .. MAX_BUF_SIZE
      /\ n \in 1 .. Len(wire) /\ recvBufSize + n <= MAX_BUF_SIZE
      /\ ~ValidateBuff(Filled(n), recvBufSize + n)
      /\ wire' = SubSeq(wire, n + 1, Len(wire)) /\ recvBuf' = Filled(n)
      /\ recvBufSize' = recvBufSize + n /\ stage' = "sending"
      /\ line' = line /\ line \in Lines \cup {NoLine}
  BY DEF Receiving, ArrivesPartly, Arrives
<1>3. /\ Buffer(recvBuf')
      /\ recvBufSize' \in Nat /\ recvBufSize' <= Len(m) /\ recvBufSize' # Len(m)
      /\ SameCells(recvBuf', m, recvBufSize')
      /\ wire' = SubSeq(m, recvBufSize' + 1, Len(m))
  BY <1>1, <1>2, Segment
<1>4. recvBufSize' < Len(m) /\ recvBufSize' \in 0 .. MAX_BUF_SIZE
  BY <1>1, <1>2, <1>3, ExchangeAssumption DEF IsMessage
<1>5. Underway(m)'
  BY <1>3, <1>4 DEF Underway
<1>6. Sendable(m)'
  BY <1>1, <1>2 DEF Sendable
<1>7. \E c : IsMessage(c)' /\ Sendable(c)' /\ Underway(c)'
  BY <1>1, <1>5, <1>6 DEF IsMessage
<1>8. QED  BY <1>2, <1>3, <1>4, <1>7 DEF Receiving

\* A message that is taken is whole: the rest of it is nothing, and it is what was sent.
LEMMA TakenWhole ==
    ASSUME KeyFits, Receiving, NEW n, ArrivesWhole(n)
    PROVE  wire' = <<>> /\ Buffer(Filled(n)) /\ Recognised(Filled(n))
<1>1. PICK m : IsMessage(m) /\ Sendable(m) /\ Underway(m)
  BY DEF Receiving, ArrivesWhole, Arrives
<1> DEFINE f == Filled(n)
<1>2. /\ Buffer(recvBuf) /\ recvBufSize \in 0 .. MAX_BUF_SIZE
      /\ n \in 1 .. Len(wire) /\ recvBufSize + n <= MAX_BUF_SIZE
      /\ ValidateBuff(f, recvBufSize + n)
      /\ wire' = SubSeq(wire, n + 1, Len(wire))
  BY DEF Receiving, ArrivesWhole, Arrives
<1>3. /\ Buffer(f)
      /\ recvBufSize + n = Len(m)
      /\ SameCells(f, m, recvBufSize + n)
      /\ wire' = SubSeq(m, recvBufSize + n + 1, Len(m))
  BY <1>1, <1>2, Segment
<1>4. wire' = <<>>
  BY <1>1, <1>3 DEF IsMessage
<1>5. Recognised(f)
  <2>1. f \in Seq(Memory) /\ Len(m) <= Len(f) /\ SameCells(f, m, Len(m))
    BY <1>2, <1>3 DEF Buffer
  <2> HIDE DEF f
  <2>2. QED  BY <1>1, <2>1, SendableMessage DEF Recognised
<1>6. QED  BY <1>3, <1>4, <1>5

\* What it asks is what was typed.
LEMMA ReceivingWhole ==
    ASSUME KeyFits, Receiving, NEW n, ArrivesWhole(n)
    PROVE  Receiving'
<1> DEFINE f == Filled(n)
           req == ParseRequest(Received(f).buf)
<1>1. wire' = <<>> /\ Buffer(f) /\ Recognised(f)
  BY TakenWhole
<1>2. /\ recvBuf' = f /\ recvBufSize' = 0 /\ line' = line /\ line \in Lines \cup {NoLine}
  BY DEF Receiving, ArrivesWhole, Arrives
<1>3. /\ stage' \in {"answered", "undefined"}
      /\ line # NoLine => asked' = parse_command(line.keys)
  <2>1. CASE line = NoLine /\ Received(f).type = "key_request"
    BY <2>1 DEF ArrivesWhole, Sends
  <2>2. CASE /\ Received(f).type = "request"
             /\ req = parse_command(line.keys)
             /\ parse_command(line.keys) \in Requests
    <3>1. req.type # "invalid"
      <4>1. req.type \in ToSet(RequestTypes)
        BY <2>2 DEF Requests
      <4>2. QED  BY <4>1 DEF ToSet, RequestTypes
    <3>2. asked' = req
      BY <2>2 DEF ArrivesWhole
    <3>3. stage' \in {"answered", "undefined"}
      BY <2>2, <3>1 DEF ArrivesWhole, Sends
    <3>4. QED  BY <2>2, <3>2, <3>3
  <2>3. QED  BY <1>1, <2>1, <2>2 DEF Recognised
<1>4. Buffer(recvBuf)' /\ recvBufSize' \in 0 .. MAX_BUF_SIZE
  BY <1>1, <1>2, ExchangeAssumption DEF Buffer
<1>5. QED
  <2> HIDE DEF f, req
  <2>1. QED  BY <1>1, <1>2, <1>3, <1>4 DEF Receiving

\* A message that fills the buffer and is not whole is longer than the buffer.
LEMMA ReceivingFull ==
    ASSUME Receiving, BufferFull
    PROVE  Receiving'
<1>1. PICK m : IsMessage(m) /\ Sendable(m) /\ Underway(m)
  BY DEF Receiving, BufferFull
<1>2. Sendable(m)' /\ Len(m) \in Nat /\ Len(m) > MAX_BUF_SIZE
  BY <1>1, ExchangeAssumption DEF Receiving, Sendable, BufferFull, Underway, IsMessage
<1>3. /\ Buffer(recvBuf)' /\ recvBufSize' \in 0 .. MAX_BUF_SIZE /\ stage' = "refused"
      /\ line' \in Lines \cup {NoLine}
  BY DEF Receiving, BufferFull, Buffer
<1>4. \E c : Sendable(c)' /\ (Len(c) \in Nat)' /\ (Len(c) > MAX_BUF_SIZE)'
  BY <1>2
<1>5. QED  BY <1>3, <1>4 DEF Receiving

LEMMA ReceivingDisplay ==
    ASSUME Receiving, Display
    PROVE  Receiving'
BY DEF Receiving, Display, Buffer

\* The inductive invariant holds: cells of a message that count are those that were
\* sent, and nothing else is ever taken for a whole one.
THEOREM ReceivingAlways ==
    ASSUME KeyFits, PathsFit
    PROVE  Spec => []Receiving
<1>1. Init => Receiving
  BY ReceivingInit
<1>2. Receiving /\ [Next]_vars => Receiving'
  <2>1. ASSUME Receiving, Next PROVE Receiving'
    <3>1. CASE \E l \in Lines : Type(l)
      BY <2>1, <3>1, ReceivingType
    <3>2. CASE \E n : ArrivesPartly(n) \/ ArrivesWhole(n)
      BY <2>1, <3>2, ReceivingPart, ReceivingWhole
    <3>3. CASE BufferFull
      BY <2>1, <3>3, ReceivingFull
    <3>4. CASE Display
      BY <2>1, <3>4, ReceivingDisplay
    <3>5. QED  BY <2>1, <3>1, <3>2, <3>3, <3>4 DEF Next
  <2>2. ASSUME Receiving, UNCHANGED vars PROVE Receiving'
    BY <2>2 DEF Receiving, vars, Buffer, Sendable, Underway
  <2>3. QED  BY <2>1, <2>2
<1>3. QED  BY <1>1, <1>2, PTL DEF Spec

\* A message is taken when all of it has arrived and not before, for buffers, paths,
\* keys and segments of any size (ProcessEvent and ValidateBuff).
THEOREM RequestsAreWhole ==
    ASSUME KeyFits, PathsFit
    PROVE  Spec => []WholeRequests
<1>1. Receiving => WholeRequests
  <2>1. SUFFICES ASSUME Receiving, stage = "sending" PROVE wire # <<>>
    BY DEF Receiving, WholeRequests
  <2>2. PICK m : IsMessage(m) /\ Underway(m)
    BY <2>1 DEF Receiving
  <2>3. m \in Seq(Memory) /\ recvBufSize \in Nat /\ recvBufSize < Len(m) /\ Len(m) \in Nat
    BY <2>1, <2>2, ExchangeAssumption DEF Receiving, Underway, IsMessage
  <2>4. IsRest(wire, m, recvBufSize)
    BY <2>2, <2>3, Rest DEF Underway
  <2>5. Len(wire) > 0
    BY <2>3, <2>4 DEF IsRest
  <2>6. QED  BY <2>5
<1>2. QED  BY <1>1, ReceivingAlways, PTL

\* The line says what the user means: its path is the argument that split finds.
Understood == \A l \in Lines : parse_command(l.keys) = l.meant

\* The query is made about the path that was named, whatever its characters and its
\* length and however its message is cut, although pop and Message read too far
\* (Request and PackCtx at both ends).
THEOREM AskedIsMeant ==
    ASSUME KeyFits, PathsFit, Understood
    PROVE  Spec => []AskedWhatWasMeant
<1>1. Receiving => AskedWhatWasMeant
  BY DEF Receiving, AskedWhatWasMeant, Understood
<1>2. QED  BY <1>1, ReceivingAlways, PTL

\* The message of a request with a path of 239 characters is one of 512 bytes or less.
LEMMA RequestLength ==
    ASSUME NEW r \in Requests, Len(r.arg) <= 239
    PROVE  Len(Message("request", PackRequest(r))) <= 512
<1> DEFINE p == PackRequest(r)
<1>1. p \in Seq(Byte) /\ Holds(p, r) /\ Len(p) \in Nat /\ Len(r.arg) \in Nat /\ 2 * Len(p) + 64 < LIMIT
  BY PackedRequest DEF Holds, Requests
<1> HIDE DEF p
<1>2. Len(Message("request", p)) = 10 + (Len(p) + Padding(Len(p)))
  BY <1>1, EncryptedMessage, Names
<1>3. Len(p) <= 495
  <2>1. Len(p) = 9 \/ Len(p) = 17 + 2 * Len(r.arg)
    BY <1>1 DEF Holds
  <2>2. ASSUME NEW k \in Nat, k <= 239 PROVE 17 + 2 * k <= 495
    BY <2>2, SMT
  <2>3. CASE Len(p) = 9
    BY <2>3
  <2>4. CASE Len(p) = 17 + 2 * Len(r.arg)
    BY <1>1, <2>2, <2>4
  <2>5. QED  BY <2>1, <2>3, <2>4
<1>4. ASSUME NEW n \in Nat, n <= 495
      PROVE  10 + (n + Padding(n)) <= 512
  BY <1>4, SMT DEF Padding, BLOCK
<1>5. QED  BY <1>1, <1>2, <1>3, <1>4 DEF p

\* With a buffer of 512 bytes no request is ignored, and none is refused but for a path
\* of 240 characters or more (BufferFull: the read of length 0 in ProcessEvent).
THEOREM OnlyLongPathsAreRefused ==
    ASSUME KeyFits, PathsFit, Understood, MAX_BUF_SIZE >= 512, Len(KeyRequest) <= 512
    PROVE  Spec => []RequestsFit
<1>1. Receiving => RequestsFit
  <2>1. SUFFICES ASSUME Receiving, stage = "refused" PROVE Len(line.meant.arg) > 239
    BY DEF Receiving, RequestsFit
  <2>2. PICK m : Sendable(m) /\ Len(m) \in Nat /\ Len(m) > MAX_BUF_SIZE
    BY <2>1 DEF Receiving
  <2>3. Len(m) > 512
    BY <2>2, ExchangeAssumption
  <2>4. m # KeyRequest
    BY <2>2, <2>3
  <2> DEFINE r == parse_command(line.keys)
  <2>5. line \in Lines /\ r \in Requests /\ m = Message("request", PackRequest(r))
    BY <2>2, <2>4 DEF Sendable
  <2>6. r = line.meant
    BY <2>5 DEF Understood
  <2> HIDE DEF r
  <2>7. ~(Len(r.arg) <= 239)
    BY <2>2, <2>3, <2>5, RequestLength
  <2>8. Len(r.arg) \in Nat
    BY <2>5 DEF Requests
  <2>9. QED  BY <2>6, <2>7, <2>8
<1>2. QED  BY <1>1, ReceivingAlways, PTL
===============================================================================
