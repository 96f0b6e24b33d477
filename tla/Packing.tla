------------------------------ MODULE Packing ------------------------------
(***************************************************************************)
(* The bytes of src/common/proto/packable.hpp and src/common/tcp_utils.hpp *)
(* at their real widths.  A value is a word, its bytes from the most       *)
(* significant; memory is a sequence of cells, and a cell past the end of  *)
(* what was allocated reads as UNDEF.  Both programs run on a machine that *)
(* stores the least significant byte first.                                *)
(***************************************************************************)
EXTENDS Integers, Sequences

UNDEF == -999   \* not a byte, even when it is encrypted

\* The word of w bytes for a number that fits 31 bits, and back.
LowBytes(n) == <<n % 256, (n \div 256) % 256, (n \div 65536) % 256, (n \div 16777216) % 256>>
Word(w, n) == [i \in 1 .. w |-> IF w - i < 4 THEN LowBytes(n)[w - i + 1] ELSE 0]

\* The numbers in use are sizes, counts and times of less than four bytes;
\* any other word, undefined or too large, gives UNDEF.
Low(word, i) == IF i < Len(word) THEN word[Len(word) - i] ELSE 0
IsNumber(word) ==
    /\ \A i \in DOMAIN word : word[i] = 0 \/ (Len(word) - i < 4 /\ word[i] \in 0 .. 255)
    /\ Low(word, 3) < 128
Number(word) ==
    IF IsNumber(word)
    THEN Low(word, 0) + 256 * Low(word, 1) + 65536 * Low(word, 2) + 16777216 * Low(word, 3)
    ELSE UNDEF

\* A word in memory, and the word that is read from memory.
Swapped(s) == [i \in 1 .. Len(s) |-> s[Len(s) + 1 - i]]
InMemory(word) == Swapped(word)
FromMemory(cells) == Swapped(cells)

hton_generic(word) == Swapped(word)
ntoh_generic(word) == Swapped(word)

\* n cells of buf from place i on, allocated or not.
Cells(buf, i, n) ==
    LET end       == IF i + n - 1 <= Len(buf) THEN i + n - 1 ELSE Len(buf)
        allocated == SubSeq(buf, i, end)
    IN  allocated \o [j \in 1 .. n - Len(allocated) |-> UNDEF]

SIZE == 8   \* sizeof(usize)
-----------------------------------------------------------------------------
\* PackCtx with what was pushed so far: push swaps a word and stores it.  The
\* buffer is doubled until it is larger than its contents, whatever they are.
Empty == <<>>
Push(ctx, word) == ctx \o InMemory(hton_generic(word))

\* push(val, size): the size in bytes, then the size / w elements of w bytes each.
PushArray(ctx, words, w) ==
    Push(ctx, Word(SIZE, Len(words) * w))
        \o [i \in 1 .. Len(words) * w |->
              InMemory(hton_generic(words[1 + ((i - 1) \div w)]))[1 + ((i - 1) % w)]]

\* pack: the size of everything comes first, as it is in memory.
Pack(ctx) == InMemory(Word(SIZE, SIZE + Len(ctx))) \o ctx
-----------------------------------------------------------------------------
\* PackCtx(buf) copies as many cells as the size at their start says; the first
\* value is behind the size.
Opened(buf) == Cells(buf, 1, Number(FromMemory(Cells(buf, 1, SIZE))))

\* pop: the word of w bytes at place at, which advances by w.
Popped(cells, at, w) == ntoh_generic(FromMemory(Cells(cells, at, w)))

\* pop(size): the loop runs over as many elements as there are bytes, and the
\* place advances by the bytes.
ArraySize(cells, at) == Number(Popped(cells, at, SIZE))
PoppedArray(cells, at, w) ==
    [i \in 1 .. ArraySize(cells, at) |-> Popped(cells, at + SIZE + (i - 1) * w, w)]
=============================================================================
