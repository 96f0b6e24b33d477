------------------------------ MODULE Protocol ------------------------------
(***************************************************************************)
(* Requests, responses and messages of src/common/proto, byte by byte.     *)
(* What a constructor writes and what the one that parses it reads are two *)
(* definitions, as they are two functions in the code.                     *)
(***************************************************************************)
EXTENDS Packing, SequencesExt

\* The first place of x in s, or the place behind all of them.
Index(s, x) == IF Contains(s, x) THEN CHOOSE i \in DOMAIN s : s[i] = x ELSE Len(s) + 1

\* enum RequestType and enum ResponseType, in the order of their values.
RequestTypes == <<"os", "time", "uptime", "memory", "drives", "rights", "owner">>
ResponseTypes == <<"os", "time", "memory", "drives", "rights", "owner">>
Code(types, t) == <<CHOOSE n \in 0 .. Len(types) - 1 : types[n + 1] = t>>
\* NamedButLast takes the number of the last name for one too many.
NamedButLast(types, word) ==
    LET n == Number(word) IN IF n \in 0 .. Len(types) - 2 THEN types[n + 1] ELSE "invalid"
Named(types, word) ==
    LET n == Number(word) IN IF n \in 0 .. Len(types) - 1 THEN types[n + 1] ELSE "invalid"

\* The Windows build: wchar_t is one unit of UTF-16.
WCHAR == 2

\* Request::pack, which is the same for every type.
PackRequest(r) ==
    LET ctx == Push(Empty, Code(RequestTypes, r.type))
    IN  Pack(IF r.arg # <<>> THEN PushArray(ctx, r.arg, WCHAR) ELSE ctx)

\* RequestOverlong takes all the elements that pop returns for the argument.
RequestOverlong(buf) ==
    LET cells == Opened(buf)
        type  == Named(RequestTypes, Popped(cells, SIZE + 1, 1))
    IN  [type |-> type,
         arg |-> IF type \in {"rights", "owner"} THEN PoppedArray(cells, SIZE + 2, WCHAR)
                 ELSE <<>>]

\* Request(buf): two types have an argument, of which pop returns more elements than
\* there are.
ParseRequest(buf) ==
    LET cells == Opened(buf)
        type  == Named(RequestTypes, Popped(cells, SIZE + 1, 1))
        arg   == SIZE + 2
    IN  [type |-> type,
         arg |-> IF type \in {"rights", "owner"}
                 THEN SubSeq(PoppedArray(cells, arg, WCHAR), 1, ArraySize(cells, arg) \div WCHAR)
                 ELSE <<>>]
-----------------------------------------------------------------------------
\* The widths of the fields of responses.  The others are arrays of bytes.
Width == [type |-> 1, major |-> 2, minor |-> 2, time_ms |-> 8, time_zone |-> 1,
          free_bytes |-> 8, total_bytes |-> 8, accessMask |-> 4, aceType |-> 1, scope |-> 1]

Lists == {"drives", "rights"}

\* The fields that pack pushes, in its order; those of an element, for a list.
Fields == [os     |-> <<"type", "major", "minor">>,
           time   |-> <<"time_ms", "time_zone">>,
           memory |-> <<"free_bytes", "total_bytes">>,
           drives |-> <<"type", "free_bytes", "name">>,
           rights |-> <<"accessMask", "aceType", "scope", "sid">>,
           owner  |-> <<"ownerDomain", "ownerName", "sid">>]

\* The fields that the parsing constructor pops, in its order.
Reads ==  [os     |-> <<"type", "major", "minor">>,
           time   |-> <<"time_ms", "time_zone">>,
           memory |-> <<"free_bytes", "total_bytes">>,
           drives |-> <<"type", "free_bytes", "name">>,
           rights |-> <<"accessMask", "aceType", "scope", "sid">>,
           owner  |-> <<"ownerDomain", "ownerName", "sid">>]

PushField(ctx, value, f) ==
    IF f \in DOMAIN Width THEN Push(ctx, value)
    ELSE PushArray(ctx, [i \in 1 .. Len(value) |-> <<value[i]>>], 1)

\* What an element pushes does not depend on what was pushed before it.
PushFields(fields, r) == FlattenSeq([i \in DOMAIN fields |-> PushField(Empty, r[fields[i]], fields[i])])

\* A response is its type and its content: a record, or a list of records.
PackResponse(r) ==
    LET ctx == Push(Empty, Code(ResponseTypes, r.type))
        Element(e) == PushFields(Fields[r.type], e)
    IN  Pack(IF r.type \in Lists
             THEN Push(ctx, Word(SIZE, Len(r.content)))
                    \o FlattenSeq([i \in DOMAIN r.content |-> Element(r.content[i])])
             ELSE ctx \o Element(r.content))

\* A field at a place, and the place behind it.
Field(cells, at, f) ==
    IF f \in DOMAIN Width THEN Popped(cells, at, Width[f])
    ELSE [i \in 1 .. ArraySize(cells, at) |-> PoppedArray(cells, at, 1)[i][1]]
Behind(cells, at, f) ==
    IF f \in DOMAIN Width THEN at + Width[f] ELSE at + SIZE + ArraySize(cells, at)

\* The places of these fields, in the order they are read, and the place behind.
Places(cells, at, fields) ==
    LET Upto[i \in 0 .. Len(fields)] ==
          IF i = 0 THEN <<at>>
          ELSE LET before == Upto[i - 1]
               IN  Append(before, Behind(cells, Last(before), fields[i]))
    IN  Upto[Len(fields)]

PopFields(cells, at, fields) ==
    LET places == Places(cells, at, fields)
    IN  [f \in ToSet(fields) |-> Field(cells, places[Index(fields, f)], f)]

\* The places of n elements.
Starts(cells, at, fields, n) ==
    LET Upto[i \in 0 .. n] ==
          IF i = 0 THEN <<at>>
          ELSE LET before == Upto[i - 1]
               IN  Append(before, Last(Places(cells, Last(before), fields)))
    IN  Upto[n]

\* ParseResponse, and the constructor it chooses.
ParseResponse(buf) ==
    LET cells == Opened(buf)
        type  == Named(ResponseTypes, Popped(cells, SIZE + 1, 1))
        first == SIZE + 2
        Elements ==
            LET n == Number(Popped(cells, first, SIZE))
                starts == Starts(cells, first + SIZE, Reads[type], n)
            IN  [i \in 1 .. n |-> PopFields(cells, starts[i], Reads[type])]
    IN  [type |-> type,
         content |-> CASE type \in Lists     -> Elements
                       [] type = "invalid"   -> <<>>
                       [] OTHER              -> PopFields(cells, first, Reads[type])]
-----------------------------------------------------------------------------
\* AES-256 in blocks of 16 bytes, the last one padded: a cell of ciphertext is
\* the plain cell, marked.
BLOCK == 16
CIPHER == 256
Padding(n) == BLOCK - (n % BLOCK)

\* RoomWithoutPadding leaves no room for a block of nothing but padding.
RoomWithoutPadding(n) == n + 15
Room(n) == n + 16

\* CryptEncrypt fails where the result does not fit, and the plain content is sent.
Encrypt(s) ==
    LET n == Len(s) + Padding(Len(s)) IN
    IF n <= Room(Len(s))
    THEN [i \in 1 .. n |-> CIPHER + (IF i <= Len(s) THEN s[i] ELSE Padding(Len(s)))]
    ELSE s
Decrypt(s) ==
    IF s # <<>> /\ \A i \in DOMAIN s : s[i] >= CIPHER
    THEN LET n == Len(s) - (Last(s) - CIPHER)
         IN  [i \in 1 .. n |-> s[i] - CIPHER]
    ELSE [i \in DOMAIN s |-> UNDEF]

MessageTypes == <<"request", "response", "key_request", "key_response">>
Encryptions == <<"symmetric", "asymmetric", "none">>

HEADER == SIZE + 2

\* The constructors of a message that is sent: its size, type, encryption and content.
Framed(type, encryption, content) ==
    InMemory(ntoh_generic(Word(SIZE, HEADER + Len(content))))
        \o Code(MessageTypes, type) \o Code(Encryptions, encryption) \o content
Message(type, packed) == Framed(type, "symmetric", Encrypt(packed))

\* The size a buffer announces.
MessageSize(buf) == Number(ntoh_generic(FromMemory(Cells(buf, 1, SIZE))))

\* ValidateBuffer is content with all that the header announces, or more.
ValidateBuffer(buf, size) == MessageSize(buf) <= size
ValidateBuff(buf, size) == MessageSize(buf) = size

\* Message(cid, buf): its m_buf is as long as the message, header included, so that
\* the last cells come from past the end of the content.
Received(buf) ==
    LET size       == MessageSize(buf)
        encryption == Named(Encryptions, <<buf[HEADER]>>)
        content    == SubSeq(buf, HEADER + 1, size)
    IN  [type |-> Named(MessageTypes, <<buf[SIZE + 1]>>),
         buf |-> IF encryption = "symmetric" THEN Cells(Decrypt(content), 1, size)
                 ELSE Cells(buf, HEADER + 1, size)]
=============================================================================
