----------------------------- MODULE StreamProofs -----------------------------
(***************************************************************************)
(* What arrives in a buffer, for every number of slots, size of buffers,   *)
(* length of messages and length of answers, although two reads and two    *)
(* writes of a client may be in flight and a write may be written in       *)
(* parts, or again: a message is handled when all of it is there.  And     *)
(* what arrives at a peer, where the kernel writes all it is given: only   *)
(* what it asked for, as long as no answer is written while the completion *)
(* of a shorter one is due.                                                *)
(***************************************************************************)
EXTENDS AcceptProofs

\* No request is longer than the buffer.
Short == \A m \in Messages : m.len <= MAX_BUF_SIZE

(***************************************************************************)
(* Sums over the packets in the port.                                      *)
(***************************************************************************)
\* f[i] is the sum of w over the first i packets of q.
Tallies(f, q, w) ==
    /\ f \in [0 .. Len(q) -> Nat]
    /\ f[0] = 0
    /\ \A i \in 1 .. Len(q) : f[i] = f[i - 1] + w[q[i]]
    /\ \A i, j \in 0 .. Len(q) : i <= j => f[i] <= f[j]
Sums(q, w, n) == \E f : Tallies(f, q, w) /\ f[Len(q)] = n

\* Where all packets weigh nothing their sum is 0.
LEMMA SumsNothing ==
    ASSUME NEW q \in Seq(Packet), NEW w \in [Packet -> Nat],
           \A i \in DOMAIN q : w[q[i]] = 0
    PROVE  Sums(q, w, 0)
<1> DEFINE f == [i \in 0 .. Len(q) |-> 0]
<1>1. Tallies(f, q, w) /\ f[Len(q)] = 0
  BY DEF Tallies
<1>2. QED  BY <1>1 DEF Sums

\* The sum is a number, and no packet weighs more.
LEMMA SumsBound ==
    ASSUME NEW q \in Seq(Packet), NEW w \in [Packet -> Nat], NEW n, Sums(q, w, n)
    PROVE  n \in Nat /\ \A i \in DOMAIN q : w[q[i]] \in 0 .. n
<1>1. PICK f : Tallies(f, q, w) /\ f[Len(q)] = n
  BY DEF Sums
<1>2. n \in Nat
  BY <1>1 DEF Tallies
<1>3. ASSUME NEW i \in 1 .. Len(q)
      PROVE  w[q[i]] \in 0 .. n
  <2>1. /\ i - 1 \in 0 .. Len(q) /\ i \in 0 .. Len(q) /\ Len(q) \in 0 .. Len(q)
        /\ i <= Len(q) /\ q[i] \in Packet
    OBVIOUS
  <2>2. w[q[i]] \in Nat /\ f[i - 1] \in Nat /\ f[i] \in Nat
    BY <1>1, <2>1 DEF Tallies
  <2>3. f[i] = f[i - 1] + w[q[i]] /\ f[i] <= n
    BY <1>1, <2>1 DEF Tallies
  <2>4. QED  BY <1>2, <2>2, <2>3
<1>4. QED  BY <1>2, <1>3

\* The first packet is taken.
LEMMA SumsTail ==
    ASSUME NEW q \in Seq(Packet), q # <<>>, NEW w \in [Packet -> Nat], NEW n, Sums(q, w, n)
    PROVE  w[Head(q)] <= n /\ Sums(Tail(q), w, n - w[Head(q)])
<1>1. PICK f : Tallies(f, q, w) /\ f[Len(q)] = n
  BY DEF Sums
<1> DEFINE c == w[Head(q)]
           r == Tail(q)
           g == [i \in 0 .. Len(r) |-> f[i + 1] - c]
<1>2. /\ r \in Seq(Packet) /\ Len(r) = Len(q) - 1 /\ Len(q) \in Nat \ {0}
      /\ Head(q) = q[1] /\ Head(q) \in Packet
      /\ \A i \in 1 .. Len(r) : r[i] = q[i + 1]
  OBVIOUS
<1>3. c \in Nat /\ n \in Nat /\ c <= n
  BY <1>2, SumsBound
<1>4. f[1] = c
  <2>1. f[1] = f[0] + w[q[1]] /\ f[0] = 0
    BY <1>1, <1>2 DEF Tallies
  <2>2. QED  BY <1>2, <1>3, <2>1
<1>5. \A i \in 0 .. Len(r) : /\ i + 1 \in 1 .. Len(q) /\ f[i + 1] \in Nat /\ c <= f[i + 1]
                             /\ g[i] = f[i + 1] - c
  BY <1>1, <1>2, <1>4 DEF Tallies
<1> HIDE DEF c, r, g
<1>6. Tallies(g, r, w)
  <2>1. g \in [0 .. Len(r) -> Nat]
    <3>1. \A i \in 0 .. Len(r) : f[i + 1] - c \in Nat
      BY <1>3, <1>5
    <3>2. QED  BY <3>1 DEF g
  <2>2. g[0] = 0
    BY <1>2, <1>3, <1>4, <1>5
  <2>3. ASSUME NEW i \in 1 .. Len(r) PROVE g[i] = g[i - 1] + w[r[i]]
    <3>1. i - 1 \in 0 .. Len(r) /\ i \in 0 .. Len(r) /\ (i - 1) + 1 = i /\ r[i] = q[i + 1] /\ r[i] \in Packet
      BY <1>2
    <3>2. g[i] = f[i + 1] - c /\ g[i - 1] = f[i] - c /\ i + 1 \in 1 .. Len(q)
      BY <1>5, <3>1
    <3>3. f[i + 1] = f[(i + 1) - 1] + w[q[i + 1]]
      BY <1>1, <3>2 DEF Tallies
    <3>4. (i + 1) - 1 = i /\ i \in 0 .. Len(q) /\ w[r[i]] \in Nat
      BY <1>2, <3>1
    <3>5. f[i] \in Nat
      BY <1>1, <3>4 DEF Tallies
    <3>6. QED  BY <1>3, <3>1, <3>2, <3>3, <3>4, <3>5
  <2>4. ASSUME NEW i \in 0 .. Len(r), NEW j \in 0 .. Len(r), i <= j PROVE g[i] <= g[j]
    <3>1. i + 1 \in 0 .. Len(q) /\ j + 1 \in 0 .. Len(q) /\ i + 1 <= j + 1
      BY <1>2, <2>4
    <3>2. f[i + 1] <= f[j + 1] /\ f[i + 1] \in Nat /\ f[j + 1] \in Nat
      BY <1>1, <3>1 DEF Tallies
    <3>3. QED  BY <1>3, <1>5, <3>2
  <2>5. QED  BY <2>1, <2>2, <2>3, <2>4 DEF Tallies
<1>7. g[Len(r)] = n - c
  BY <1>1, <1>2, <1>5
<1>8. QED  BY <1>3, <1>6, <1>7 DEF Sums, c, r

\* One packet more.
LEMMA SumsAppend ==
    ASSUME NEW q \in Seq(Packet), NEW w \in [Packet -> Nat], NEW n, Sums(q, w, n),
           NEW p \in Packet
    PROVE  Sums(Append(q, p), w, n + w[p])
<1>1. PICK f : Tallies(f, q, w) /\ f[Len(q)] = n
  BY DEF Sums
<1> DEFINE c == w[p]
           r == Append(q, p)
           l == Len(q)
           g == [i \in 0 .. Len(r) |-> IF i <= l THEN f[i] ELSE n + c]
<1>2. /\ r \in Seq(Packet) /\ Len(r) = l + 1 /\ l \in Nat
      /\ r[l + 1] = p
      /\ \A i \in 1 .. l : r[i] = q[i]
  OBVIOUS
<1>3. c \in Nat /\ n \in Nat
  BY SumsBound
<1>4. \A i \in 0 .. l : f[i] \in Nat /\ f[i] <= n
  <2>1. l \in 0 .. l /\ \A i \in 0 .. l : i <= l
    BY <1>2
  <2> HIDE DEF r
  <2>2. QED  BY <1>1, <2>1 DEF Tallies
<1>5. /\ \A i \in 0 .. l : g[i] = f[i]
      /\ g[l + 1] = n + c
  BY <1>2
<1> HIDE DEF c, r, g, l
<1>6. Tallies(g, r, w)
  <2>1. g \in [0 .. Len(r) -> Nat]
    <3>1. \A i \in 0 .. Len(r) : (IF i <= l THEN f[i] ELSE n + c) \in Nat
      BY <1>2, <1>3, <1>4
    <3>2. QED  BY <3>1 DEF g
  <2>2. g[0] = 0
    BY <1>1, <1>2, <1>5 DEF Tallies
  <2>3. ASSUME NEW i \in 1 .. Len(r) PROVE g[i] = g[i - 1] + w[r[i]]
    <3>1. CASE i \in 1 .. l
      <4>1. i - 1 \in 0 .. l /\ i \in 0 .. l /\ r[i] = q[i]
        BY <1>2, <3>1
      <4>2. f[i] = f[i - 1] + w[q[i]]
        BY <1>1, <3>1 DEF Tallies, l
      <4>3. QED  BY <1>5, <4>1, <4>2
    <3>2. CASE i = l + 1
      <4>1. i - 1 = l /\ l \in 0 .. l
        BY <1>2, <3>2
      <4>2. g[i - 1] = n
        BY <1>1, <1>5, <4>1 DEF l
      <4>3. QED  BY <1>2, <1>5, <3>2, <4>2 DEF c
    <3>3. QED  BY <1>2, <3>1, <3>2
  <2>4. ASSUME NEW i \in 0 .. Len(r), NEW j \in 0 .. Len(r), i <= j PROVE g[i] <= g[j]
    <3>1. CASE j \in 0 .. l
      <4>1. i \in 0 .. l
        BY <1>2, <2>4, <3>1
      <4>2. f[i] <= f[j]
        BY <1>1, <2>4, <3>1, <4>1 DEF Tallies, l
      <4>3. QED  BY <1>5, <3>1, <4>1, <4>2
    <3>2. CASE j = l + 1
      <4>1. CASE i = l + 1
        BY <1>3, <1>5, <3>2, <4>1
      <4>2. CASE i \in 0 .. l
        BY <1>3, <1>4, <1>5, <3>2, <4>2
      <4>3. QED  BY <1>2, <4>1, <4>2
    <3>3. QED  BY <1>2, <3>1, <3>2
  <2>5. QED  BY <2>1, <2>2, <2>3, <2>4 DEF Tallies
<1>7. QED  BY <1>2, <1>5, <1>6 DEF Sums, c, r

\* Packets that weigh the same in the same order.
LEMMA SumsSame ==
    ASSUME NEW q \in Seq(Packet), NEW w, NEW n, Sums(q, w, n),
           NEW r, DOMAIN r = DOMAIN q, Len(r) = Len(q), \A i \in DOMAIN q : w[r[i]] = w[q[i]]
    PROVE  Sums(r, w, n)
<1>1. PICK f : Tallies(f, q, w) /\ f[Len(q)] = n
  BY DEF Sums
<1>2. \A i \in 1 .. Len(r) : w[r[i]] = w[q[i]]
  OBVIOUS
<1>3. Tallies(f, r, w)
  BY <1>1, <1>2 DEF Tallies
<1>4. QED  BY <1>1, <1>3 DEF Sums

\* Packets without weight behind q.
LEMMA SumsMore ==
    ASSUME NEW q \in Seq(Packet), NEW w \in [Packet -> Nat], NEW n, Sums(q, w, n),
           NEW r \in Seq(Packet), \A i \in DOMAIN r : w[r[i]] = 0
    PROVE  Sums(q \o r, w, n)
<1>1. PICK f : Tallies(f, q, w) /\ f[Len(q)] = n
  BY DEF Sums
<1> DEFINE l == Len(q)
           t == q \o r
           g == [i \in 0 .. Len(t) |-> IF i <= l THEN f[i] ELSE n]
<1>2. /\ t \in Seq(Packet) /\ Len(t) \in Nat /\ l \in Nat /\ l <= Len(t)
      /\ \A i \in 1 .. l : t[i] = q[i]
  OBVIOUS
<1>3. \A i \in 1 .. Len(t) : i > l => w[t[i]] = 0
  <2>1. ASSUME NEW i \in 1 .. Len(t), i > l PROVE w[t[i]] = 0
    <3>1. i - l \in DOMAIN r /\ t[i] = r[i - l]
      BY <2>1
    <3>2. QED  BY <3>1
  <2>2. QED  BY <2>1
<1>4. n \in Nat
  BY SumsBound
<1>5. \A i \in 0 .. l : f[i] \in Nat /\ f[i] <= n
  <2>1. l \in 0 .. l /\ \A i \in 0 .. l : i <= l
    BY <1>2
  <2> HIDE DEF t
  <2>2. QED  BY <1>1, <2>1 DEF Tallies
<1>6. /\ \A i \in 0 .. l : i \in 0 .. Len(t) /\ g[i] = f[i]
      /\ \A i \in l + 1 .. Len(t) : g[i] = n
  <2>1. \A i \in 0 .. l : i \in 0 .. Len(t) /\ i <= l
    BY <1>2
  <2>2. \A i \in l + 1 .. Len(t) : i \in 0 .. Len(t) /\ ~(i <= l)
    BY <1>2
  <2>3. QED  BY <2>1, <2>2
<1> HIDE DEF t, g, l
<1>7. f[l] = n /\ f[0] = 0
  BY <1>1 DEF Tallies, l
<1>8. Tallies(g, t, w)
  <2>1. g \in [0 .. Len(t) -> Nat]
    <3>1. \A i \in 0 .. Len(t) : (IF i <= l THEN f[i] ELSE n) \in Nat
      BY <1>2, <1>4, <1>5
    <3>2. QED  BY <3>1 DEF g
  <2>2. g[0] = 0
    BY <1>2, <1>6, <1>7
  <2>3. ASSUME NEW i \in 1 .. Len(t) PROVE g[i] = g[i - 1] + w[t[i]]
    <3>1. CASE i \in 1 .. l
      <4>1. i - 1 \in 0 .. l /\ i \in 0 .. l /\ t[i] = q[i]
        BY <1>2, <3>1
      <4>2. f[i] = f[i - 1] + w[q[i]]
        BY <1>1, <3>1 DEF Tallies, l
      <4>3. g[i] = f[i] /\ g[i - 1] = f[i - 1]
        BY <1>6, <4>1
      <4>4. QED  BY <4>1, <4>2, <4>3
    <3>2. CASE i \in l + 1 .. Len(t)
      <4>1. g[i] = n /\ w[t[i]] = 0
        BY <1>2, <1>3, <1>6, <3>2
      <4>2. g[i - 1] = n
        <5>1. CASE i - 1 = l
          BY <1>2, <1>6, <1>7, <5>1
        <5>2. CASE i - 1 \in l + 1 .. Len(t)
          BY <1>6, <5>2
        <5>3. QED  BY <1>2, <3>2, <5>1, <5>2
      <4>3. QED  BY <1>4, <4>1, <4>2
    <3>3. QED  BY <1>2, <3>1, <3>2
  <2>4. ASSUME NEW i \in 0 .. Len(t), NEW j \in 0 .. Len(t), i <= j PROVE g[i] <= g[j]
    <3>1. CASE j \in 0 .. l
      <4>1. i \in 0 .. l
        BY <1>2, <2>4, <3>1
      <4>2. f[i] <= f[j]
        BY <1>1, <2>4, <3>1, <4>1 DEF Tallies, l
      <4>3. QED  BY <1>6, <3>1, <4>1, <4>2
    <3>2. CASE j \in l + 1 .. Len(t)
      <4>1. CASE i \in 0 .. l
        BY <1>5, <1>6, <3>2, <4>1
      <4>2. CASE i \in l + 1 .. Len(t)
        BY <1>4, <1>6, <3>2, <4>2
      <4>3. QED  BY <1>2, <4>1, <4>2
    <3>3. QED  BY <1>2, <3>1, <3>2
  <2>5. QED  BY <2>1, <2>2, <2>3, <2>4 DEF Tallies
<1>9. g[Len(t)] = n
  <2>1. CASE Len(t) = l
    BY <1>2, <1>6, <1>7, <2>1
  <2>2. CASE Len(t) \in l + 1 .. Len(t)
    BY <1>6, <2>2
  <2>3. QED  BY <1>2, <2>1, <2>2
<1>10. QED  BY <1>8, <1>9 DEF Sums, t

(***************************************************************************)
(* One client's stream: its peer p, the offsets rd of the reads and the    *)
(* writes wr in flight, the counted bytes and the contents of its buffer,  *)
(* and what the port holds for it: b bytes in packets, each of one of the  *)
(* sizes, and t packets of its reads and writes.                           *)
(***************************************************************************)
Anew(rd) == \A i \in DOMAIN rd : rd[i] = 0

\* No part of a message has arrived that is not handled.
Quiet(rd, size, b) == size = 0 /\ b = 0 /\ Anew(rd)

\* What has been delivered of a message, next units, is in its place, and is counted
\* or in one packet that will be.  At most one read waits behind it: the other reads
\* wait at the start, and what they get puts the stream out of step for ever.
InStep(rd, buf, b, sizes, next) ==
    /\ buf.fill = next
    /\ sizes \subseteq {0, b}
    /\ b > 0 => Anew(rd)
    /\ \A i \in DOMAIN rd : rd[i] \in {0, next}
    /\ \A i, j \in DOMAIN rd : rd[i] # 0 /\ rd[j] # 0 => i = j

\* Part of a message, or all of it, has been delivered: out of step the buffer starts
\* with no message, or fewer units count than were delivered.
Arriving(p, rd, size, buf, b, sizes) ==
    /\ size + b <= p.next
    /\ \/ buf.head = NoMessage
       \/ buf.head = p.msg /\ (size + b = p.next => InStep(rd, buf, b, sizes, p.next))

AsksFirst(p) == p.msg.kind = "key" <=> p.key = NoKey

\* Of the writes not transmitted yet, those that start with the start of sendBuf: none,
\* or one.  The others write on, or again, what a completion left of an answer.
Starting(wr, i) == ~wr[i].sent /\ wr[i].first
Settled(wr) == \A i \in DOMAIN wr : ~Starting(wr, i)
OneStarting(wr) == \A i, j \in DOMAIN wr : Starting(wr, i) /\ Starting(wr, j) => i = j

\* The peer sends no more: what is counted as a whole message is one.
Ended(p, size, buf, b) ==
    \/ buf.head = NoMessage
    \/ /\ size + b <= buf.head.len
       /\ size + b = buf.head.len =>
             buf.fill = buf.head.len /\ (buf.head.kind = "key" => p.key = NoKey)

SendingStream(p, rd, wr, size, buf, b, sizes) ==
    /\ p.st = "sending" /\ p.msg \in Messages /\ p.got = 0 /\ p.next < p.msg.len
    /\ AsksFirst(p) /\ Settled(wr)
    /\ p.next = 0 => Quiet(rd, size, b)
    /\ p.next # 0 => Arriving(p, rd, size, buf, b, sizes)

WaitingStream(p, rd, wr, size, buf, b, sizes) ==
    /\ p.st = "waiting" /\ p.msg \in Messages /\ p.next = p.msg.len
    /\ \/ /\ p.got = 0 /\ AsksFirst(p) /\ Settled(wr)
          /\ Arriving(p, rd, size, buf, b, sizes)
       \/ Quiet(rd, size, b) /\ (Settled(wr) \/ (p.got = 0 /\ OneStarting(wr)))

InOrder(p, rd, wr, size, buf, b, sizes) ==
    \/ p.st = "idle" /\ Quiet(rd, size, b) /\ Settled(wr)
    \/ SendingStream(p, rd, wr, size, buf, b, sizes)
    \/ WaitingStream(p, rd, wr, size, buf, b, sizes)
    \/ /\ p.st \in {"fin", "reset", "garbled", "none"} /\ Ended(p, size, buf, b)
       /\ p.st = "none" => wr = <<>>

\* Reads, writes and their packets: one, and two after the exchange of the key.
InFlightBound(p, rd, wr, t) ==
    t + Len(rd) + Len(wr) <= IF p.key = NoKey THEN 1 ELSE 2

Fits(size, b) == Short => size + b <= MAX_BUF_SIZE

Stream(p, rd, wr, size, buf, b, sizes, t) ==
    /\ InOrder(p, rd, wr, size, buf, b, sizes)
    /\ InFlightBound(p, rd, wr, t)
    /\ Fits(size, b)

StreamType(p, rd, wr, size, buf, b, sizes, t) ==
    /\ p \in Peer /\ rd \in Seq(Nat) /\ wr \in Seq(Write) /\ size \in Nat /\ buf \in Buffer
    /\ b \in Nat /\ sizes \subseteq 0 .. b /\ t \in Nat

\* What a message is, and what the buffer of a slot may start with.
LEMMA MessageType ==
    /\ \A m \in Messages : m.len \in Nat \ {0} /\ m.reply \in Nat \ {0} /\ m # NoMessage
    /\ NoMessage.len = 0 /\ NoMessage.kind = "unknown" /\ NoMessage.reply = 0
    /\ \A buf \in Buffer : /\ buf.fill \in Nat /\ buf.head.len \in Nat
                           /\ buf.head # NoMessage => buf.head \in Messages
  BY WinsockAssumption DEF NoMessage, Buffer

\* Fewer reads in flight.
LEMMA FewerReads ==
    ASSUME NEW rd \in Seq(Nat), rd # <<>>
    PROVE  /\ Len(Tail(rd)) = Len(rd) - 1 /\ Len(rd) \in Nat \ {0}
           /\ Anew(rd) => Anew(Tail(rd))
           /\ \A i \in DOMAIN Tail(rd) : i + 1 \in DOMAIN rd /\ Tail(rd)[i] = rd[i + 1]
           /\ 1 \in DOMAIN rd /\ Head(rd) = rd[1]
<1>1. /\ Len(Tail(rd)) = Len(rd) - 1 /\ Len(rd) \in Nat \ {0}
      /\ \A i \in DOMAIN Tail(rd) : i + 1 \in DOMAIN rd /\ Tail(rd)[i] = rd[i + 1]
      /\ 1 \in DOMAIN rd /\ Head(rd) = rd[1]
  OBVIOUS
<1>2. Anew(rd) => Anew(Tail(rd))
  BY <1>1 DEF Anew
<1>3. QED  BY <1>1, <1>2

\* Packets that are no news to the stream: with sizes it knows, or empty.
LEMMA StreamKept ==
    ASSUME NEW p, NEW rd, NEW wr, NEW size, NEW buf, NEW b, NEW sizes, NEW t,
           StreamType(p, rd, wr, size, buf, b, sizes, t),
           Stream(p, rd, wr, size, buf, b, sizes, t),
           NEW known, known \in SUBSET (sizes \cup {0}), NEW u, u \in Nat, u <= t
    PROVE  Stream(p, rd, wr, size, buf, b, known, u)
<1>1. InFlightBound(p, rd, wr, u)
  BY DEF Stream, StreamType, InFlightBound
<1>2. ASSUME NEW next, InStep(rd, buf, b, sizes, next) PROVE InStep(rd, buf, b, known, next)
  BY <1>2 DEF InStep
<1>3. Arriving(p, rd, size, buf, b, sizes) => Arriving(p, rd, size, buf, b, known)
  BY <1>2 DEF Arriving
<1>4. InOrder(p, rd, wr, size, buf, b, known)
  BY <1>3 DEF Stream, InOrder, SendingStream, WaitingStream
<1>5. QED  BY <1>1, <1>4 DEF Stream

\* I/O is cancelled.
LEMMA StreamCancelled ==
    ASSUME NEW p, NEW rd, NEW wr, NEW size, NEW buf, NEW b, NEW sizes, NEW t,
           StreamType(p, rd, wr, size, buf, b, sizes, t),
           Stream(p, rd, wr, size, buf, b, sizes, t)
    PROVE  Stream(p, <<>>, <<>>, size, buf, b, sizes, t)
<1>1. InFlightBound(p, <<>>, <<>>, t)
  BY DEF Stream, StreamType, InFlightBound
<1>2. Anew(<<>>) /\ Settled(<<>>)
  BY DEF Anew, Settled
<1>3. \A next : InStep(rd, buf, b, sizes, next) => InStep(<<>>, buf, b, sizes, next)
  BY <1>2 DEF InStep
<1>4. /\ Arriving(p, rd, size, buf, b, sizes) => Arriving(p, <<>>, size, buf, b, sizes)
      /\ Quiet(rd, size, b) => Quiet(<<>>, size, b)
  BY <1>2, <1>3 DEF Arriving, Quiet
<1>5. InOrder(p, <<>>, <<>>, size, buf, b, sizes)
  BY <1>2, <1>4 DEF Stream, InOrder, SendingStream, WaitingStream
<1>6. QED  BY <1>1, <1>5 DEF Stream

\* A peer that sends no more, of what it has sent.
LEMMA ArrivingEnds ==
    ASSUME NEW p, NEW rd, NEW size, NEW buf, NEW b, NEW sizes,
           size \in Nat, b \in Nat, p.msg \in Messages, p.next \in Nat, p.next <= p.msg.len,
           AsksFirst(p), Arriving(p, rd, size, buf, b, sizes)
    PROVE  Ended(p, size, buf, b)
<1>1. CASE buf.head = NoMessage
  BY <1>1 DEF Ended
<1>2. CASE buf.head = p.msg /\ (size + b = p.next => InStep(rd, buf, b, sizes, p.next))
  <2>1. p.msg.len \in Nat /\ size + b <= p.next
    BY MessageType DEF Arriving
  <2>2. ASSUME size + b = p.msg.len PROVE buf.fill = p.msg.len
    BY <1>2, <2>1, <2>2 DEF InStep
  <2>3. QED  BY <1>2, <2>1, <2>2 DEF Ended, AsksFirst
<1>3. QED  BY <1>1, <1>2 DEF Arriving

\* A peer closes, or its connection is reset: nothing more will arrive.
LEMMA StreamIsEnded ==
    ASSUME NEW p, NEW rd, NEW wr, NEW size, NEW buf, NEW b, NEW sizes, NEW t,
           StreamType(p, rd, wr, size, buf, b, sizes, t),
           Stream(p, rd, wr, size, buf, b, sizes, t)
    PROVE  Ended(p, size, buf, b)
<1>1. size \in Nat /\ b \in Nat /\ buf \in Buffer
  BY DEF StreamType
<1>2. Quiet(rd, size, b) => Ended(p, size, buf, b)
  BY <1>1, MessageType DEF Quiet, Ended
<1>3. ASSUME p.msg \in Messages, p.next <= p.msg.len, p.next \in Nat, AsksFirst(p),
             Arriving(p, rd, size, buf, b, sizes)
      PROVE  Ended(p, size, buf, b)
  BY <1>1, <1>3, ArrivingEnds
<1>4. p.next \in Nat /\ \A m \in Messages : m.len \in Nat
  BY MessageType DEF StreamType, Peer
<1>5. QED  BY <1>2, <1>3, <1>4 DEF Stream, InOrder, SendingStream, WaitingStream

\* What the packet of a read or a write adds to the others: one packet more, with a
\* read or a write less.
LEMMA StreamReadsNothing ==
    ASSUME NEW p, NEW rd, NEW wr, NEW size, NEW buf, NEW b, NEW sizes, NEW t,
           StreamType(p, rd, wr, size, buf, b, sizes, t),
           Stream(p, rd, wr, size, buf, b, sizes, t),
           rd # <<>>, NEW known, known \in SUBSET (sizes \cup {0})
    PROVE  Stream(p, Tail(rd), wr, size, buf, b, known, t + 1)
<1>1. rd \in Seq(Nat) /\ t \in Nat /\ wr \in Seq(Write)
  BY DEF StreamType
<1>2. /\ Len(Tail(rd)) = Len(rd) - 1 /\ Len(rd) \in Nat \ {0} /\ Len(wr) \in Nat
      /\ Anew(rd) => Anew(Tail(rd))
      /\ \A i \in DOMAIN Tail(rd) : i + 1 \in DOMAIN rd /\ Tail(rd)[i] = rd[i + 1]
      /\ DOMAIN Tail(rd) \subseteq Nat
  BY <1>1, FewerReads
<1>3. InFlightBound(p, Tail(rd), wr, t + 1)
  <2> DEFINE r == Tail(rd)
  <2>1. Len(r) = Len(rd) - 1
    BY <1>2
  <2> HIDE DEF r
  <2>2. t + 1 + Len(r) + Len(wr) = t + Len(rd) + Len(wr)
    BY <1>1, <1>2, <2>1
  <2>3. QED  BY <2>2 DEF Stream, InFlightBound, r
<1>4. ASSUME NEW next, InStep(rd, buf, b, sizes, next)
      PROVE  InStep(Tail(rd), buf, b, known, next)
  <2> DEFINE r == Tail(rd)
  <2>1. \A i \in DOMAIN r : r[i] \in {0, next}
    BY <1>2, <1>4 DEF InStep
  <2>2. \A i, j \in DOMAIN r : r[i] # 0 /\ r[j] # 0 => i = j
    <3> SUFFICES ASSUME NEW i \in DOMAIN r, NEW j \in DOMAIN r, r[i] # 0, r[j] # 0
                 PROVE  i = j
      OBVIOUS
    <3>1. i + 1 = j + 1
      BY <1>2, <1>4 DEF InStep
    <3>2. i \in Nat /\ j \in Nat
      BY <1>2
    <3>3. QED  BY <3>1, <3>2
  <2> HIDE DEF r
  <2>3. InStep(r, buf, b, known, next)
    BY <1>2, <1>4, <2>1, <2>2 DEF InStep, r
  <2>4. QED  BY <2>3 DEF r
<1>5. /\ Arriving(p, rd, size, buf, b, sizes) => Arriving(p, Tail(rd), size, buf, b, known)
      /\ Quiet(rd, size, b) => Quiet(Tail(rd), size, b)
  BY <1>2, <1>4 DEF Arriving, Quiet
<1>6. InOrder(p, Tail(rd), wr, size, buf, b, known)
  BY <1>5 DEF Stream, InOrder, SendingStream, WaitingStream
<1>7. QED  BY <1>3, <1>6 DEF Stream

\* The contents of the buffer when units next + 1 .. next + n arrive at offset at.
LEMMA WrittenIs ==
    ASSUME NEW buf \in Buffer, NEW at, NEW m, NEW next, NEW n
    PROVE  /\ at = 0 /\ next = 0 => Written(buf, at, m, next, n) = [head |-> m, fill |-> n]
           /\ at = 0 /\ next # 0 => Written(buf, at, m, next, n) = Zeroed
           /\ at # 0 /\ next # 0 => Written(buf, at, m, next, n).head = buf.head
           /\ at # 0 /\ next # 0 /\ buf.fill = at /\ at = next
                => Written(buf, at, m, next, n).fill = at + n
<1>1. /\ at = 0 /\ next = 0 => Written(buf, at, m, next, n) = [head |-> m, fill |-> n]
      /\ at = 0 /\ next # 0 => Written(buf, at, m, next, n) = Zeroed
  BY Zenon DEF Written
<1>2. at # 0 /\ next # 0 /\ buf.fill = at /\ at = next
        => Written(buf, at, m, next, n) = [buf EXCEPT !.fill = at + n]
  BY Zenon DEF Written
<1>3. at # 0 /\ next # 0 /\ ~(buf.fill = at /\ at = next)
        => Written(buf, at, m, next, n) = [buf EXCEPT !.fill = IF at < @ THEN at ELSE @]
  BY Zenon DEF Written
<1>4. \A x : [buf EXCEPT !.fill = x].head = buf.head /\ [buf EXCEPT !.fill = x].fill = x
  BY DEF Buffer
<1>5. QED  BY <1>1, <1>2, <1>3, <1>4, Zenon

\* Part of a message is delivered into the buffer: what was in step stays in step.
LEMMA StreamDelivers ==
    ASSUME NEW p, NEW rd, NEW wr, NEW size, NEW buf, NEW b, NEW sizes, NEW t,
           StreamType(p, rd, wr, size, buf, b, sizes, t),
           Stream(p, rd, wr, size, buf, b, sizes, t),
           p.st = "sending", rd # <<>>, NEW n, n \in Nat \ {0},
           n <= MAX_BUF_SIZE - Head(rd), n <= p.msg.len - p.next,
           NEW known, known \in SUBSET (sizes \cup {n})
    PROVE  Stream(Taken(p, n), Tail(rd), wr, size, Written(buf, Head(rd), p.msg, p.next, n),
                  b + n, known, t + 1)
<1> DEFINE q == Taken(p, n)
           r == Tail(rd)
           at == Head(rd)
           new == Written(buf, at, p.msg, p.next, n)
           next == p.next + n
<1>1. /\ p \in Peer /\ rd \in Seq(Nat) /\ t \in Nat /\ wr \in Seq(Write) /\ buf \in Buffer
      /\ size \in Nat /\ b \in Nat /\ sizes \subseteq 0 .. b /\ p.next \in Nat
      /\ MAX_BUF_SIZE \in Nat /\ Len(wr) \in Nat
  BY WinsockAssumption DEF StreamType, Peer
<1>2. SendingStream(p, rd, wr, size, buf, b, sizes)
  BY DEF Stream, InOrder, WaitingStream
<1>3. /\ p.msg \in Messages /\ p.msg.len \in Nat \ {0} /\ p.got = 0 /\ p.next < p.msg.len
      /\ AsksFirst(p) /\ Settled(wr)
  BY <1>2, MessageType DEF SendingStream
<1>4. /\ Len(r) = Len(rd) - 1 /\ Len(rd) \in Nat \ {0}
      /\ Anew(rd) => Anew(r)
      /\ \A i \in DOMAIN r : i + 1 \in DOMAIN rd /\ r[i] = rd[i + 1] /\ i \in Nat /\ i # 0
      /\ 1 \in DOMAIN rd /\ at = rd[1] /\ at \in Nat
  <2>1. DOMAIN r \subseteq Nat \ {0} /\ at \in Nat
    BY <1>1
  <2>2. QED  BY <1>1, <2>1, FewerReads
<1>5. /\ q.msg = p.msg /\ q.got = 0 /\ q.key = p.key /\ q.next = next
      /\ next = p.msg.len => q.st \in {"waiting", "garbled"}
      /\ next < p.msg.len => q.st = "sending"
      /\ next \in Nat \ {0} /\ next <= p.msg.len
  BY <1>1, <1>3, SMTT(30) DEF Taken, Peer
<1> HIDE DEF q, r, at, new, next
<1>6. InFlightBound(q, r, wr, t + 1)
  <2>1. t + 1 + Len(r) + Len(wr) = t + Len(rd) + Len(wr)
    BY <1>1, <1>4
  <2>2. QED  BY <1>5, <2>1 DEF Stream, InFlightBound
<1>7. size + b <= p.next /\ Fits(size, b + n)
  <2>1. CASE p.next = 0
    <3>1. size = 0 /\ b = 0
      BY <1>2, <2>1 DEF SendingStream, Quiet
    <3>2. n <= MAX_BUF_SIZE
      BY <1>1, <1>4 DEF at
    <3>3. QED  BY <1>1, <2>1, <3>1, <3>2 DEF Fits
  <2>2. CASE p.next # 0
    <3>1. size + b <= p.next
      BY <1>2, <2>2 DEF SendingStream, Arriving
    <3>2. Short => p.msg.len <= MAX_BUF_SIZE
      BY <1>3 DEF Short
    <3>3. QED  BY <1>1, <1>3, <3>1, <3>2 DEF Fits
  <2>3. QED  BY <2>1, <2>2
<1>8. /\ at = 0 /\ p.next = 0 => new = [head |-> p.msg, fill |-> n]
      /\ at = 0 /\ p.next # 0 => new = Zeroed
      /\ at # 0 /\ p.next # 0 => new.head = buf.head
      /\ at # 0 /\ p.next # 0 /\ buf.fill = at /\ at = p.next => new.fill = at + n
  BY <1>1, WrittenIs DEF new
<1>9. Arriving(q, r, size, new, b + n, known)
  <2>1. size + (b + n) <= next
    BY <1>1, <1>7 DEF next
  <2>2. CASE p.next = 0
    <3>1. size = 0 /\ b = 0 /\ Anew(rd)
      BY <1>2, <2>2 DEF SendingStream, Quiet
    <3>2. at = 0
      BY <1>4, <3>1 DEF Anew
    <3>3. new.head = p.msg /\ new.fill = n /\ next = n
      BY <1>1, <1>8, <2>2, <3>2 DEF next
    <3>4. known \subseteq {0, n} /\ b + n = n
      BY <1>1, <3>1
    <3>5. \A i \in DOMAIN r : r[i] = 0
      BY <1>4, <3>1 DEF Anew
    <3>6. InStep(r, new, b + n, known, next)
      BY <3>3, <3>4, <3>5 DEF InStep, Anew
    <3>7. QED  BY <1>5, <2>1, <3>3, <3>6 DEF Arriving
  <2>3. CASE p.next # 0
    <3>1. Arriving(p, rd, size, buf, b, sizes)
      BY <1>2, <2>3 DEF SendingStream
    <3>2. CASE at = 0 \/ buf.head = NoMessage
      BY <1>5, <1>8, <2>1, <2>3, <3>2 DEF Arriving, Zeroed
    <3>3. CASE at # 0 /\ buf.head = p.msg
      <4>1. buf.head # NoMessage
        BY <1>3, <3>3, MessageType
      <4>2. ASSUME size + (b + n) = next
            PROVE  InStep(r, new, b + n, known, next)
        <5>1. size + b = p.next
          <6>1. \A i, j, l \in Nat : i + (j + n) = l + n => i + j = l
            OBVIOUS
          <6>2. QED  BY <1>1, <4>2, <6>1, ZenonT(40) DEF next
        <5>2. InStep(rd, buf, b, sizes, p.next)
          BY <3>1, <4>1, <5>1 DEF Arriving
        <5>3. at = p.next /\ ~Anew(rd)
          BY <1>4, <3>3, <5>2 DEF InStep, Anew
        <5>4. b = 0 /\ buf.fill = p.next
          BY <1>1, <5>2, <5>3 DEF InStep
        <5>5. new.fill = next
          BY <1>8, <2>3, <3>3, <5>3, <5>4 DEF next
        <5>6. known \subseteq {0, b + n}
          BY <1>1, <5>4
        <5>7. \A i \in DOMAIN r : r[i] = 0
          <6>1. SUFFICES ASSUME NEW i \in DOMAIN r, r[i] # 0 PROVE FALSE
            OBVIOUS
          <6>2. rd[i + 1] # 0 /\ rd[1] # 0 /\ i + 1 \in DOMAIN rd /\ 1 \in DOMAIN rd
            BY <1>4, <3>3, <6>1
          <6>3. i + 1 = 1
            BY <5>2, <6>2 DEF InStep
          <6>4. QED  BY <1>4, <6>3
        <5>8. QED  BY <5>5, <5>6, <5>7 DEF InStep, Anew
      <4>3. QED  BY <1>5, <1>8, <2>1, <2>3, <3>3, <4>2 DEF Arriving
    <3>4. QED  BY <3>1, <3>2, <3>3 DEF Arriving
  <2>4. QED  BY <2>2, <2>3
<1>10. AsksFirst(q)
  BY <1>3, <1>5 DEF AsksFirst
<1>11. InOrder(q, r, wr, size, new, b + n, known)
  <2>1. CASE next = p.msg.len
    <3>1. CASE q.st = "waiting"
      BY <1>3, <1>5, <1>9, <1>10, <2>1, <3>1 DEF InOrder, WaitingStream
    <3>2. CASE q.st = "garbled"
      <4>1. Ended(q, size, new, b + n)
        BY <1>1, <1>3, <1>5, <1>9, <1>10, ArrivingEnds
      <4>2. QED  BY <3>2, <4>1 DEF InOrder
    <3>3. QED  BY <1>5, <2>1, <3>1, <3>2
  <2>2. CASE next # p.msg.len
    <3>1. next < p.msg.len
      BY <1>3, <1>5, <2>2
    <3>2. QED  BY <1>3, <1>5, <1>9, <1>10, <2>2, <3>1 DEF InOrder, SendingStream
  <2>3. QED  BY <2>1, <2>2
<1>12. QED  BY <1>6, <1>7, <1>11 DEF Stream, q, r, new, at

\* A peer that waits for nothing sends the next message.
LEMMA StreamSends ==
    ASSUME NEW p, NEW rd, NEW wr, NEW size, NEW buf, NEW b, NEW sizes, NEW t,
           StreamType(p, rd, wr, size, buf, b, sizes, t),
           Stream(p, rd, wr, size, buf, b, sizes, t),
           p.st = "idle", NEW m, m \in Messages, m.kind = "key" <=> p.key = NoKey
    PROVE  Stream([p EXCEPT !.st = "sending", !.msg = m, !.next = 0, !.got = 0],
                  rd, wr, size, buf, b, sizes, t)
<1> DEFINE q == [p EXCEPT !.st = "sending", !.msg = m, !.next = 0, !.got = 0]
<1>1. p \in Peer
  BY DEF StreamType
<1>2. q.st = "sending" /\ q.msg = m /\ q.next = 0 /\ q.got = 0 /\ q.key = p.key
  BY <1>1 DEF Peer
<1> HIDE DEF q
<1>3. Quiet(rd, size, b) /\ Settled(wr)
  BY DEF Stream, InOrder, SendingStream, WaitingStream
<1>4. 0 < m.len
  BY MessageType
<1>5. InOrder(q, rd, wr, size, buf, b, sizes)
  BY <1>2, <1>3, <1>4 DEF InOrder, SendingStream, AsksFirst
<1>6. InFlightBound(q, rd, wr, t)
  BY <1>2 DEF Stream, InFlightBound
<1>7. QED  BY <1>5, <1>6 DEF Stream, q

\* A peer closes or is gone.
LEMMA StreamCloses ==
    ASSUME NEW p, NEW rd, NEW wr, NEW size, NEW buf, NEW b, NEW sizes, NEW t,
           StreamType(p, rd, wr, size, buf, b, sizes, t),
           Stream(p, rd, wr, size, buf, b, sizes, t),
           NEW st, st \in {"fin", "reset"}
    PROVE  Stream([Nobody EXCEPT !.st = st, !.key = p.key], rd, wr, size, buf, b, sizes, t)
<1> DEFINE q == [Nobody EXCEPT !.st = st, !.key = p.key]
<1>1. q.st = st /\ q.key = p.key
  BY DEF Nobody
<1> HIDE DEF q
<1>2. Ended(p, size, buf, b)
  BY StreamIsEnded
<1>3. Ended(q, size, buf, b)
  BY <1>1, <1>2 DEF Ended
<1>4. InFlightBound(q, rd, wr, t)
  BY <1>1 DEF Stream, InFlightBound
<1>5. QED  BY <1>1, <1>3, <1>4 DEF Stream, InOrder, q

\* A write in flight has been transmitted.
LEMMA WriteSent ==
    ASSUME NEW wr \in Seq(Write), NEW i \in DOMAIN wr, NEW n, n \in Nat
    PROVE  LET r == [wr EXCEPT ![i] = [wr[i] EXCEPT !.n = n, !.sent = TRUE]] IN
           /\ Len(r) = Len(wr) /\ DOMAIN r = DOMAIN wr
           /\ Settled(wr) => Settled(r)
           /\ OneStarting(wr) => OneStarting(r)
           /\ OneStarting(wr) /\ Starting(wr, i) => Settled(r)
<1> DEFINE w == [wr[i] EXCEPT !.n = n, !.sent = TRUE]
           r == [wr EXCEPT ![i] = w]
<1>1. w \in Write /\ w.sent
  <2>1. wr[i] \in Write
    OBVIOUS
  <2>2. QED  BY <2>1 DEF Write
<1> HIDE DEF w
<1>2. Len(r) = Len(wr) /\ DOMAIN r = DOMAIN wr /\ r[i] = w /\ \A j \in DOMAIN wr : j # i => r[j] = wr[j]
  BY <1>1
<1> HIDE DEF r
<1>3. \A j \in DOMAIN r : Starting(r, j) => j # i /\ j \in DOMAIN wr /\ Starting(wr, j)
  BY <1>1, <1>2 DEF Starting
<1>4. QED  BY <1>2, <1>3 DEF Settled, OneStarting, r, w

\* n units of a write reach a peer: they are what it waits for, or it will never be
\* served again, or it reads them later.
LEMMA StreamTransmits ==
    ASSUME NEW p, NEW rd, NEW wr, NEW size, NEW buf, NEW b, NEW sizes, NEW t,
           StreamType(p, rd, wr, size, buf, b, sizes, t),
           Stream(p, rd, wr, size, buf, b, sizes, t),
           NEW i, i \in DOMAIN wr, ~wr[i].sent, NEW n, n \in 1 .. wr[i].n
    PROVE  Stream(Given(p, wr[i], n), rd, [wr EXCEPT ![i] = [wr[i] EXCEPT !.n = n, !.sent = TRUE]],
                  size, buf, b, sizes, t)
<1> DEFINE w == wr[i]
           q == Given(p, w, n)
           r == [wr EXCEPT ![i] = [wr[i] EXCEPT !.n = n, !.sent = TRUE]]
<1>1. /\ wr \in Seq(Write) /\ p \in Peer /\ w \in Write /\ wr # <<>> /\ n \in Nat \ {0}
      /\ n <= w.n /\ w.n \in Nat /\ p.got \in Nat
  <2>1. wr \in Seq(Write) /\ p \in Peer
    BY DEF StreamType
  <2>2. w \in Write /\ wr # <<>>
    BY <2>1
  <2>3. w.n \in Nat /\ p.got \in Nat
    BY <2>1, <2>2 DEF Write, Peer
  <2>4. n \in Nat \ {0} /\ n <= w.n
    BY <2>3
  <2>5. QED  BY <2>1, <2>2, <2>3, <2>4
<1>2. /\ Len(r) = Len(wr) /\ (Settled(wr) => Settled(r)) /\ (OneStarting(wr) => OneStarting(r))
      /\ OneStarting(wr) /\ w.first => Settled(r)
  BY <1>1, WriteSent DEF Starting
<1>3. ASSUME p.st = "waiting", Wanted(p, w)
      PROVE  /\ p.msg \in Messages /\ p.next = p.msg.len /\ Quiet(rd, size, b) /\ Settled(r)
  <2>1. WaitingStream(p, rd, wr, size, buf, b, sizes)
    BY <1>3 DEF Stream, InOrder, SendingStream
  <2>2. CASE p.got = 0
    <3>1. w.first
      BY <1>3, <2>2 DEF Wanted
    <3>2. ~Settled(wr)
      BY <3>1 DEF Settled, Starting
    <3> HIDE DEF w, r
    <3>3. QED  BY <1>2, <2>1, <3>1, <3>2 DEF WaitingStream
  <2>3. CASE p.got # 0
    <3> HIDE DEF w, r
    <3>1. QED  BY <1>2, <2>1, <2>3 DEF WaitingStream
  <2>4. QED  BY <2>2, <2>3
<1>4. InFlightBound(p, rd, r, t)
  BY <1>2 DEF Stream, InFlightBound
<1> HIDE DEF r
<1>5. ASSUME q.key = p.key, InOrder(q, rd, r, size, buf, b, sizes)
      PROVE  Stream(q, rd, r, size, buf, b, sizes, t)
  BY <1>4, <1>5 DEF Stream, InFlightBound
<1>6. CASE Wanted(p, w) /\ n < w.n
  <2>1. p.st = "waiting" /\ p.st \notin {"idle", "sending"} /\ n # w.n
    BY <1>1, <1>6 DEF Wanted
  <2>2. q = [p EXCEPT !.got = p.got + n]
    BY <1>6, <2>1, Zenon DEF Given
  <2>3. q.st = p.st /\ q.msg = p.msg /\ q.next = p.next /\ q.key = p.key
    BY <1>1, <2>2 DEF Peer
  <2> HIDE DEF q, w
  <2>4. InOrder(q, rd, r, size, buf, b, sizes)
    BY <1>3, <1>6, <2>1, <2>3 DEF InOrder, WaitingStream
  <2>5. QED  BY <1>5, <2>3, <2>4 DEF q, r, w
<1>7. CASE Wanted(p, w) /\ n = w.n
  <2>1. p.st = "waiting" /\ p.st \notin {"idle", "sending"} /\ ~(n < w.n)
    BY <1>1, <1>7 DEF Wanted
  <2>2. q = [Connected EXCEPT !.key = p.key]
    BY <1>7, <2>1, Zenon DEF Given
  <2>3. q.st = "idle" /\ q.key = p.key
    BY <2>2 DEF Connected, Nobody
  <2> HIDE DEF q, w
  <2>4. p.st = "waiting"
    BY <1>7 DEF Wanted
  <2>5. InOrder(q, rd, r, size, buf, b, sizes)
    BY <1>3, <1>7, <2>3, <2>4 DEF InOrder
  <2>6. QED  BY <1>5, <2>3, <2>5 DEF q, r, w
<1>8. CASE p.st = "waiting" /\ ~Wanted(p, w)
  <2>1. q = [p EXCEPT !.st = "garbled"]
    BY <1>8, Zenon DEF Given
  <2>2. q.st = "garbled" /\ q.key = p.key
    BY <1>1, <2>1 DEF Peer
  <2> HIDE DEF q, w
  <2>3. Ended(q, size, buf, b)
    BY <2>2, StreamIsEnded DEF Ended
  <2>4. InOrder(q, rd, r, size, buf, b, sizes)
    BY <2>2, <2>3 DEF InOrder
  <2>5. QED  BY <1>5, <2>2, <2>4 DEF q, r, w
<1>9. CASE p.st \in {"idle", "sending"}
  <2>1. p.st # "waiting" /\ ~Wanted(p, w)
    BY <1>9 DEF Wanted
  <2>2. q = [p EXCEPT !.junk = TRUE]
    BY <1>9, <2>1, Zenon DEF Given
  <2>3. q.st = p.st /\ q.msg = p.msg /\ q.next = p.next /\ q.got = p.got /\ q.key = p.key
    BY <1>1, <2>2 DEF Peer
  <2> HIDE DEF q, w
  <2>4. CASE p.st = "idle"
    <3>1. Quiet(rd, size, b) /\ Settled(wr)
      BY <2>4 DEF Stream, InOrder, SendingStream, WaitingStream
    <3>2. InOrder(q, rd, r, size, buf, b, sizes)
      BY <1>2, <2>3, <2>4, <3>1 DEF InOrder
    <3>3. QED  BY <1>5, <2>3, <3>2 DEF q, r, w
  <2>5. CASE p.st = "sending"
    <3>1. SendingStream(p, rd, wr, size, buf, b, sizes)
      BY <2>5 DEF Stream, InOrder, WaitingStream
    <3>2. SendingStream(q, rd, r, size, buf, b, sizes)
      BY <1>2, <2>3, <3>1 DEF SendingStream, Arriving, AsksFirst
    <3>3. InOrder(q, rd, r, size, buf, b, sizes)
      BY <3>2 DEF InOrder
    <3>4. QED  BY <1>5, <2>3, <3>3 DEF q, r, w
  <2>6. QED  BY <1>9, <2>4, <2>5
<1>10. CASE p.st \notin {"waiting", "idle", "sending"}
  <2>1. ~Wanted(p, w) /\ p.st # "waiting"
    BY <1>10 DEF Wanted
  <2>2. q = p
    BY <1>10, <2>1, Zenon DEF Given
  <2> HIDE DEF q, w
  <2>3. Ended(p, size, buf, b) /\ p.st \in {"fin", "reset", "garbled"}
    BY <1>1, <1>10 DEF Stream, InOrder, SendingStream, WaitingStream
  <2>4. InOrder(q, rd, r, size, buf, b, sizes)
    BY <2>2, <2>3 DEF InOrder
  <2>5. QED  BY <1>5, <2>2, <2>4 DEF q, r, w
<1>11. n < w.n \/ n = w.n
  BY <1>1
<1>12. QED  BY <1>6, <1>7, <1>8, <1>9, <1>10, <1>11

\* A write completes.
LEMMA StreamWritten ==
    ASSUME NEW p, NEW rd, NEW wr, NEW size, NEW buf, NEW b, NEW sizes, NEW t,
           StreamType(p, rd, wr, size, buf, b, sizes, t),
           Stream(p, rd, wr, size, buf, b, sizes, t),
           wr # <<>>, Head(wr).sent, NEW known, known \in SUBSET (sizes \cup {0})
    PROVE  Stream(p, rd, Tail(wr), size, buf, b, known, t + 1)
<1> DEFINE r == Tail(wr)
<1>1. wr \in Seq(Write) /\ rd \in Seq(Nat) /\ t \in Nat
  BY DEF StreamType
<1>2. /\ Len(r) = Len(wr) - 1 /\ Len(wr) \in Nat \ {0} /\ Len(rd) \in Nat
      /\ Head(wr) = wr[1] /\ 1 \in DOMAIN wr
      /\ \A i \in DOMAIN r : i + 1 \in DOMAIN wr /\ r[i] = wr[i + 1] /\ i \in Nat
      /\ r # <<>> \/ Len(wr) = 1
  <2>1. /\ Len(r) = Len(wr) - 1 /\ Len(wr) \in Nat \ {0} /\ Len(rd) \in Nat
        /\ Head(wr) = wr[1] /\ 1 \in DOMAIN wr
    BY <1>1
  <2>2. \A i \in DOMAIN r : i + 1 \in DOMAIN wr /\ r[i] = wr[i + 1] /\ i \in Nat
    BY <1>1
  <2>3. Len(<<>>) = 0
    OBVIOUS
  <2> HIDE DEF r
  <2>4. r # <<>> \/ Len(wr) = 1
    BY <2>1, <2>3
  <2>5. QED  BY <2>1, <2>2, <2>4
<1> HIDE DEF r
<1>3. InFlightBound(p, rd, r, t + 1)
  <2>1. t + 1 + Len(rd) + Len(r) = t + Len(rd) + Len(wr)
    BY <1>1, <1>2
  <2>2. QED  BY <2>1 DEF Stream, InFlightBound
<1>4. \A j \in DOMAIN r : Starting(r, j) => j + 1 \in DOMAIN wr /\ Starting(wr, j + 1)
  BY <1>2 DEF Starting
<1>5. (Settled(wr) => Settled(r)) /\ (OneStarting(wr) => OneStarting(r))
  <2>1. ASSUME OneStarting(wr), NEW i \in DOMAIN r, NEW j \in DOMAIN r, Starting(r, i), Starting(r, j)
        PROVE  i = j
    <3>1. i + 1 = j + 1
      BY <1>4, <2>1 DEF OneStarting
    <3>2. i \in Nat /\ j \in Nat
      BY <1>2
    <3>3. QED  BY <3>1, <3>2
  <2>2. QED  BY <1>4, <2>1 DEF Settled, OneStarting
<1>6. \A next : InStep(rd, buf, b, sizes, next) => InStep(rd, buf, b, known, next)
  BY DEF InStep
<1>7. Arriving(p, rd, size, buf, b, sizes) => Arriving(p, rd, size, buf, b, known)
  BY <1>6 DEF Arriving
<1>8. InOrder(p, rd, r, size, buf, b, known)
  BY <1>2, <1>5, <1>7 DEF Stream, InOrder, SendingStream, WaitingStream
<1>9. QED  BY <1>3, <1>8 DEF Stream, r

\* What is counted as a whole message is one, asked by a peer that waits for its
\* answer or reads nothing any more, with no other read behind its parts and no answer on
\* its way.
Arrived(p, rd, wr, buf) ==
    /\ buf.head \in Messages /\ buf.fill = buf.head.len
    /\ buf.head.kind = "key" => p.key = NoKey
    /\ \/ /\ p.st = "waiting" /\ p.msg = buf.head /\ p.got = 0 /\ p.next = p.msg.len
          /\ Anew(rd) /\ Settled(wr)
       \/ p.st \in {"fin", "reset", "garbled", "none"} /\ (p.st = "none" => wr = <<>>)

\* A packet that makes the counted bytes as long as the message at the start of the
\* buffer is the last of that message.
LEMMA StreamArrives ==
    ASSUME NEW p, NEW rd, NEW wr, NEW size, NEW buf, NEW b, NEW sizes, NEW t,
           StreamType(p, rd, wr, size, buf, b, sizes, t),
           Stream(p, rd, wr, size, buf, b, sizes, t),
           NEW n, n \in sizes, n # 0, buf.head.len = size + n
    PROVE  b = n /\ Arrived(p, rd, wr, buf)
<1>1. /\ size \in Nat /\ b \in Nat /\ n \in Nat \ {0} /\ n <= b /\ buf \in Buffer /\ p.next \in Nat
      /\ sizes \subseteq 0 .. b
  <2>1. /\ size \in Nat /\ b \in Nat /\ n \in 0 .. b /\ buf \in Buffer /\ p \in Peer
        /\ sizes \subseteq 0 .. b
    BY DEF StreamType
  <2>2. p.next \in Nat
    BY <2>1 DEF Peer
  <2>3. QED  BY <2>1, <2>2
<1>2. buf.head # NoMessage /\ buf.head \in Messages /\ ~Quiet(rd, size, b)
  BY <1>1, MessageType DEF Quiet
<1>3. CASE /\ Ended(p, size, buf, b) /\ p.st \in {"fin", "reset", "garbled", "none"}
           /\ (p.st = "none" => wr = <<>>)
  <2>1. size + b <= size + n
    BY <1>2, <1>3 DEF Ended
  <2>2. b = n
    BY <1>1, <2>1
  <2>3. QED  BY <1>2, <1>3, <2>2 DEF Ended, Arrived
<1>4. CASE /\ p.msg \in Messages /\ p.next <= p.msg.len /\ AsksFirst(p)
           /\ Arriving(p, rd, size, buf, b, sizes)
           /\ Settled(wr) /\ p.got = 0 /\ p.st \in {"sending", "waiting"}
           /\ p.next < p.msg.len \/ p.st = "waiting"
  <2>1. buf.head = p.msg /\ size + b <= p.next /\ p.msg.len \in Nat
    BY <1>2, <1>4, MessageType DEF Arriving
  <2>2. size + b = p.next /\ p.next = p.msg.len /\ b = n
    BY <1>1, <1>4, <2>1
  <2>3. InStep(rd, buf, b, sizes, p.next)
    BY <1>2, <1>4, <2>2 DEF Arriving
  <2>4. Anew(rd) /\ buf.fill = p.msg.len
    BY <1>1, <2>2, <2>3 DEF InStep
  <2>5. p.st = "waiting"
    BY <1>4, <2>1, <2>2
  <2>6. QED  BY <1>2, <1>4, <2>1, <2>2, <2>4, <2>5 DEF AsksFirst, Arrived
<1>5. \A m \in Messages : m.len \in Nat
  BY MessageType
<1>6. CASE SendingStream(p, rd, wr, size, buf, b, sizes)
  <2>1. p.next < p.msg.len => p.next <= p.msg.len
    BY <1>1, <1>5, <1>6 DEF SendingStream
  <2>2. QED  BY <1>2, <1>4, <1>6, <2>1 DEF SendingStream
<1>7. CASE WaitingStream(p, rd, wr, size, buf, b, sizes)
  <2>1. p.next = p.msg.len => p.next <= p.msg.len
    BY <1>1
  <2>2. QED  BY <1>2, <1>4, <1>7, <2>1 DEF WaitingStream
<1>8. QED  BY <1>2, <1>3, <1>6, <1>7 DEF Stream, InOrder

\* After a message that is not answered, or whose peer has gone.
LEMMA StreamIgnores ==
    ASSUME NEW p, NEW rd, NEW wr, NEW size, NEW buf, NEW b, NEW sizes, NEW t,
           StreamType(p, rd, wr, size, buf, b, sizes, t),
           Stream(p, rd, wr, size, buf, b, sizes, t),
           Arrived(p, rd, wr, buf), t # 0, NEW known, known \in SUBSET {0}
    PROVE  Stream(p, rd, wr, 0, buf, 0, known, t - 1)
<1>1. t - 1 \in Nat /\ t \in Nat /\ Len(rd) \in Nat /\ Len(wr) \in Nat
  BY DEF StreamType
<1>2. InFlightBound(p, rd, wr, t - 1)
  <2>1. t - 1 + Len(rd) + Len(wr) <= t + Len(rd) + Len(wr)
    BY <1>1
  <2>2. \A i \in {1, 2} : t + Len(rd) + Len(wr) <= i => t - 1 + Len(rd) + Len(wr) <= i
    BY <1>1
  <2>3. QED  BY <2>2 DEF Stream, InFlightBound
<1>3. Fits(0, 0)
  BY WinsockAssumption DEF Fits
<1>4. Ended(p, 0, buf, 0)
  BY MessageType DEF Arrived, Ended
<1>5. InOrder(p, rd, wr, 0, buf, 0, known)
  BY <1>4 DEF Arrived, InOrder, WaitingStream, Quiet
<1>6. QED  BY <1>2, <1>3, <1>5 DEF Stream

\* One write more: of an answer, or of what a completion left of one.
NewWrite(n, first) == [n |-> n, first |-> first, sent |-> FALSE]

LEMMA OneMoreWrite ==
    ASSUME NEW wr \in Seq(Write), NEW n \in Nat, NEW first \in BOOLEAN
    PROVE  LET r == Append(wr, NewWrite(n, first)) IN
           /\ Len(r) = Len(wr) + 1 /\ Len(wr) \in Nat
           /\ Settled(wr) => OneStarting(r)
           /\ ~first => (Settled(wr) => Settled(r)) /\ (OneStarting(wr) => OneStarting(r))
<1> DEFINE w == NewWrite(n, first)
           r == Append(wr, w)
<1>1. w \in Write /\ ~w.sent /\ (w.first <=> first)
  BY DEF Write, NewWrite
<1> HIDE DEF w
<1>2. /\ Len(r) = Len(wr) + 1 /\ Len(wr) \in Nat
      /\ \A i \in DOMAIN r : \/ i = Len(wr) + 1 /\ r[i] = w
                             \/ i \in DOMAIN wr /\ r[i] = wr[i]
  BY <1>1
<1> HIDE DEF r
<1>3. \A i \in DOMAIN r : Starting(r, i) => \/ i = Len(wr) + 1 /\ first
                                            \/ i \in DOMAIN wr /\ Starting(wr, i)
  BY <1>1, <1>2 DEF Starting
<1>4. Settled(wr) => OneStarting(r)
  BY <1>3 DEF Settled, OneStarting
<1>5. ~first => (Settled(wr) => Settled(r)) /\ (OneStarting(wr) => OneStarting(r))
  BY <1>3 DEF Settled, OneStarting
<1>6. QED  BY <1>2, <1>4, <1>5 DEF r, w

\* After a message that is answered: the peer waits for that answer alone.
LEMMA StreamAnswers ==
    ASSUME NEW p, NEW rd, NEW wr, NEW size, NEW buf, NEW b, NEW sizes, NEW t,
           StreamType(p, rd, wr, size, buf, b, sizes, t),
           Stream(p, rd, wr, size, buf, b, sizes, t),
           Arrived(p, rd, wr, buf), t # 0, p.st \notin {"none", "reset"},
           NEW known, known \in SUBSET {0}, NEW n, n \in Nat
    PROVE  Stream(p, rd, Append(wr, NewWrite(n, TRUE)), 0, buf, 0, known, t - 1)
<1> DEFINE r == Append(wr, NewWrite(n, TRUE))
<1>1. t \in Nat /\ Len(rd) \in Nat /\ wr \in Seq(Write)
  BY DEF StreamType
<1>2. Len(r) = Len(wr) + 1 /\ Len(wr) \in Nat /\ (Settled(wr) => OneStarting(r))
  BY <1>1, OneMoreWrite
<1> HIDE DEF r
<1>3. InFlightBound(p, rd, r, t - 1)
  <2>1. t - 1 + Len(rd) + Len(r) = t + Len(rd) + Len(wr)
    BY <1>1, <1>2
  <2>2. QED  BY <2>1 DEF Stream, InFlightBound
<1>4. Fits(0, 0)
  BY WinsockAssumption DEF Fits
<1>5. Ended(p, 0, buf, 0)
  BY MessageType DEF Arrived, Ended
<1>6. InOrder(p, rd, r, 0, buf, 0, known)
  BY <1>2, <1>5 DEF Arrived, InOrder, WaitingStream, Quiet
<1>7. QED  BY <1>3, <1>4, <1>6 DEF Stream, r

\* After a key request the peer has a key, and the next message is read for too.
LEMMA StreamAnswersKey ==
    ASSUME NEW p, NEW rd, NEW wr, NEW size, NEW buf, NEW b, NEW sizes, NEW t,
           StreamType(p, rd, wr, size, buf, b, sizes, t),
           Stream(p, rd, wr, size, buf, b, sizes, t),
           Arrived(p, rd, wr, buf), t # 0, p.st \notin {"none", "reset"},
           NEW known, known \in SUBSET {0}, NEW n, n \in Nat,
           buf.head.kind = "key", NEW x, x \in Handles
    PROVE  Stream([p EXCEPT !.key = x], Append(rd, 0), Append(wr, NewWrite(n, TRUE)),
                  0, buf, 0, known, t - 1)
<1> DEFINE r == Append(wr, NewWrite(n, TRUE))
           o == Append(rd, 0)
           q == [p EXCEPT !.key = x]
<1>1. t \in Nat /\ rd \in Seq(Nat) /\ wr \in Seq(Write) /\ p \in Peer
  BY DEF StreamType
<1>2. Len(r) = Len(wr) + 1 /\ Len(wr) \in Nat /\ (Settled(wr) => OneStarting(r))
  BY <1>1, OneMoreWrite
<1>3. Len(o) = Len(rd) + 1 /\ Len(rd) \in Nat /\ (Anew(rd) => Anew(o))
  BY <1>1 DEF Anew
<1>4. q.key = x /\ x # NoKey /\ q.st = p.st /\ q.msg = p.msg /\ q.got = p.got /\ q.next = p.next
  BY <1>1, WinsockAssumption DEF Peer
<1> HIDE DEF r, o, q
<1>5. InFlightBound(q, o, r, t - 1)
  <2>1. t + Len(rd) + Len(wr) <= 1
    BY DEF Stream, InFlightBound, Arrived
  <2>2. t - 1 + Len(o) + Len(r) <= 2
    BY <1>1, <1>2, <1>3, <2>1
  <2>3. QED  BY <1>4, <2>2 DEF InFlightBound
<1>6. Fits(0, 0)
  BY WinsockAssumption DEF Fits
<1>7. Ended(q, 0, buf, 0)
  BY MessageType DEF Arrived, Ended
<1>8. InOrder(q, o, r, 0, buf, 0, known)
  BY <1>2, <1>3, <1>4, <1>7 DEF Arrived, InOrder, WaitingStream, Quiet
<1>9. QED  BY <1>5, <1>6, <1>8 DEF Stream, r, o, q

\* A completion left some of the counted answer: that is written, behind what is in
\* flight, and starts no answer.
LEMMA StreamResends ==
    ASSUME NEW p, NEW rd, NEW wr, NEW size, NEW buf, NEW b, NEW sizes, NEW t,
           StreamType(p, rd, wr, size, buf, b, sizes, t),
           Stream(p, rd, wr, size, buf, b, sizes, t), t # 0,
           NEW known, known \in SUBSET (sizes \cup {0}),
           NEW n, n \in Nat, NEW r, r = wr \/ (p.st # "none" /\ r = Append(wr, NewWrite(n, FALSE)))
    PROVE  Stream(p, rd, r, size, buf, b, known, t - 1)
<1>1. t \in Nat /\ Len(rd) \in Nat /\ wr \in Seq(Write) /\ t - 1 \in Nat /\ t - 1 <= t
  BY DEF StreamType
<1>2. Stream(p, rd, wr, size, buf, b, known, t - 1)
  BY <1>1, StreamKept
<1>3. CASE r = Append(wr, NewWrite(n, FALSE)) /\ p.st # "none"
  <2>1. /\ Len(r) = Len(wr) + 1 /\ Len(wr) \in Nat
        /\ (Settled(wr) => Settled(r)) /\ (OneStarting(wr) => OneStarting(r))
    BY <1>1, <1>3, OneMoreWrite
  <2>2. InFlightBound(p, rd, r, t - 1)
    <3>1. t - 1 + Len(rd) + Len(r) = t + Len(rd) + Len(wr)
      BY <1>1, <2>1
    <3>2. QED  BY <3>1 DEF Stream, InFlightBound
  <2>3. InOrder(p, rd, r, size, buf, b, known)
    BY <1>2, <1>3, <2>1 DEF Stream, InOrder, SendingStream, WaitingStream
  <2>4. QED  BY <1>2, <2>2, <2>3 DEF Stream
<1>4. QED  BY <1>2, <1>3

\* One read more.
LEMMA OneMoreRead ==
    ASSUME NEW rd \in Seq(Nat), NEW at \in Nat
    PROVE  LET r == Append(rd, at) IN
           /\ Len(r) = Len(rd) + 1 /\ Len(rd) \in Nat
           /\ \A i \in DOMAIN r : \/ i = Len(r) /\ r[i] = at
                                  \/ i \in DOMAIN rd /\ r[i] = rd[i]
  OBVIOUS

\* A part of a message, n units, is counted: a read behind it is posted, or none where
\* the socket is no longer good for one.
Counting(rd, size, b, sizes, t, n, known, r) ==
    /\ n \in sizes /\ n # 0 /\ t # 0
    /\ known \in SUBSET (sizes \cup {0}) /\ known \subseteq 0 .. b - n
    /\ r \in {rd, Append(rd, size + n)}

LEMMA StreamCounts ==
    ASSUME NEW p, NEW rd, NEW wr, NEW size, NEW buf, NEW b, NEW sizes, NEW t,
           StreamType(p, rd, wr, size, buf, b, sizes, t),
           Stream(p, rd, wr, size, buf, b, sizes, t),
           NEW n, NEW known, NEW r, Counting(rd, size, b, sizes, t, n, known, r)
    PROVE  Stream(p, r, wr, size + n, buf, b - n, known, t - 1)
<1> USE DEF Counting
<1>1. /\ size \in Nat /\ b \in Nat /\ n \in Nat \ {0} /\ n <= b /\ buf \in Buffer /\ p.next \in Nat
      /\ t \in Nat /\ rd \in Seq(Nat) /\ Len(rd) \in Nat /\ Len(wr) \in Nat
  <2>1. /\ size \in Nat /\ b \in Nat /\ n \in 0 .. b /\ buf \in Buffer /\ p \in Peer
        /\ t \in Nat /\ rd \in Seq(Nat) /\ wr \in Seq(Write)
    BY DEF StreamType
  <2>2. p.next \in Nat
    BY <2>1 DEF Peer
  <2>3. QED  BY <2>1, <2>2
<1>2. size + n + (b - n) = size + b /\ size + n \in Nat
  BY <1>1
<1>3. /\ Len(r) <= Len(rd) + 1 /\ Len(r) \in Nat
      /\ \A i \in DOMAIN r : r[i] = size + n \/ (i \in DOMAIN rd /\ r[i] = rd[i])
      /\ \A i \in DOMAIN r : i \in DOMAIN rd \/ i = Len(r)
      /\ r = rd \/ \A i \in DOMAIN r : i = Len(r) \/ (i \in DOMAIN rd /\ r[i] = rd[i])
  <2>1. CASE r = rd
    BY <1>1, <2>1
  <2>2. CASE r = Append(rd, size + n)
    BY <1>1, <1>2, <2>2, OneMoreRead
  <2>3. QED  BY <2>1, <2>2
<1>4. InFlightBound(p, r, wr, t - 1)
  <2>1. \A i \in {1, 2} : t + Len(rd) + Len(wr) <= i => t - 1 + Len(r) + Len(wr) <= i
    BY <1>1, <1>3
  <2>2. QED  BY <2>1 DEF Stream, InFlightBound
<1>5. Fits(size + n, b - n)
  BY <1>2 DEF Stream, Fits
<1>6. ~Quiet(rd, size, b)
  BY <1>1 DEF Quiet
<1>7. Ended(p, size, buf, b) => Ended(p, size + n, buf, b - n)
  BY <1>2 DEF Ended
<1>8. ASSUME Arriving(p, rd, size, buf, b, sizes)
      PROVE  Arriving(p, r, size + n, buf, b - n, known)
  <2>1. ASSUME InStep(rd, buf, b, sizes, p.next), size + b = p.next
        PROVE  InStep(r, buf, b - n, known, p.next)
    <3>1. n = b /\ b - n = 0 /\ size + n = p.next
      BY <1>1, <2>1 DEF InStep
    <3>2. Anew(rd)
      BY <1>1, <2>1 DEF InStep
    <3>3. known \subseteq {0, b - n} /\ ~(b - n > 0)
      BY <3>1
    <3>4. \A i \in DOMAIN r : r[i] \in {0, p.next}
      BY <1>3, <3>1, <3>2 DEF Anew
    <3>5. \A i \in DOMAIN r : r[i] # 0 => i = Len(r)
      BY <1>3, <3>2 DEF Anew
    <3>6. QED  BY <2>1, <3>3, <3>4, <3>5 DEF InStep
  <2>2. QED  BY <1>2, <1>8, <2>1 DEF Arriving
<1>9. InOrder(p, r, wr, size + n, buf, b - n, known)
  BY <1>6, <1>7, <1>8 DEF Stream, InOrder, SendingStream, WaitingStream, Quiet
<1>10. QED  BY <1>4, <1>5, <1>9 DEF Stream

\* After an answer is written: what was counted is dropped, and the start of the buffer
\* is read into.  Unless nothing was counted, the stream is out of step from here on.
LEMMA StreamReadsAnew ==
    ASSUME NEW p, NEW rd, NEW wr, NEW size, NEW buf, NEW b, NEW sizes, NEW t,
           StreamType(p, rd, wr, size, buf, b, sizes, t),
           Stream(p, rd, wr, size, buf, b, sizes, t), t # 0,
           NEW known, known \in SUBSET (sizes \cup {0}), NEW r, r \in {rd, Append(rd, 0)}
    PROVE  Stream(p, r, wr, 0, buf, b, known, t - 1)
<1>1. /\ size \in Nat /\ b \in Nat /\ buf \in Buffer /\ p.next \in Nat
      /\ t \in Nat /\ rd \in Seq(Nat) /\ Len(rd) \in Nat /\ Len(wr) \in Nat
  <2>1. /\ size \in Nat /\ b \in Nat /\ buf \in Buffer /\ p \in Peer
        /\ t \in Nat /\ rd \in Seq(Nat) /\ wr \in Seq(Write)
    BY DEF StreamType
  <2>2. p.next \in Nat
    BY <2>1 DEF Peer
  <2>3. QED  BY <2>1, <2>2
<1>2. /\ Len(r) <= Len(rd) + 1 /\ Len(r) \in Nat
      /\ \A i \in DOMAIN r : r[i] = 0 \/ (i \in DOMAIN rd /\ r[i] = rd[i])
  <2>1. CASE r = rd
    BY <1>1, <2>1
  <2>2. CASE r = Append(rd, 0)
    BY <1>1, <2>2, OneMoreRead
  <2>3. QED  BY <2>1, <2>2
<1>3. InFlightBound(p, r, wr, t - 1)
  <2>1. \A i \in {1, 2} : t + Len(rd) + Len(wr) <= i => t - 1 + Len(r) + Len(wr) <= i
    BY <1>1, <1>2
  <2>2. QED  BY <2>1 DEF Stream, InFlightBound
<1>4. Fits(0, b)
  BY <1>1, WinsockAssumption DEF Stream, Fits
<1>5. Anew(rd) => Anew(r)
  BY <1>2 DEF Anew
<1>6. ASSUME Ended(p, size, buf, b) PROVE Ended(p, 0, buf, b)
  <2>1. buf.head = NoMessage \/ (0 + b <= buf.head.len /\ (0 + b = buf.head.len => size = 0))
    BY <1>1, <1>6, MessageType DEF Ended
  <2>2. QED  BY <1>6, <2>1 DEF Ended
<1>7. ASSUME Arriving(p, rd, size, buf, b, sizes)
      PROVE  Arriving(p, r, 0, buf, b, known)
  <2>1. 0 + b <= p.next /\ (0 + b = p.next => size + b = p.next)
    BY <1>1, <1>7 DEF Arriving
  <2>2. ASSUME InStep(rd, buf, b, sizes, p.next)
        PROVE  InStep(r, buf, b, known, p.next)
    <3>1. known \subseteq {0, b}
      BY <2>2 DEF InStep
    <3>2. \A i \in DOMAIN r : r[i] \in {0, p.next}
      BY <1>2, <2>2 DEF InStep
    <3>3. \A i, j \in DOMAIN r : r[i] # 0 /\ r[j] # 0 => i = j
      BY <1>2, <2>2 DEF InStep
    <3>4. QED  BY <1>5, <2>2, <3>1, <3>2, <3>3 DEF InStep
  <2>3. QED  BY <1>7, <2>1, <2>2 DEF Arriving
<1>8. Quiet(rd, size, b) => Quiet(r, 0, b)
  BY <1>5 DEF Quiet
<1>9. InOrder(p, r, wr, 0, buf, b, known)
  BY <1>6, <1>7, <1>8 DEF Stream, InOrder, SendingStream, WaitingStream
<1>10. QED  BY <1>3, <1>4, <1>9 DEF Stream

(***************************************************************************)
(* What the port holds for the client of slot k: t packets of its reads    *)
(* and writes, with b bytes, each packet with a number of bytes in sizes.  *)
(***************************************************************************)
Present(p, k) == p.op \in {"recv", "send"} /\ p.key = k /\ ~p.stale
Bytes(k) == [p \in Packet |-> IF Present(p, k) /\ p.op = "recv" THEN p.n ELSE 0]
Ops(k) == [p \in Packet |-> IF Present(p, k) THEN 1 ELSE 0]
Sizes(q, k) == {Bytes(k)[q[i]] : i \in DOMAIN q}

InPort(q, k, b, sizes, t) ==
    Sums(q, Bytes(k), b) /\ Sums(q, Ops(k), t) /\ sizes = Sizes(q, k)

LEMMA WeightsType ==
    ASSUME NEW k
    PROVE  /\ Bytes(k) \in [Packet -> Nat] /\ Ops(k) \in [Packet -> Nat]
           /\ \A p \in Packet : Bytes(k)[p] # 0 => Ops(k)[p] = 1
           /\ \A p \in Packet : Ops(k)[p] \in {0, 1}
<1>1. \A p \in Packet : p.n \in Nat
  BY DEF Packet
<1>2. QED  BY <1>1 DEF Bytes, Ops, Present

LEMMA InPortType ==
    ASSUME NEW q \in Seq(Packet), NEW k, NEW b, NEW sizes, NEW t, InPort(q, k, b, sizes, t)
    PROVE  b \in Nat /\ t \in Nat /\ sizes \subseteq 0 .. b
<1>1. Sums(q, Bytes(k), b) /\ Sums(q, Ops(k), t) /\ sizes = Sizes(q, k)
  BY DEF InPort
<1>2. b \in Nat /\ \A i \in DOMAIN q : Bytes(k)[q[i]] \in 0 .. b
  BY <1>1, WeightsType, SumsBound
<1>3. t \in Nat
  BY <1>1, WeightsType, SumsBound
<1>4. QED  BY <1>1, <1>2, <1>3 DEF Sizes

\* The thread takes a packet.
LEMMA InPortTail ==
    ASSUME NEW q \in Seq(Packet), q # <<>>, NEW k, NEW b, NEW sizes, NEW t,
           InPort(q, k, b, sizes, t)
    PROVE  LET n == Bytes(k)[Head(q)]
               o == Ops(k)[Head(q)]
           IN  /\ n \in sizes /\ o <= t
               /\ \E known \in SUBSET sizes :
                     known \subseteq 0 .. b - n /\ InPort(Tail(q), k, b - n, known, t - o)
<1> DEFINE n == Bytes(k)[Head(q)]
           o == Ops(k)[Head(q)]
           known == Sizes(Tail(q), k)
<1>1. Sums(q, Bytes(k), b) /\ Sums(q, Ops(k), t) /\ sizes = Sizes(q, k)
  BY DEF InPort
<1>2. Sums(Tail(q), Bytes(k), b - n)
  BY <1>1, WeightsType, SumsTail
<1>3. o <= t /\ Sums(Tail(q), Ops(k), t - o)
  BY <1>1, WeightsType, SumsTail
<1>4. /\ 1 \in DOMAIN q /\ Head(q) = q[1] /\ Tail(q) \in Seq(Packet)
      /\ \A i \in DOMAIN Tail(q) : i + 1 \in DOMAIN q /\ Tail(q)[i] = q[i + 1]
  OBVIOUS
<1>5. n \in sizes /\ known \subseteq sizes
  BY <1>1, <1>4 DEF Sizes
<1>6. InPort(Tail(q), k, b - n, known, t - o)
  BY <1>2, <1>3 DEF InPort
<1>7. known \subseteq 0 .. b - n
  BY <1>4, <1>6, InPortType
<1>8. QED  BY <1>3, <1>5, <1>6, <1>7

\* The kernel queues the packet of a read or a write.
LEMMA InPortAppend ==
    ASSUME NEW q \in Seq(Packet), NEW k, NEW b, NEW sizes, NEW t, InPort(q, k, b, sizes, t),
           NEW p \in Packet
    PROVE  \E known \in SUBSET (sizes \cup {Bytes(k)[p]}) :
               InPort(Append(q, p), k, b + Bytes(k)[p], known, t + Ops(k)[p])
<1> DEFINE known == Sizes(Append(q, p), k)
<1>1. Sums(q, Bytes(k), b) /\ Sums(q, Ops(k), t) /\ sizes = Sizes(q, k)
  BY DEF InPort
<1>2. Sums(Append(q, p), Bytes(k), b + Bytes(k)[p]) /\ Sums(Append(q, p), Ops(k), t + Ops(k)[p])
  BY <1>1, WeightsType, SumsAppend
<1>3. \A i \in DOMAIN Append(q, p) :
         Append(q, p)[i] = p \/ (i \in DOMAIN q /\ Append(q, p)[i] = q[i])
  OBVIOUS
<1>4. known \subseteq sizes \cup {Bytes(k)[p]}
  BY <1>1, <1>3 DEF Sizes
<1>5. QED  BY <1>2, <1>4 DEF InPort

\* Packets that are none of the client's reads and writes are queued.
LEMMA InPortMore ==
    ASSUME NEW q \in Seq(Packet), NEW k, NEW b, NEW sizes, NEW t, InPort(q, k, b, sizes, t),
           NEW r \in Seq(Packet), \A i \in DOMAIN r : ~Present(r[i], k)
    PROVE  \E known \in SUBSET (sizes \cup {0}) : InPort(q \o r, k, b, known, t)
<1> DEFINE known == Sizes(q \o r, k)
<1>1. Sums(q, Bytes(k), b) /\ Sums(q, Ops(k), t) /\ sizes = Sizes(q, k)
  BY DEF InPort
<1>2. \A i \in DOMAIN r : r[i] \in Packet /\ Bytes(k)[r[i]] = 0 /\ Ops(k)[r[i]] = 0
  <2>1. \A i \in DOMAIN r : r[i] \in Packet
    OBVIOUS
  <2>2. QED  BY <2>1 DEF Bytes, Ops
<1>3. Sums(q \o r, Bytes(k), b) /\ Sums(q \o r, Ops(k), t)
  BY <1>1, <1>2, WeightsType, SumsMore
<1>4. ASSUME NEW i \in DOMAIN (q \o r)
      PROVE  \/ i \in DOMAIN q /\ (q \o r)[i] = q[i]
             \/ \E j \in DOMAIN r : (q \o r)[i] = r[j]
  <2>1. CASE i \in DOMAIN q
    BY <2>1
  <2>2. CASE i \notin DOMAIN q
    <3>1. i - Len(q) \in DOMAIN r /\ (q \o r)[i] = r[i - Len(q)]
      BY <1>4, <2>2
    <3>2. QED  BY <3>1
  <2>3. QED  BY <2>1, <2>2
<1>5. known \subseteq sizes \cup {0}
  BY <1>1, <1>2, <1>4 DEF Sizes
<1>6. QED  BY <1>3, <1>5 DEF InPort

\* The packets of another slot are marked.
LEMMA InPortSame ==
    ASSUME NEW q \in Seq(Packet), NEW k, NEW b, NEW sizes, NEW t, InPort(q, k, b, sizes, t),
           NEW r, DOMAIN r = DOMAIN q, Len(r) = Len(q),
           \A i \in DOMAIN q : Bytes(k)[r[i]] = Bytes(k)[q[i]] /\ Ops(k)[r[i]] = Ops(k)[q[i]]
    PROVE  InPort(r, k, b, sizes, t)
<1>1. Sums(q, Bytes(k), b) /\ Sums(q, Ops(k), t) /\ sizes = Sizes(q, k)
  BY DEF InPort
<1>2. Sums(r, Bytes(k), b) /\ Sums(r, Ops(k), t)
  BY <1>1, SumsSame
<1>3. Sizes(r, k) = Sizes(q, k)
  BY DEF Sizes
<1>4. QED  BY <1>1, <1>2, <1>3 DEF InPort

\* A port with no packet of the client.
LEMMA InPortNone ==
    ASSUME NEW q \in Seq(Packet), NEW k, \A i \in DOMAIN q : ~Present(q[i], k)
    PROVE  \E known \in SUBSET {0} : InPort(q, k, 0, known, 0)
<1> DEFINE known == Sizes(q, k)
<1>1. \A i \in DOMAIN q : q[i] \in Packet /\ Bytes(k)[q[i]] = 0 /\ Ops(k)[q[i]] = 0
  <2>1. \A i \in DOMAIN q : q[i] \in Packet
    OBVIOUS
  <2>2. QED  BY <2>1 DEF Bytes, Ops
<1>2. Sums(q, Bytes(k), 0) /\ Sums(q, Ops(k), 0)
  BY <1>1, WeightsType, SumsNothing
<1>3. known \subseteq {0}
  BY <1>1 DEF Sizes
<1>4. QED  BY <1>2, <1>3 DEF InPort

(***************************************************************************)
(* The invariant.  A slot no stale packet was handled for is in step with  *)
(* its peer, or is free with nothing counted; and a peer nobody serves has *)
(* not been read from.                                                     *)
(***************************************************************************)
Talks(k) == \E b, sizes, t :
    /\ InPort(port, k, b, sizes, t)
    /\ Stream(peer[clients[k].socket], reads[clients[k].socket], writes[clients[k].socket],
              clients[k].recvBufSize, recvBuf[k], b, sizes, t)

\* The remote end of a socket that is not read from yet, or not any more.
Unheard(p) ==
    /\ p.st \in {"none", "idle", "sending", "fin", "reset"}
    /\ p.st = "sending" => p.msg \in Messages /\ p.next = 0 /\ p.got = 0 /\ AsksFirst(p)

Talking ==
    /\ \A k \in Keys \ hit : Occupied(k) => Talks(k)
    /\ \A k \in Keys \ hit : ~Occupied(k) => clients[k].recvBufSize = 0
    /\ \A h \in Handles : Stranger(h) => Unheard(peer[h])

Streaming == Accepts /\ (NoLeak => Talking)

\* Queue r has the same reads and writes of slot k as q, or fewer empty ones.
Kept(q, r, k) ==
    \A b, sizes, t : InPort(q, k, b, sizes, t) =>
        \E known \in SUBSET (sizes \cup {0}), u \in Nat : u <= t /\ InPort(r, k, b, known, u)

LEMMA KeptSame ==
    ASSUME NEW q \in Seq(Packet), NEW k
    PROVE  Kept(q, q, k)
<1> SUFFICES ASSUME NEW b, NEW sizes, NEW t, InPort(q, k, b, sizes, t)
             PROVE  \E known \in SUBSET (sizes \cup {0}), u \in Nat : u <= t /\ InPort(q, k, b, known, u)
  BY DEF Kept
<1>1. t \in Nat /\ t <= t /\ sizes \in SUBSET (sizes \cup {0})
  BY InPortType
<1>2. QED  BY <1>1

\* The head of the queue is no data of slot k.
LEMMA KeptTail ==
    ASSUME NEW q \in Seq(Packet), q # <<>>, NEW k, Bytes(k)[Head(q)] = 0
    PROVE  Kept(q, Tail(q), k)
<1> SUFFICES ASSUME NEW b, NEW sizes, NEW t, InPort(q, k, b, sizes, t)
             PROVE  \E known \in SUBSET (sizes \cup {0}), u \in Nat :
                       u <= t /\ InPort(Tail(q), k, b, known, u)
  BY DEF Kept
<1> DEFINE o == Ops(k)[Head(q)]
<1>1. PICK known \in SUBSET sizes : o <= t /\ InPort(Tail(q), k, b - 0, known, t - o)
  BY InPortTail
<1>2. b \in Nat /\ t \in Nat
  BY InPortType
<1>3. o \in {0, 1}
  <2>1. Head(q) \in Packet
    OBVIOUS
  <2>2. QED  BY <2>1, WeightsType
<1> HIDE DEF o
<1>4. b - 0 = b /\ t - o \in Nat /\ t - o <= t
  BY <1>1, <1>2, <1>3
<1>5. known \in SUBSET (sizes \cup {0})
  OBVIOUS
<1>6. QED  BY <1>1, <1>4, <1>5

LEMMA KeptMore ==
    ASSUME NEW q \in Seq(Packet), NEW r \in Seq(Packet), NEW k, Kept(q, r, k),
           NEW s \in Seq(Packet), \A i \in DOMAIN s : ~Present(s[i], k)
    PROVE  Kept(q, r \o s, k)
<1> SUFFICES ASSUME NEW b, NEW sizes, NEW t, InPort(q, k, b, sizes, t)
             PROVE  \E known \in SUBSET (sizes \cup {0}), u \in Nat :
                       u <= t /\ InPort(r \o s, k, b, known, u)
  BY DEF Kept
<1>1. PICK known \in SUBSET (sizes \cup {0}), u \in Nat : u <= t /\ InPort(r, k, b, known, u)
  BY DEF Kept
<1>2. PICK seen \in SUBSET (known \cup {0}) : InPort(r \o s, k, b, seen, u)
  BY <1>1, InPortMore
<1>3. seen \in SUBSET (sizes \cup {0})
  BY <1>1, <1>2
<1>4. QED  BY <1>1, <1>2, <1>3

\* Packets of failed operations are nobody's reads and writes.
LEMMA FailedAbsent ==
    ASSUME NEW n \in Nat, NEW k
    PROVE  FailedPackets(n) \in Seq(Packet) /\ \A i \in DOMAIN FailedPackets(n) : ~Present(FailedPackets(n)[i], k)
<1>1. FailedPackets(n) \in Seq(Packet)
  BY PacketsAreTyped
<1>2. \A i \in DOMAIN FailedPackets(n) : FailedPackets(n)[i].op = "failed"
  BY DEF FailedPackets, NewPacket
<1>3. QED  BY <1>1, <1>2 DEF Present

\* One packet that is neither a read nor a write.
LEMMA KeptPosted ==
    ASSUME NEW q \in Seq(Packet), NEW r \in Seq(Packet), NEW k, Kept(q, r, k),
           NEW p \in Packet, p.op \notin {"recv", "send"}
    PROVE  Kept(q, r \o <<p>>, k) /\ Kept(q, Append(r, p), k)
<1>1. <<p>> \in Seq(Packet) /\ \A i \in DOMAIN <<p>> : <<p>>[i] = p
  OBVIOUS
<1>2. ~Present(p, k)
  BY DEF Present
<1> DEFINE s == <<p>>
<1>3. r \o s = Append(r, p)
  OBVIOUS
<1>4. \A i \in DOMAIN s : ~Present(s[i], k)
  BY <1>1, <1>2
<1> HIDE DEF s
<1>5. Kept(q, r \o s, k)
  BY <1>1, <1>4, KeptMore DEF s
<1>6. QED  BY <1>3, <1>5 DEF s

\* CancelIo with the packet that follows it.
LEMMA KeptCancel ==
    ASSUME Typed, NEW h, NEW q \in Seq(Packet), NEW r \in Seq(Packet), NEW k, Kept(q, r, k),
           NEW p \in Packet, p.op = "cancel", CancelIo(h, r, <<p>>)
    PROVE  Kept(q, port', k)
<1>1. CASE h \notin open
  BY <1>1, KeptPosted DEF CancelIo
<1>2. CASE h \in open
  <2>1. h \in Handles /\ InFlight(h) \in Nat
    BY <1>2, InFlightType DEF Typed, TypeOK, SockTypeOK
  <2>2. PICK n \in Nat : port' = r \o FailedPackets(n) \o <<p>>
    <3>1. \E n \in 0 .. InFlight(h) : port' = r \o FailedPackets(n) \o <<p>>
      BY <1>2, Zenon DEF CancelIo
    <3>2. 0 .. InFlight(h) \subseteq Nat
      BY <2>1
    <3>3. QED  BY <3>1, <3>2, Zenon
  <2> DEFINE f == FailedPackets(n)
  <2>3. f \in Seq(Packet) /\ \A i \in DOMAIN f : ~Present(f[i], k)
    BY FailedAbsent
  <2> HIDE DEF f
  <2>4. Kept(q, r \o f, k) /\ r \o f \in Seq(Packet)
    BY <2>3, KeptMore
  <2>5. QED  BY <2>2, <2>4, KeptPosted DEF f
<1>3. QED  BY <1>1, <1>2

\* The types of what a slot talks about.
LEMMA TalkType ==
    ASSUME Typed, NEW k \in Keys, clients[k].socket \in Handles,
           NEW b, NEW sizes, NEW t, InPort(port, k, b, sizes, t)
    PROVE  LET h == clients[k].socket IN
           StreamType(peer[h], reads[h], writes[h], clients[k].recvBufSize, recvBuf[k], b, sizes, t)
<1> DEFINE h == clients[k].socket
<1>1. /\ peer[h] \in Peer /\ reads[h] \in Seq(Nat) /\ writes[h] \in Seq(Write)
      /\ recvBuf[k] \in Buffer /\ port \in Seq(Packet) /\ clients[k] \in Client
  BY DEF Typed, TypeOK, SockTypeOK
<1>2. clients[k].recvBufSize \in Nat
  BY <1>1 DEF Client
<1>3. b \in Nat /\ t \in Nat /\ sizes \subseteq 0 .. b
  BY <1>1, InPortType
<1>4. QED  BY <1>1, <1>2, <1>3 DEF StreamType

\* A step in which nothing happens to the client of a slot, unless its I/O is
\* cancelled.
LEMMA TalkKept ==
    ASSUME Typed, NEW k \in Keys, Talks(k), clients[k].socket \in Handles,
           clients'[k].socket = clients[k].socket,
           clients'[k].recvBufSize = clients[k].recvBufSize, recvBuf'[k] = recvBuf[k],
           peer'[clients[k].socket] = peer[clients[k].socket],
           \/ /\ reads'[clients[k].socket] = reads[clients[k].socket]
              /\ writes'[clients[k].socket] = writes[clients[k].socket]
           \/ reads'[clients[k].socket] = <<>> /\ writes'[clients[k].socket] = <<>>,
           Kept(port, port', k)
    PROVE  Talks(k)'
<1> DEFINE h == clients[k].socket
<1>1. PICK b, sizes, t :
        /\ InPort(port, k, b, sizes, t)
        /\ Stream(peer[h], reads[h], writes[h], clients[k].recvBufSize, recvBuf[k], b, sizes, t)
  BY DEF Talks
<1>2. StreamType(peer[h], reads[h], writes[h], clients[k].recvBufSize, recvBuf[k], b, sizes, t)
  BY <1>1, TalkType
<1>3. PICK known \in SUBSET (sizes \cup {0}), u \in Nat : u <= t /\ InPort(port', k, b, known, u)
  BY <1>1 DEF Kept
<1>4. Stream(peer[h], reads[h], writes[h], clients[k].recvBufSize, recvBuf[k], b, known, u)
  BY <1>1, <1>2, <1>3, StreamKept
<1>5. Stream(peer[h], <<>>, <<>>, clients[k].recvBufSize, recvBuf[k], b, known, u)
  <2>1. StreamType(peer[h], reads[h], writes[h], clients[k].recvBufSize, recvBuf[k], b, known, u)
    BY <1>2, <1>3 DEF StreamType
  <2>2. QED  BY <1>4, <2>1, StreamCancelled
<1>6. Stream(peer'[h], reads'[h], writes'[h], clients'[k].recvBufSize, recvBuf'[k], b, known, u)
  BY <1>4, <1>5
<1>7. QED  BY <1>3, <1>6 DEF Talks

\* A step in which nothing is said: I/O may be cancelled.
LEMMA TalkingKept ==
    ASSUME Typed, Belonging, Talking, hit \subseteq hit',
           \A k \in Keys : /\ clients'[k].socket = clients[k].socket
                           /\ clients'[k].recvBufSize = clients[k].recvBufSize,
           UNCHANGED <<peer, recvBuf>>,
           \A h \in Handles : \/ reads'[h] = reads[h] /\ writes'[h] = writes[h]
                              \/ reads'[h] = <<>> /\ writes'[h] = <<>>,
           \A k \in Keys : Kept(port, port', k)
    PROVE  Talking'
<1>1. \A k \in Keys : Occupied(k)' <=> Occupied(k)
  BY DEF Occupied
<1>2. ASSUME NEW k \in Keys \ hit', Occupied(k) PROVE Talks(k)'
  <2>1. k \in Keys /\ k \in Keys \ hit /\ Talks(k)
    BY <1>2 DEF Talking
  <2>2. clients[k].socket \in Handles
    BY <1>2, <2>1, OwnedSockets DEF Belonging
  <2>3. QED  BY <2>1, <2>2, TalkKept
<1>3. \A k \in Keys \ hit' : ~Occupied(k) => clients'[k].recvBufSize = 0
  BY DEF Talking
<1>4. \A h \in Handles : Stranger(h)' => Unheard(peer'[h])
  BY DEF Talking, Stranger
<1>5. QED  BY <1>1, <1>2, <1>3, <1>4 DEF Talking

\* The head of the port is no data: it is another packet, or an empty one.
LEMMA NoData ==
    ASSUME Typed, port # <<>>, Head(port).op # "recv" \/ Head(port).n = 0, NEW k
    PROVE  Kept(port, Tail(port), k) /\ Tail(port) \in Seq(Packet)
<1>1. port \in Seq(Packet) /\ Head(port) \in Packet /\ Tail(port) \in Seq(Packet)
  BY DEF Typed, TypeOK, SockTypeOK
<1>2. Bytes(k)[Head(port)] = 0
  BY <1>1 DEF Bytes
<1>3. QED  BY <1>1, <1>2, KeptTail

\* The steps that take a packet and only look for expired clients, and the clock.
LEMMA TimeoutCheckTalks ==
    ASSUME Typed, Belonging, Talking, WaitTimedOut \/ OperationFailed \/ AcceptCompleted \/ Tick
    PROVE  Talking'
<1>1. port \in Seq(Packet)
  BY DEF Typed, TypeOK, SockTypeOK
<1>2. /\ UNCHANGED <<reads, writes, peer, recvBuf, hit>>
      /\ UNCHANGED port \/ (port' = Tail(port) /\ port # <<>> /\ Head(port).op # "recv")
  BY DEF WaitTimedOut, OperationFailed, AcceptCompleted, Tick, Gets, TakePacket, sockVars
<1>3. \A k \in Keys : Kept(port, port', k)
  BY <1>1, <1>2, KeptSame, NoData
<1>4. \A k \in Keys : /\ clients'[k].socket = clients[k].socket
                      /\ clients'[k].recvBufSize = clients[k].recvBufSize
  <2>1. CASE UNCHANGED clients
    BY <2>1
  <2>2. CASE Tick
    <3>1. clients \in [Keys -> Client]
      BY DEF Typed, TypeOK
    <3>2. \A k \in Keys : \/ clients'[k] = clients[k]
                          \/ \E n : clients'[k] = [clients[k] EXCEPT !.age = n]
      BY <2>2 DEF Tick
    <3>3. ASSUME NEW k \in Keys, NEW n, clients'[k] = [clients[k] EXCEPT !.age = n]
          PROVE  /\ clients'[k].socket = clients[k].socket
                 /\ clients'[k].recvBufSize = clients[k].recvBufSize
      <4> DEFINE d == [clients[k] EXCEPT !.age = n]
      <4>1. clients[k] \in Client /\ clients'[k] = d
        BY <3>1, <3>3
      <4>2. d.socket = clients[k].socket /\ d.recvBufSize = clients[k].recvBufSize
        BY <4>1 DEF Client
      <4> HIDE DEF d
      <4>3. QED  BY <4>1, <4>2
    <3>4. QED  BY <3>2, <3>3
  <2>3. QED  BY <2>1, <2>2 DEF WaitTimedOut, OperationFailed, AcceptCompleted
<1>5. QED  BY <1>2, <1>3, <1>4, TalkingKept

\* CancelIo with the packet that follows it, of what is in flight on one socket.
LEMMA CancelTalks ==
    ASSUME Typed, Belonging, Talking, hit \subseteq hit',
           \A k \in Keys : /\ clients'[k].socket = clients[k].socket
                           /\ clients'[k].recvBufSize = clients[k].recvBufSize,
           UNCHANGED <<peer, recvBuf>>,
           NEW q \in Seq(Packet), \A k \in Keys : Kept(port, q, k),
           NEW h, NEW p \in Packet, p.op = "cancel", CancelIo(h, q, <<p>>)
    PROVE  Talking'
<1>1. \A g \in Handles : \/ reads'[g] = reads[g] /\ writes'[g] = writes[g]
                         \/ reads'[g] = <<>> /\ writes'[g] = <<>>
  BY DEF CancelIo, Typed, TypeOK, SockTypeOK
<1>2. port \in Seq(Packet)
  BY DEF Typed, TypeOK, SockTypeOK
<1>3. \A k \in Keys : Kept(port, port', k)
  BY <1>2, KeptCancel
<1>4. QED  BY <1>1, <1>3, TalkingKept

LEMMA ScheduleDisconnectTalks ==
    ASSUME Typed, Belonging, Talking, NEW k \in Keys, ScheduleDisconnect(k)
    PROVE  Talking'
<1> DEFINE s == clients[k].socket
           p == NewPacket("cancel", k, 0)
<1>1. UNCHANGED <<peer, recvBuf, clients, hit>> /\ port \in Seq(Packet)
  BY DEF ScheduleDisconnect, Typed, TypeOK, SockTypeOK
<1>2. p \in Packet /\ p.op = "cancel"
  BY PacketsAreTyped DEF NewPacket
<1>3. CASE s \in open
  <2>1. CancelIo(s, port, <<p>>)
    BY <1>3, Zenon DEF ScheduleDisconnect
  <2> HIDE DEF p, s
  <2>2. QED  BY <1>1, <1>2, <2>1, KeptSame, CancelTalks
<1>4. CASE s \notin open
  <2>1. UNCHANGED <<port, reads, writes>>
    BY <1>4 DEF ScheduleDisconnect
  <2>2. QED  BY <1>1, <2>1, KeptSame, TalkingKept
<1>5. QED  BY <1>3, <1>4

LEMMA ReceiveEndTalks ==
    ASSUME Typed, Belonging, Talking, ReceiveEnd
    PROVE  Talking'
<1> DEFINE k == Head(port).key
           p == [NewPacket("cancel", k, 0) EXCEPT !.stale = Head(port).stale]
           d == [clients[k] EXCEPT !.age = 0]
<1>1. Gets("recv") /\ port # <<>> /\ Head(port).op = "recv" /\ Head(port).n = 0
  BY DEF ReceiveEnd, Gets
<1>2. k \in Keys /\ Head(port).stale \in BOOLEAN /\ clients[k] \in Client
  BY <1>1, HeadOfPort
<1>3. p \in Packet /\ p.op = "cancel"
  BY <1>2 DEF NewPacket, Packet
<1>4. /\ UNCHANGED <<peer, recvBuf>> /\ Touch(Head(port))
      /\ clients' = [clients EXCEPT ![k].age = 0]
      /\ CancelIo(clients[k].socket, Tail(port), <<p>>)
  BY Zenon DEF ReceiveEnd
<1>5. hit \subseteq hit'
  BY <1>4 DEF Touch
<1>6. \A j \in Keys : /\ clients'[j].socket = clients[j].socket
                      /\ clients'[j].recvBufSize = clients[j].recvBufSize
  <2>1. d.socket = clients[k].socket /\ d.recvBufSize = clients[k].recvBufSize
    BY <1>2 DEF Client
  <2>2. clients' = [clients EXCEPT ![k] = d] /\ clients \in [Keys -> Client]
    BY <1>4 DEF Typed, TypeOK
  <2> HIDE DEF d, k
  <2>3. QED  BY <1>2, <2>1, <2>2
<1>7. \A j \in Keys : Kept(port, Tail(port), j)
  BY <1>1, NoData
<1>8. Tail(port) \in Seq(Packet)
  BY <1>1, NoData
<1> HIDE DEF p, d, k
<1>9. QED  BY <1>3, <1>4, <1>5, <1>6, <1>7, <1>8, CancelTalks

(***************************************************************************)
(* The handlers of data and of completed writes.                           *)
(***************************************************************************)
\* The slots a handler looks into: that of the packet's key, and the one whose
\* number is found there.
Handled == Keys \cap {Head(port).key, clients[Head(port).key].id}

\* h is a socket a handler does nothing on.
Elsewhere(h) == \A j \in Handled : clients[j].socket # h

\* A handler changes nothing that counts of a slot no stale packet was handled for,
\* except in the slot of its own packet.
LEMMA HandledSlots ==
    ASSUME Typed, Belonging, Gets("recv") \/ Gets("send"), Touch(Head(port))
    PROVE  LET k == Head(port).key IN
           /\ k \in Keys /\ k \in Handled /\ hit \subseteq hit' /\ Head(port).n \in Nat
           /\ \A j \in Keys \ hit' : j # k => j \notin Handled
           /\ k \notin hit' => ~Head(port).stale /\ Occupied(k) /\ clients[k].id = k
<1> DEFINE k == Head(port).key
<1>1. /\ k \in Keys /\ Head(port).n \in Nat /\ port # <<>>
      /\ Head(port).op \in {"recv", "send"} /\ Head(port).stale \in BOOLEAN
  BY HeadOfPort DEF Gets
<1>2. Belongs(Head(port))
  BY <1>1, TailBelongs DEF Belonging
<1>3. hit \subseteq hit' /\ k \in Handled
  BY <1>1 DEF Touch, Handled
<1>4. CASE Head(port).stale
  <2>1. hit' = hit \cup Handled
    BY <1>4 DEF Touch, Handled
  <2>2. QED  BY <1>1, <1>3, <2>1
<1>5. CASE ~Head(port).stale
  <2>1. Occupied(k)
    BY <1>1, <1>2, <1>5 DEF Belongs
  <2>2. clients[k].id = k
    BY <1>1, <2>1 DEF Typed, Numbered
  <2>3. Handled = {k}
    BY <1>1, <2>2 DEF Handled
  <2>4. QED  BY <1>1, <1>3, <1>5, <2>1, <2>2, <2>3
<1>6. QED  BY <1>1, <1>4, <1>5

\* It is enough to look at the slot of the packet.
LEMMA HandlerTalks ==
    ASSUME Typed, Belonging, Talking, Gets("recv") \/ Gets("send"), Touch(Head(port)),
           port' = Tail(port), UNCHANGED recvBuf,
           \A j \in Keys : clients'[j].socket = clients[j].socket,
           \A j \in Keys : j \notin Handled => clients'[j].recvBufSize = clients[j].recvBufSize,
           \A h \in Handles : Elsewhere(h) =>
               reads'[h] = reads[h] /\ writes'[h] = writes[h] /\ peer'[h] = peer[h],
           NEW k \in Keys, k = Head(port).key, k \notin hit' => Talks(k)'
    PROVE  Talking'
<1>1. /\ k \in Handled /\ hit \subseteq hit'
      /\ \A j \in Keys \ hit' : j # k => j \notin Handled
      /\ k \notin hit' => Occupied(k)
  BY HandledSlots
<1>2. \A j \in Keys : Occupied(j)' <=> Occupied(j)
  BY DEF Occupied
<1>3. ASSUME NEW j \in Keys \ hit', Occupied(j), j # k PROVE Talks(j)'
  <2>1. j \in Keys /\ j \notin Handled /\ Talks(j)
    BY <1>1, <1>3 DEF Talking
  <2>2. clients[j].socket \in Handles
    BY <1>3, OwnedSockets DEF Belonging
  <2>3. Elsewhere(clients[j].socket)
    <3>1. \A i \in Keys : clients[i].socket = clients[j].socket => i = j
      BY <1>3 DEF Belonging, Owned
    <3>2. QED  BY <2>1, <3>1 DEF Elsewhere, Handled
  <2>4. Kept(port, port', j)
    <3>1. port \in Seq(Packet) /\ port # <<>>
      BY DEF Gets, Typed, TypeOK, SockTypeOK
    <3>2. Head(port) \in Packet
      BY <3>1
    <3>3. Bytes(j)[Head(port)] = 0
      BY <1>3, <3>2 DEF Bytes, Present
    <3>4. QED  BY <3>1, <3>3, KeptTail
  <2>5. QED  BY <2>1, <2>2, <2>3, <2>4, TalkKept
<1>4. \A j \in Keys \ hit' : ~Occupied(j) => clients'[j].recvBufSize = 0
  BY <1>1 DEF Talking
<1>5. \A h \in Handles : Stranger(h)' => Unheard(peer'[h])
  BY DEF Talking, Stranger, Elsewhere, Handled
<1>6. ASSUME NEW j \in Keys \ hit', Occupied(j)' PROVE Talks(j)'
  <2>1. Occupied(j)
    BY <1>2, <1>6
  <2>2. CASE j = k
    BY <1>6, <2>2
  <2>3. QED  BY <1>3, <1>6, <2>1, <2>2
<1>7. QED  BY <1>2, <1>4, <1>5, <1>6 DEF Talking

\* What the slot of a packet knows of it: n bytes have come, and the others follow.
Follows(k, n, b, sizes, t, known) ==
    /\ clients[k].socket \in Handles /\ clients[k].socket \in open
    /\ clients[k].id = k
    /\ StreamType(peer[clients[k].socket], reads[clients[k].socket], writes[clients[k].socket],
                  clients[k].recvBufSize, recvBuf[k], b, sizes, t)
    /\ Stream(peer[clients[k].socket], reads[clients[k].socket], writes[clients[k].socket],
              clients[k].recvBufSize, recvBuf[k], b, sizes, t)
    /\ n \in sizes /\ t # 0
    /\ known \in SUBSET sizes /\ known \subseteq 0 .. b - n
    /\ InPort(Tail(port), k, b - n, known, t - 1)

LEMMA PacketFollows ==
    ASSUME Typed, Belonging, Talking, Gets("recv") \/ Gets("send"), Touch(Head(port)),
           Head(port).key \notin hit'
    PROVE  \E b, sizes, t, known :
              Follows(Head(port).key, IF Head(port).op = "recv" THEN Head(port).n ELSE 0,
                      b, sizes, t, known)
<1> DEFINE k == Head(port).key
           n == IF Head(port).op = "recv" THEN Head(port).n ELSE 0
           h == clients[k].socket
<1>1. k \in Keys /\ k \notin hit /\ ~Head(port).stale /\ Occupied(k) /\ clients[k].id = k
  BY HandledSlots
<1>2. h \in Handles /\ h \in open
  BY <1>1, OwnedSockets DEF Belonging
<1>3. Talks(k)
  BY <1>1 DEF Talking
<1>4. PICK b, sizes, t :
        /\ InPort(port, k, b, sizes, t)
        /\ Stream(peer[h], reads[h], writes[h], clients[k].recvBufSize, recvBuf[k], b, sizes, t)
  BY <1>3 DEF Talks
<1>5. StreamType(peer[h], reads[h], writes[h], clients[k].recvBufSize, recvBuf[k], b, sizes, t)
  BY <1>1, <1>2, <1>4, TalkType
<1>6. port \in Seq(Packet) /\ port # <<>> /\ Head(port) \in Packet
  BY DEF Gets, Typed, TypeOK, SockTypeOK
<1>7. Bytes(k)[Head(port)] = n /\ Ops(k)[Head(port)] = 1
  BY <1>1, <1>6 DEF Bytes, Ops, Present, Gets
<1> HIDE DEF n, k, h
<1>8. /\ n \in sizes /\ 1 <= t
      /\ \E known \in SUBSET sizes :
            known \subseteq 0 .. b - n /\ InPort(Tail(port), k, b - n, known, t - 1)
  BY <1>4, <1>6, <1>7, InPortTail
<1>9. PICK known \in SUBSET sizes :
            known \subseteq 0 .. b - n /\ InPort(Tail(port), k, b - n, known, t - 1)
  BY <1>8
<1>10. t # 0
  BY <1>8
<1>11. Follows(k, n, b, sizes, t, known)
  BY <1>1, <1>2, <1>4, <1>5, <1>8, <1>9, <1>10 DEF Follows, h
<1>12. QED  BY <1>11 DEF n, k

\* WSARecv and WSASend on the socket of a slot.
LEMMA CallsOn ==
    ASSUME Typed, NEW h, NEW n, NEW first
    PROVE  /\ WSARecv(h, n) =>
                /\ \A g \in Handles : g # h => reads'[g] = reads[g]
                /\ h \in Handles => reads'[h] = IF Usable(h) THEN Append(reads[h], n) ELSE reads[h]
           /\ WSASend(h, n, first) =>
                /\ \A g \in Handles : g # h => writes'[g] = writes[g]
                /\ h \in Handles =>
                     writes'[h] = IF Usable(h) THEN Append(writes[h], NewWrite(n, first))
                                  ELSE writes[h]
<1>1. reads \in [Handles -> Seq(Nat)] /\ writes \in [Handles -> Seq(Write)]
  BY DEF Typed, TypeOK, SockTypeOK
<1>2. Usable(h) => h \in Handles
  BY DEF Usable, Typed, TypeOK, SockTypeOK
<1>3. QED  BY <1>1, <1>2 DEF WSARecv, WSASend, NewWrite

\* A handler reads and writes on the sockets of the slots it looks into.
LEMMA HandledElsewhere ==
    ASSUME Typed, NEW k \in Keys, k = Head(port).key, NEW g \in Handles, Elsewhere(g)
    PROVE  /\ g # clients[k].socket
           /\ \A n : WSARecv(clients[k].socket, n) => reads'[g] = reads[g]
           /\ \A n, first : WSASend(clients[k].socket, n, first) => writes'[g] = writes[g]
           /\ ReadAnew(clients[k].id) => reads'[g] = reads[g]
<1>1. g # clients[k].socket
  BY DEF Elsewhere, Handled
<1>2. ReadAnew(clients[k].id) => reads'[g] = reads[g]
  <2>1. CASE clients[k].id \in Keys
    <3>1. clients[k].id \in Handled
      BY <2>1 DEF Handled
    <3>2. g # clients[clients[k].id].socket
      BY <3>1 DEF Elsewhere
    <3>3. QED  BY <2>1, <3>2, CallsOn DEF ReadAnew
  <2>2. CASE clients[k].id \notin Keys
    BY <2>2 DEF ReadAnew
  <2>3. QED  BY <2>1, <2>2
<1>3. QED  BY <1>1, <1>2, CallsOn

\* Part of a message: the bytes are counted, and a read for more follows.
LEMMA ReceivePartialTalks ==
    ASSUME Typed, Belonging, Talking, ReceivePartial
    PROVE  Talking'
<1>1. PICK k \in Keys : k = Head(port).key
  BY ReceiveTyped DEF ReceivePartial
<1> DEFINE n == Head(port).n
           c == Received(k, n)
           h == clients[k].socket
<1>2. /\ Gets("recv") /\ n > 0 /\ port' = Tail(port) /\ Touch(Head(port)) /\ UNCHANGED recvBuf
      /\ Head(port).op = "recv" /\ UNCHANGED <<writes, peer>>
  BY DEF ReceivePartial, Receive, TakePacket, Gets
<1>3. clients' = [clients EXCEPT ![k] = c] /\ WSARecv(c.socket, c.recvBufSize)
  BY <1>1, Zenon DEF ReceivePartial
<1>4. /\ c.socket = h /\ c.recvBufSize = clients[k].recvBufSize + n
      /\ clients \in [Keys -> Client] /\ n \in Nat
  <2>1. clients \in [Keys -> Client] /\ n \in Nat
    BY <1>2, HandledSlots DEF Typed, TypeOK
  <2>2. QED  BY <2>1 DEF Received, Client
<1> HIDE DEF c
<1>5. /\ \A j \in Keys : clients'[j].socket = clients[j].socket
      /\ \A j \in Keys : j # k => clients'[j].recvBufSize = clients[j].recvBufSize
      /\ clients'[k].recvBufSize = clients[k].recvBufSize + n
      /\ WSARecv(h, clients[k].recvBufSize + n)
  BY <1>3, <1>4
<1>6. \A g \in Handles : Elsewhere(g) =>
               reads'[g] = reads[g] /\ writes'[g] = writes[g] /\ peer'[g] = peer[g]
  BY <1>1, <1>2, <1>5, HandledElsewhere
<1>7. ASSUME k \notin hit' PROVE Talks(k)'
  <2>1. PICK b, sizes, t, known : Follows(k, n, b, sizes, t, known)
    BY <1>1, <1>2, <1>7, PacketFollows
  <2>2. h \in Handles /\ t - 1 \in Nat /\ known \subseteq sizes \cup {0}
    BY <2>1 DEF Follows, StreamType
  <2>3. reads'[h] \in {reads[h], Append(reads[h], clients[k].recvBufSize + n)}
    BY <1>5, <2>2, CallsOn
  <2>4. Stream(peer[h], reads'[h], writes[h], clients[k].recvBufSize + n, recvBuf[k],
               b - n, known, t - 1)
    <3> DEFINE r == reads'[h]
               size == clients[k].recvBufSize
    <3>1. n # 0
      BY <1>2, <1>4
    <3>2. /\ StreamType(peer[h], reads[h], writes[h], size, recvBuf[k], b, sizes, t)
          /\ Stream(peer[h], reads[h], writes[h], size, recvBuf[k], b, sizes, t)
      BY <2>1 DEF Follows
    <3>3. Counting(reads[h], size, b, sizes, t, n, known, r)
      BY <2>1, <2>3, <3>1 DEF Follows, Counting
    <3> HIDE DEF n, h, r, size
    <3>4. Stream(peer[h], r, writes[h], size + n, recvBuf[k], b - n, known, t - 1)
      BY <3>2, <3>3, StreamCounts
    <3>5. QED  BY <3>4 DEF r, size
  <2>5. InPort(port', k, b - n, known, t - 1)
    BY <1>2, <2>1 DEF Follows
  <2>6. QED  BY <1>2, <1>5, <2>4, <2>5 DEF Talks
<1>8. \A j \in Keys : j \notin Handled => clients'[j].recvBufSize = clients[j].recvBufSize
  BY <1>1, <1>5 DEF Handled
<1> HIDE DEF n, h
<1>9. QED  BY <1>1, <1>2, <1>5, <1>6, <1>7, <1>8, HandlerTalks

\* The slot of the last packet of a message knows that all of it has come.
Complete(k, b, sizes, t, known) ==
    /\ clients[k].socket \in Handles /\ clients[k].socket \in open
    /\ clients[k].id = k
    /\ StreamType(peer[clients[k].socket], reads[clients[k].socket], writes[clients[k].socket],
                  clients[k].recvBufSize, recvBuf[k], b, sizes, t)
    /\ Stream(peer[clients[k].socket], reads[clients[k].socket], writes[clients[k].socket],
              clients[k].recvBufSize, recvBuf[k], b, sizes, t)
    /\ Arrived(peer[clients[k].socket], reads[clients[k].socket], writes[clients[k].socket],
               recvBuf[k])
    /\ t # 0 /\ known \in SUBSET {0}
    /\ InPort(Tail(port), k, 0, known, t - 1)

LEMMA MessageCompletes ==
    ASSUME Typed, Belonging, Talking, NEW k \in Keys, k = Head(port).key, k \notin hit',
           NEW kind \in Kinds, Receive(kind)
    PROVE  \E b, sizes, t, known : Complete(k, b, sizes, t, known)
<1> DEFINE n == Head(port).n
           h == clients[k].socket
           size == clients[k].recvBufSize
<1>1. /\ Gets("recv") /\ Touch(Head(port)) /\ Head(port).op = "recv" /\ n > 0
      /\ ValidateBuff(k, n)
  BY DEF Receive, Gets, Kinds
<1>2. PICK b, sizes, t, known : Follows(k, n, b, sizes, t, known)
  BY <1>1, PacketFollows
<1>3. n \in Nat
  BY <1>1, HandledSlots
<1>4. n # 0 /\ recvBuf[k].head.len = size + n
  BY <1>1, <1>3 DEF ValidateBuff
<1>5. /\ StreamType(peer[h], reads[h], writes[h], size, recvBuf[k], b, sizes, t)
      /\ Stream(peer[h], reads[h], writes[h], size, recvBuf[k], b, sizes, t)
      /\ n \in sizes
  BY <1>2 DEF Follows
<1>6. b = n /\ Arrived(peer[h], reads[h], writes[h], recvBuf[k])
  <2> HIDE DEF n, h, size
  <2>1. QED  BY <1>4, <1>5, StreamArrives
<1>7. b - n = 0 /\ known \in SUBSET {0}
  <2>1. known \subseteq 0 .. b - n
    BY <1>2 DEF Follows
  <2> HIDE DEF n
  <2>2. b - n = 0
    BY <1>3, <1>6
  <2>3. QED  BY <2>1, <2>2
<1> HIDE DEF n
<1>8. Complete(k, b, sizes, t, known)
  BY <1>2, <1>6, <1>7 DEF Follows, Complete
<1>9. QED  BY <1>8

\* A message that is handled is one a peer may send.
LEMMA HandledMessage ==
    ASSUME Typed, NEW k \in Keys, k = Head(port).key, NEW kind \in Kinds, Receive(kind)
    PROVE  recvBuf[k].head \in Messages /\ recvBuf[k].head.reply \in Nat
<1>1. /\ Gets("recv") /\ Head(port).n > 0
      /\ recvBuf[k].head.len = clients[k].recvBufSize + Head(port).n
  BY DEF Receive, Gets, Kinds, ValidateBuff
<1>2. Head(port).n \in Nat
  BY <1>1, HeadOfPort DEF Gets
<1>3. clients[k].recvBufSize \in Nat /\ recvBuf[k] \in Buffer
  BY DEF Typed, TypeOK, SockTypeOK, Client
<1>4. recvBuf[k].head.len # 0
  BY <1>1, <1>2, <1>3
<1>5. recvBuf[k].head \in Messages
  BY <1>3, <1>4, MessageType
<1>6. QED  BY <1>5, MessageType

LEMMA ReceiveUnknownTalks ==
    ASSUME Typed, Belonging, Talking, ReceiveUnknown
    PROVE  Talking'
<1>1. PICK k \in Keys : k = Head(port).key
  BY ReceiveTyped DEF ReceiveUnknown
<1> DEFINE c == [clients[k] EXCEPT !.age = 0, !.recvBufSize = 0]
           h == clients[k].socket
<1>2. /\ Receive("unknown") /\ Gets("recv") /\ port' = Tail(port) /\ Touch(Head(port))
      /\ UNCHANGED <<recvBuf, reads, writes, peer>>
  BY DEF ReceiveUnknown, Receive, TakePacket
<1>3. clients' = [clients EXCEPT ![k] = c]
  BY <1>1, Zenon DEF ReceiveUnknown
<1>4. /\ c.socket = h /\ c.recvBufSize = 0
      /\ clients \in [Keys -> Client]
  <2>1. clients \in [Keys -> Client]
    BY DEF Typed, TypeOK
  <2>2. QED  BY <2>1 DEF Client
<1> HIDE DEF c
<1>5. /\ \A j \in Keys : clients'[j].socket = clients[j].socket
      /\ \A j \in Keys : j # k => clients'[j].recvBufSize = clients[j].recvBufSize
      /\ clients'[k].recvBufSize = 0
  BY <1>3, <1>4
<1>6. \A g \in Handles : Elsewhere(g) =>
               reads'[g] = reads[g] /\ writes'[g] = writes[g] /\ peer'[g] = peer[g]
  BY <1>2
<1>7. ASSUME k \notin hit' PROVE Talks(k)'
  <2>1. PICK b, sizes, t, known : Complete(k, b, sizes, t, known)
    BY <1>1, <1>2, <1>7, MessageCompletes DEF Kinds
  <2>2. Stream(peer[h], reads[h], writes[h], 0, recvBuf[k], 0, known, t - 1)
    BY <2>1, StreamIgnores DEF Complete
  <2>3. InPort(port', k, 0, known, t - 1)
    BY <1>2, <2>1 DEF Complete
  <2>4. QED  BY <1>2, <1>5, <2>2, <2>3 DEF Talks
<1>8. \A j \in Keys : j \notin Handled => clients'[j].recvBufSize = clients[j].recvBufSize
  BY <1>1, <1>5 DEF Handled
<1> HIDE DEF h
<1>9. QED  BY <1>1, <1>2, <1>5, <1>6, <1>7, <1>8, HandlerTalks

LEMMA ReceiveRequestTalks ==
    ASSUME Typed, Belonging, Talking, ReceiveRequest
    PROVE  Talking'
<1>1. PICK k \in Keys : k = Head(port).key
  BY ReceiveTyped DEF ReceiveRequest
<1> DEFINE m == recvBuf[k].head
           c == Answering(clients[k], m)
           h == clients[k].socket
<1>2. /\ Receive("request") /\ Gets("recv") /\ port' = Tail(port) /\ Touch(Head(port))
      /\ UNCHANGED <<recvBuf, reads, peer>>
  BY DEF ReceiveRequest, Receive, TakePacket
<1>3. clients' = [clients EXCEPT ![k] = c] /\ WSASend(h, m.reply, TRUE)
  BY <1>1, Zenon DEF ReceiveRequest
<1>4. m.reply \in Nat
  BY <1>1, <1>2, HandledMessage DEF Kinds
<1>5. /\ c.socket = h /\ c.recvBufSize = 0
      /\ clients \in [Keys -> Client]
  <2>1. clients \in [Keys -> Client]
    BY DEF Typed, TypeOK
  <2>2. QED  BY <2>1 DEF Client, Answering
<1> HIDE DEF c, m
<1>6. /\ \A j \in Keys : clients'[j].socket = clients[j].socket
      /\ \A j \in Keys : j # k => clients'[j].recvBufSize = clients[j].recvBufSize
      /\ clients'[k].recvBufSize = 0
  BY <1>3, <1>5
<1>7. \A g \in Handles : Elsewhere(g) =>
               reads'[g] = reads[g] /\ writes'[g] = writes[g] /\ peer'[g] = peer[g]
  BY <1>1, <1>2, <1>3, HandledElsewhere
<1>8. ASSUME k \notin hit' PROVE Talks(k)'
  <2>1. PICK b, sizes, t, known : Complete(k, b, sizes, t, known)
    BY <1>1, <1>2, <1>8, MessageCompletes DEF Kinds
  <2>2. h \in Handles /\ h \in open
    BY <2>1 DEF Complete
  <2> DEFINE r == IF Usable(h) THEN Append(writes[h], NewWrite(m.reply, TRUE)) ELSE writes[h]
  <2>3. writes'[h] = r
    BY <1>3, <2>2, CallsOn
  <2>4. Stream(peer[h], reads[h], r, 0, recvBuf[k], 0, known, t - 1)
    <3>1. CASE Usable(h)
      <4>1. peer[h].st \notin {"none", "reset"}
        BY <3>1 DEF Usable
      <4>2. Stream(peer[h], reads[h], Append(writes[h], NewWrite(m.reply, TRUE)), 0, recvBuf[k],
                   0, known, t - 1)
        BY <1>4, <2>1, <4>1, StreamAnswers DEF Complete
      <4>3. QED  BY <3>1, <4>2
    <3>2. CASE ~Usable(h)
      <4>1. Stream(peer[h], reads[h], writes[h], 0, recvBuf[k], 0, known, t - 1)
        BY <2>1, StreamIgnores DEF Complete
      <4>2. QED  BY <3>2, <4>1
    <3>3. QED  BY <3>1, <3>2
  <2>5. InPort(port', k, 0, known, t - 1)
    BY <1>2, <2>1 DEF Complete
  <2> HIDE DEF r
  <2>6. QED  BY <1>2, <1>6, <2>3, <2>4, <2>5 DEF Talks
<1>9. \A j \in Keys : j \notin Handled => clients'[j].recvBufSize = clients[j].recvBufSize
  BY <1>1, <1>6 DEF Handled
<1> HIDE DEF h
<1>10. QED  BY <1>1, <1>2, <1>6, <1>7, <1>8, <1>9, HandlerTalks

\* A handler that drops what is counted for a slot.
LEMMA EmptiedIs ==
    ASSUME NEW cs, cs \in [Keys -> Client], NEW i
    PROVE  \A j \in Keys : /\ Emptied(cs, i)[j].socket = cs[j].socket
                           /\ Emptied(cs, i)[j].unsent = cs[j].unsent
                           /\ j # i => Emptied(cs, i)[j].recvBufSize = cs[j].recvBufSize
                           /\ j = i => Emptied(cs, i)[j].recvBufSize = 0
<1> SUFFICES ASSUME NEW j \in Keys
             PROVE  /\ Emptied(cs, i)[j].socket = cs[j].socket
                    /\ Emptied(cs, i)[j].unsent = cs[j].unsent
                    /\ j # i => Emptied(cs, i)[j].recvBufSize = cs[j].recvBufSize
                    /\ j = i => Emptied(cs, i)[j].recvBufSize = 0
  OBVIOUS
<1> DEFINE d == [cs[j] EXCEPT !.recvBufSize = 0]
<1>1. Emptied(cs, i)[j] = IF j = i THEN d ELSE cs[j]
  BY DEF Emptied
<1>2. d.socket = cs[j].socket /\ d.unsent = cs[j].unsent /\ d.recvBufSize = 0
  BY DEF Client
<1> HIDE DEF d
<1>3. QED  BY <1>1, <1>2

LEMMA ReceiveKeyRequestTalks ==
    ASSUME Typed, Belonging, Talking, ReceiveKeyRequest
    PROVE  Talking'
<1>1. PICK k \in Keys : k = Head(port).key
  BY ReceiveTyped DEF ReceiveKeyRequest
<1> DEFINE m == recvBuf[k].head
           c == Answering(clients[k], m)
           d == [clients EXCEPT ![k] = c]
           i == clients[k].id
           h == clients[k].socket
<1>2. /\ Receive("key") /\ Gets("recv") /\ port' = Tail(port) /\ Touch(Head(port))
      /\ UNCHANGED recvBuf
  BY DEF ReceiveKeyRequest, Receive, TakePacket
<1>3. /\ clients' = Emptied(d, i) /\ WSASend(h, m.reply, TRUE) /\ ReadAnew(i)
      /\ peer' = IF Usable(h) THEN [peer EXCEPT ![h].key = symKeys[i]] ELSE peer
  BY <1>1, Zenon DEF ReceiveKeyRequest
<1>4. m.reply \in Nat /\ m.kind = "key"
  BY <1>1, <1>2, HandledMessage DEF Kinds, Receive
<1>5. /\ c.socket = h /\ c.recvBufSize = 0 /\ c \in Client
      /\ clients \in [Keys -> Client]
  <2>1. clients \in [Keys -> Client]
    BY DEF Typed, TypeOK
  <2>2. clients[k] \in Client /\ 0 \in 0 .. TIMEOUT + 1 /\ m.reply \in Int
    BY <1>4, <2>1, ServerAssumption
  <2>3. QED  BY <1>4, <2>1, <2>2 DEF Client, Answering
<1> HIDE DEF c
<1>6. /\ d \in [Keys -> Client] /\ d[k] = c /\ \A j \in Keys : j # k => d[j] = clients[j]
  BY <1>5
<1> HIDE DEF d
<1>7. /\ \A j \in Keys : clients'[j].socket = clients[j].socket
      /\ \A j \in Keys : j # k /\ j # i => clients'[j].recvBufSize = clients[j].recvBufSize
      /\ clients'[k].recvBufSize = 0
  <2>1. \A j \in Keys : /\ clients'[j].socket = d[j].socket
                        /\ j # i => clients'[j].recvBufSize = d[j].recvBufSize
                        /\ j = i => clients'[j].recvBufSize = 0
    BY <1>3, <1>6, EmptiedIs
  <2>2. QED  BY <1>5, <1>6, <2>1
<1>8. \A g \in Handles : Elsewhere(g) =>
               reads'[g] = reads[g] /\ writes'[g] = writes[g] /\ peer'[g] = peer[g]
  <2>1. \A g \in Handles : Elsewhere(g) => reads'[g] = reads[g] /\ writes'[g] = writes[g] /\ g # h
    BY <1>1, <1>3, HandledElsewhere
  <2>2. peer \in [Handles -> Peer]
    BY DEF Typed, TypeOK, SockTypeOK
  <2>3. QED  BY <1>3, <2>1, <2>2
<1>9. ASSUME k \notin hit' PROVE Talks(k)'
  <2>1. PICK b, sizes, t, known : Complete(k, b, sizes, t, known)
    BY <1>1, <1>2, <1>9, MessageCompletes DEF Kinds
  <2>2. h \in Handles /\ h \in open /\ i = k
    BY <2>1 DEF Complete
  <2>3. WSARecv(h, 0)
    BY <1>3, <2>2 DEF ReadAnew
  <2>4. CASE Usable(h)
    <3> DEFINE r == Append(writes[h], NewWrite(m.reply, TRUE))
               o == Append(reads[h], 0)
               p == [peer[h] EXCEPT !.key = symKeys[k]]
    <3>1. peer[h].st \notin {"none", "reset"}
      BY <2>4 DEF Usable
    <3>2. symKeys[k] \in Handles
      <4>1. Occupied(k)
        BY <2>2, WinsockAssumption DEF Occupied
      <4>2. QED  BY <2>2, <4>1 DEF Belonging, Keyed
    <3>3. /\ StreamType(peer[h], reads[h], writes[h], clients[k].recvBufSize, recvBuf[k], b, sizes, t)
          /\ Stream(peer[h], reads[h], writes[h], clients[k].recvBufSize, recvBuf[k], b, sizes, t)
          /\ Arrived(peer[h], reads[h], writes[h], recvBuf[k])
          /\ t # 0 /\ known \in SUBSET {0}
      BY <2>1 DEF Complete
    <3>4. recvBuf[k].head.kind = "key"
      BY <1>4
    <3>5. Stream(p, o, r, 0, recvBuf[k], 0, known, t - 1)
      <4> DEFINE q == peer[h]
                 x == symKeys[k]
      <4>1. q.st \notin {"none", "reset"} /\ x \in Handles
        BY <3>1, <3>2
      <4>2. Stream([q EXCEPT !.key = x], o, r, 0, recvBuf[k], 0, known, t - 1)
        <5> DEFINE z == m.reply
                   rd == reads[h]
                   wr == writes[h]
                   size == clients[k].recvBufSize
                   buf == recvBuf[k]
        <5>1. z \in Nat /\ r = Append(wr, NewWrite(z, TRUE)) /\ o = Append(rd, 0)
          BY <1>4
        <5>2. /\ StreamType(q, rd, wr, size, buf, b, sizes, t)
              /\ Stream(q, rd, wr, size, buf, b, sizes, t)
              /\ Arrived(q, rd, wr, buf) /\ t # 0 /\ known \in SUBSET {0}
              /\ buf.head.kind = "key"
          BY <3>3, <3>4
        <5> HIDE DEF q, x, z, r, o, rd, wr, size, buf
        <5>3. Stream([q EXCEPT !.key = x], Append(rd, 0), Append(wr, NewWrite(z, TRUE)), 0, buf,
                     0, known, t - 1)
          BY <4>1, <5>1, <5>2, StreamAnswersKey
        <5>4. QED  BY <5>1, <5>3 DEF buf
      <4>3. QED  BY <4>2
    <3>6. writes'[h] = r /\ reads'[h] = o
      <4> DEFINE z == m.reply
      <4>1. WSASend(h, z, TRUE) /\ WSARecv(h, 0) /\ Usable(h) /\ h \in Handles
        BY <1>3, <2>2, <2>3, <2>4
      <4> HIDE DEF z, h
      <4>2. writes'[h] = Append(writes[h], NewWrite(z, TRUE)) /\ reads'[h] = Append(reads[h], 0)
        BY <4>1, CallsOn
      <4>3. QED  BY <4>2 DEF z
    <3>7. peer'[h] = p
      <4>1. peer \in [Handles -> Peer]
        BY DEF Typed, TypeOK, SockTypeOK
      <4>2. QED  BY <1>3, <2>2, <2>4, <4>1
    <3>8. InPort(port', k, 0, known, t - 1)
      BY <1>2, <2>1 DEF Complete
    <3> HIDE DEF r, o, p
    <3>9. QED  BY <1>2, <1>7, <3>5, <3>6, <3>7, <3>8 DEF Talks
  <2>5. CASE ~Usable(h)
    <3>1. Stream(peer[h], reads[h], writes[h], 0, recvBuf[k], 0, known, t - 1)
      BY <2>1, StreamIgnores DEF Complete
    <3>2. peer'[h] = peer[h] /\ reads'[h] = reads[h] /\ writes'[h] = writes[h]
      BY <1>3, <2>2, <2>3, <2>5, CallsOn
    <3>3. InPort(port', k, 0, known, t - 1)
      BY <1>2, <2>1 DEF Complete
    <3>4. QED  BY <1>2, <1>7, <3>1, <3>2, <3>3 DEF Talks
  <2>6. QED  BY <2>4, <2>5
<1>10. \A j \in Keys : j \notin Handled => clients'[j].recvBufSize = clients[j].recvBufSize
  BY <1>1, <1>7 DEF Handled
<1> HIDE DEF h, i
<1>11. QED  BY <1>1, <1>2, <1>7, <1>8, <1>9, <1>10, HandlerTalks

\* A write has completed, and that is all of the answer that is counted: what was counted
\* of the next message is dropped and a read at the start of the buffer is posted.
LEMMA SendDoneTalks ==
    ASSUME Typed, Belonging, Talking, SendDone
    PROVE  Talking'
<1>1. PICK k \in Keys : k = Head(port).key
  BY HeadOfPort DEF SendDone, Send, Gets
<1> DEFINE u == clients[k].unsent - Head(port).n
           c == [clients[k] EXCEPT !.unsent = u]
           d == [clients EXCEPT ![k] = c]
           i == clients[k].id
           h == clients[k].socket
<1>2. /\ Gets("send") /\ port' = Tail(port) /\ Touch(Head(port))
      /\ Head(port).op = "send" /\ UNCHANGED <<recvBuf, peer>>
  BY DEF SendDone, Send, TakePacket, Gets
<1>3. /\ Head(port).n \in Nat /\ clients \in [Keys -> Client] /\ clients[k].unsent \in Int
  BY <1>1, <1>2, HandledSlots DEF Typed, TypeOK, Client
<1>4. clients' = Emptied(d, i) /\ ReadAnew(i) /\ UNCHANGED writes
  BY <1>1, Zenon DEF SendDone, Unsent
<1>5. c \in Client /\ c.socket = h /\ c.recvBufSize = clients[k].recvBufSize
  <2>1. clients[k] \in Client /\ u \in Int
    BY <1>3
  <2> HIDE DEF u
  <2>2. QED  BY <2>1 DEF Client
<1> HIDE DEF c
<1>6. /\ d \in [Keys -> Client] /\ d[k] = c /\ \A j \in Keys : j # k => d[j] = clients[j]
  BY <1>3, <1>5
<1> HIDE DEF d, u
<1>7. /\ \A j \in Keys : clients'[j].socket = clients[j].socket
      /\ \A j \in Keys : j # i => clients'[j].recvBufSize = clients[j].recvBufSize
      /\ \A j \in Keys : j = i => clients'[j].recvBufSize = 0
  <2>1. \A j \in Keys : /\ clients'[j].socket = d[j].socket
                        /\ j # i => clients'[j].recvBufSize = d[j].recvBufSize
                        /\ j = i => clients'[j].recvBufSize = 0
    BY <1>4, <1>6, EmptiedIs
  <2>2. QED  BY <1>5, <1>6, <2>1
<1>8. \A g \in Handles : Elsewhere(g) =>
               reads'[g] = reads[g] /\ writes'[g] = writes[g] /\ peer'[g] = peer[g]
  BY <1>1, <1>2, <1>4, HandledElsewhere
<1>9. ASSUME k \notin hit' PROVE Talks(k)'
  <2>1. PICK b, sizes, t, known : Follows(k, 0, b, sizes, t, known)
    <3>1. (IF Head(port).op = "recv" THEN Head(port).n ELSE 0) = 0
      BY <1>2
    <3>2. QED  BY <1>1, <1>2, <1>9, <3>1, PacketFollows
  <2>2. h \in Handles /\ h \in open /\ i = k
    BY <2>1 DEF Follows
  <2>3. WSARecv(h, 0)
    BY <1>4, <2>2 DEF ReadAnew
  <2>4. reads'[h] \in {reads[h], Append(reads[h], 0)}
    BY <2>2, <2>3, CallsOn
  <2>5. b \in Nat
    BY <2>1 DEF Follows, StreamType
  <2>6. b - 0 = b /\ known \in SUBSET (sizes \cup {0})
    BY <2>1, <2>5 DEF Follows
  <2>7. Stream(peer[h], reads'[h], writes[h], 0, recvBuf[k], b, known, t - 1)
    <3> DEFINE r == reads'[h]
               q == reads[h]
    <3>1. r \in {q, Append(q, 0)}
      BY <2>4
    <3>2. /\ StreamType(peer[h], q, writes[h], clients[k].recvBufSize, recvBuf[k], b, sizes, t)
          /\ Stream(peer[h], q, writes[h], clients[k].recvBufSize, recvBuf[k], b, sizes, t)
          /\ t # 0
      BY <2>1 DEF Follows
    <3> HIDE DEF r, q, h
    <3>3. Stream(peer[h], r, writes[h], 0, recvBuf[k], b, known, t - 1)
      BY <2>6, <3>1, <3>2, StreamReadsAnew
    <3>4. QED  BY <3>3 DEF r
  <2>8. InPort(port', k, b, known, t - 1)
    BY <1>2, <2>1, <2>6 DEF Follows
  <2>9. clients'[k].recvBufSize = 0
    BY <1>7, <2>2
  <2>10. QED  BY <1>2, <1>4, <1>7, <2>7, <2>8, <2>9 DEF Talks
<1>10. \A j \in Keys : j \notin Handled => clients'[j].recvBufSize = clients[j].recvBufSize
  BY <1>1, <1>7 DEF Handled
<1> HIDE DEF h, i
<1>11. QED  BY <1>1, <1>2, <1>7, <1>8, <1>9, <1>10, HandlerTalks

\* A write has completed, and some of the answer that is counted is left: that is written.
LEMMA SendPartialTalks ==
    ASSUME Typed, Belonging, Talking, SendPartial
    PROVE  Talking'
<1>1. PICK k \in Keys : k = Head(port).key
  BY HeadOfPort DEF SendPartial, Send, Gets
<1> DEFINE u == clients[k].unsent - Head(port).n
           c == [clients[k] EXCEPT !.unsent = u]
           h == clients[k].socket
<1>2. /\ Gets("send") /\ port' = Tail(port) /\ Touch(Head(port))
      /\ Head(port).op = "send" /\ UNCHANGED <<recvBuf, peer, reads>>
  BY DEF SendPartial, Send, TakePacket, Gets
<1>3. /\ Head(port).n \in Nat /\ clients \in [Keys -> Client] /\ clients[k].unsent \in Int
  BY <1>1, <1>2, HandledSlots DEF Typed, TypeOK, Client
<1>4. clients' = [clients EXCEPT ![k] = c] /\ WSASend(h, u, FALSE) /\ u > 0
  BY <1>1, Zenon DEF SendPartial, Unsent
<1>5. u \in Nat
  BY <1>3, <1>4
<1>6. c.socket = h /\ c.recvBufSize = clients[k].recvBufSize
  <2> HIDE DEF u
  <2>1. QED  BY <1>3 DEF Client
<1> HIDE DEF c, u
<1>7. \A j \in Keys : /\ clients'[j].socket = clients[j].socket
                      /\ clients'[j].recvBufSize = clients[j].recvBufSize
  BY <1>3, <1>4, <1>6
<1>8. \A g \in Handles : Elsewhere(g) =>
               reads'[g] = reads[g] /\ writes'[g] = writes[g] /\ peer'[g] = peer[g]
  BY <1>1, <1>2, <1>4, HandledElsewhere
<1>9. ASSUME k \notin hit' PROVE Talks(k)'
  <2>1. PICK b, sizes, t, known : Follows(k, 0, b, sizes, t, known)
    <3>1. (IF Head(port).op = "recv" THEN Head(port).n ELSE 0) = 0
      BY <1>2
    <3>2. QED  BY <1>1, <1>2, <1>9, <3>1, PacketFollows
  <2>2. h \in Handles
    BY <2>1 DEF Follows
  <2> DEFINE r == writes'[h]
             q == writes[h]
             p == peer[h]
             size == clients[k].recvBufSize
  <2>3. r = q \/ (p.st # "none" /\ r = Append(q, NewWrite(u, FALSE)))
    <3>1. r = IF Usable(h) THEN Append(q, NewWrite(u, FALSE)) ELSE q
      BY <1>4, <2>2, CallsOn
    <3>2. Usable(h) => p.st # "none"
      BY DEF Usable
    <3> HIDE DEF r, q, p
    <3>3. QED  BY <3>1, <3>2
  <2>4. b \in Nat
    BY <2>1 DEF Follows, StreamType
  <2>5. b - 0 = b /\ known \in SUBSET (sizes \cup {0})
    BY <2>1, <2>4 DEF Follows
  <2>6. /\ StreamType(p, reads[h], q, size, recvBuf[k], b, sizes, t)
        /\ Stream(p, reads[h], q, size, recvBuf[k], b, sizes, t)
        /\ t # 0
    BY <2>1 DEF Follows
  <2>7. InPort(port', k, b, known, t - 1)
    BY <1>2, <2>1, <2>5 DEF Follows
  <2>8. Stream(p, reads[h], r, size, recvBuf[k], b, known, t - 1)
    <3> HIDE DEF r, q, p, size
    <3>1. QED  BY <1>5, <2>3, <2>5, <2>6, StreamResends
  <2>9. QED  BY <1>2, <1>7, <2>7, <2>8 DEF Talks
<1> HIDE DEF h
<1>10. QED  BY <1>1, <1>2, <1>7, <1>8, <1>9, HandlerTalks

(***************************************************************************)
(* Slots that are filled and freed.                                        *)
(***************************************************************************)
\* A step that happens on one socket, g.
LEMMA TalkingOn ==
    ASSUME Typed, Belonging, Talking, hit \subseteq hit', NEW g,
           \A k \in Keys : /\ clients'[k].socket = clients[k].socket
                           /\ clients'[k].recvBufSize = clients[k].recvBufSize,
           \A h \in Handles : Stranger(h) => Unheard(peer'[h]),
           \A h \in Handles : h # g /\ ~Stranger(h) =>
               peer'[h] = peer[h] /\ reads'[h] = reads[h] /\ writes'[h] = writes[h],
           \A k \in Keys : clients[k].socket # g => recvBuf'[k] = recvBuf[k] /\ Kept(port, port', k),
           \A k \in Keys \ hit' : Occupied(k) /\ clients[k].socket = g => Talks(k)'
    PROVE  Talking'
<1>1. \A k \in Keys : Occupied(k)' <=> Occupied(k)
  BY DEF Occupied
<1>2. ASSUME NEW k \in Keys \ hit', Occupied(k) PROVE Talks(k)'
  <2>1. CASE clients[k].socket = g
    BY <1>2, <2>1
  <2>2. CASE clients[k].socket # g
    <3>1. k \in Keys /\ Talks(k)
      BY <1>2 DEF Talking
    <3>2. clients[k].socket \in Handles /\ ~Stranger(clients[k].socket)
      BY <1>2, <3>1, OwnedSockets DEF Belonging, Stranger
    <3>3. QED  BY <2>2, <3>1, <3>2, TalkKept
  <2>3. QED  BY <2>1, <2>2
<1>3. \A k \in Keys \ hit' : ~Occupied(k) => clients'[k].recvBufSize = 0
  BY DEF Talking
<1>4. \A h \in Handles : Stranger(h)' => Unheard(peer'[h])
  BY DEF Stranger
<1>5. QED  BY <1>1, <1>2, <1>3, <1>4 DEF Talking

\* A connection is refused: its socket is closed.
LEMMA RefuseTalks ==
    ASSUME Typed, Belonging, Talking, RefuseFull \/ RefuseNoAddress
    PROVE  Talking'
<1> DEFINE a == acceptSocket
<1>1. /\ peer' = [peer EXCEPT ![a] = Nobody]
      /\ UNCHANGED <<reads, writes, port, recvBuf, hit>>
  BY DEF RefuseFull, RefuseNoAddress, Refuse
<1>2. \A k \in Keys : /\ clients'[k].socket = clients[k].socket
                      /\ clients'[k].recvBufSize = clients[k].recvBufSize
  <2>1. CASE UNCHANGED clients
    BY <2>1
  <2>2. CASE RefuseNoAddress
    <3> SUFFICES ASSUME NEW k \in Keys
                 PROVE  /\ clients'[k].socket = clients[k].socket
                        /\ clients'[k].recvBufSize = clients[k].recvBufSize
      OBVIOUS
    <3> DEFINE d == [clients[k] EXCEPT !.id = Number(k), !.age = 0]
    <3>1. clients[k] \in Client
      BY DEF Typed, TypeOK
    <3>2. clients'[k] = clients[k] \/ clients'[k] = d
      BY <2>2 DEF RefuseNoAddress
    <3>3. d.socket = clients[k].socket /\ d.recvBufSize = clients[k].recvBufSize
      BY <3>1 DEF Client
    <3> HIDE DEF d
    <3>4. QED  BY <3>2, <3>3
  <2>3. QED  BY <2>1, <2>2 DEF RefuseFull
<1>3. a \in Handles /\ \A k \in Keys : clients[k].socket # a
  BY DEF Belonging, Owned, Typed, TypeOK
<1>4. /\ \A h \in Handles : h # a => peer'[h] = peer[h]
      /\ peer'[a] = Nobody
  BY <1>1, <1>3 DEF Typed, TypeOK, SockTypeOK
<1>5. Unheard(Nobody)
  BY DEF Unheard, Nobody
<1>6. \A h \in Handles : Stranger(h) => Unheard(peer'[h])
  BY <1>4, <1>5 DEF Talking
<1>7. port \in Seq(Packet)
  BY DEF Typed, TypeOK, SockTypeOK
<1>8. \A k \in Keys : recvBuf'[k] = recvBuf[k] /\ Kept(port, port', k)
  BY <1>1, <1>7, KeptSame
<1> HIDE DEF a
<1>9. QED  BY <1>1, <1>2, <1>3, <1>4, <1>6, <1>8, TalkingOn

\* A peer nobody has read from gets a slot with nothing counted, and a first read.
LEMMA StreamStarts ==
    ASSUME NEW p, Unheard(p), p.key = NoKey, NEW buf, buf \in Buffer,
           NEW rd, rd = <<>> \/ rd = << 0 >>, NEW known
    PROVE  Stream(p, rd, <<>>, 0, buf, 0, known, 0)
<1>1. Len(rd) \in {0, 1} /\ Anew(rd) /\ Len(<<>>) = 0 /\ Settled(<<>>)
  BY DEF Anew, Settled
<1>2. Quiet(rd, 0, 0)
  BY <1>1 DEF Quiet
<1>3. Ended(p, 0, buf, 0)
  BY MessageType DEF Ended
<1>4. p.st = "sending" => 0 < p.msg.len
  BY MessageType DEF Unheard
<1>5. InOrder(p, rd, <<>>, 0, buf, 0, known)
  BY <1>1, <1>2, <1>3, <1>4 DEF Unheard, InOrder, SendingStream
<1>6. InFlightBound(p, rd, <<>>, 0) /\ Fits(0, 0)
  <2>1. Fits(0, 0)
    BY WinsockAssumption DEF Fits
  <2>2. 0 + Len(rd) + Len(<<>>) <= 1
    <3> DEFINE x == Len(rd)
               y == Len(<<>>)
    <3>1. x \in {0, 1} /\ y = 0
      BY <1>1
    <3> HIDE DEF x, y
    <3>2. 0 + x + y <= 1
      BY <3>1
    <3>3. QED  BY <3>2 DEF x, y
  <2>3. QED  BY <2>1, <2>2 DEF InFlightBound
<1>7. QED  BY <1>5, <1>6 DEF Stream

LEMMA AdmitTalks ==
    ASSUME Typed, Belonging, Talking, NEW k \in Keys, Admit(k)
    PROVE  Talking'
<1> DEFINE a == acceptSocket
<1>1. /\ a \in Handles /\ a \in open /\ ~Occupied(k) /\ Stranger(a)
      /\ clients' = [clients EXCEPT ![k] = Slot(k)]
      /\ WSARecv(a, clients[k].recvBufSize)
      /\ UNCHANGED <<writes, port, peer, recvBuf, hit>>
  BY OwnedSockets, Admitted DEF Admit, First, FreeKeys, Belonging, Owned, Stranger
<1>2. /\ Slot(k).socket = a /\ Slot(k).recvBufSize = clients[k].recvBufSize
      /\ clients \in [Keys -> Client]
  <2>1. Slot(k).socket = a /\ Slot(k).recvBufSize = clients[k].recvBufSize
    BY SlotTyped, Admitted
  <2>2. clients \in [Keys -> Client]
    BY DEF Typed, TypeOK
  <2>3. QED  BY <2>1, <2>2
<1>3. /\ \A j \in Keys : clients'[j].socket = IF j = k THEN a ELSE clients[j].socket
      /\ \A j \in Keys : clients'[j].recvBufSize = clients[j].recvBufSize
      /\ \A j \in Keys : Occupied(j)' <=> j = k \/ Occupied(j)
  <2>1. a # INVALID_SOCKET
    BY <1>1, WinsockAssumption
  <2>2. QED  BY <1>1, <1>2, <2>1 DEF Occupied
<1>4. \A h \in Handles : h # a => reads'[h] = reads[h]
  BY <1>1, CallsOn
<1>5. ASSUME NEW j \in Keys \ hit', Occupied(j) PROVE Talks(j)'
  <2>1. j \in Keys /\ Talks(j) /\ j # k
    BY <1>1, <1>5 DEF Talking
  <2>2. clients[j].socket \in Handles /\ clients[j].socket # a
    BY <1>1, <1>5, OwnedSockets DEF Belonging, Stranger
  <2>3. port \in Seq(Packet)
    BY DEF Typed, TypeOK, SockTypeOK
  <2>4. Kept(port, port', j)
    BY <1>1, <2>3, KeptSame
  <2>5. QED  BY <1>1, <1>3, <1>4, <2>1, <2>2, <2>4, TalkKept
<1>6. ASSUME k \notin hit' PROVE Talks(k)'
  <2>1. clients[k].recvBufSize = 0
    BY <1>1, <1>6 DEF Talking
  <2>2. reads[a] = <<>> /\ writes[a] = <<>> /\ peer[a].key = NoKey /\ Unheard(peer[a])
    BY <1>1 DEF Belonging, Unused, Talking
  <2>3. reads'[a] = <<>> \/ reads'[a] = << 0 >>
    <3>1. reads'[a] = IF Usable(a) THEN Append(reads[a], 0) ELSE reads[a]
      BY <1>1, <2>1, CallsOn
    <3>2. Append(<<>>, 0) = << 0 >>
      OBVIOUS
    <3>3. QED  BY <2>2, <3>1, <3>2
  <2>4. recvBuf[k] \in Buffer /\ port \in Seq(Packet)
    BY DEF Typed, TypeOK, SockTypeOK
  <2>5. \A i \in DOMAIN port : ~Present(port[i], k)
    BY <1>1 DEF Belonging, Queued, Belongs, Present
  <2>6. PICK known \in SUBSET {0} : InPort(port, k, 0, known, 0)
    BY <2>4, <2>5, InPortNone
  <2>7. Stream(peer[a], reads'[a], <<>>, 0, recvBuf[k], 0, known, 0)
    BY <2>2, <2>3, <2>4, StreamStarts
  <2>8. clients'[k].socket = a /\ clients'[k].recvBufSize = 0
    BY <1>3, <2>1
  <2>9. QED  BY <1>1, <2>2, <2>6, <2>7, <2>8 DEF Talks
<1>7. \A j \in Keys \ hit' : ~Occupied(j)' => clients'[j].recvBufSize = 0
  BY <1>1, <1>3 DEF Talking
<1>8. \A h \in Handles : Stranger(h)' => Unheard(peer'[h])
  <2>1. ASSUME NEW h \in Handles, Stranger(h)' PROVE Stranger(h)
    BY <1>1, <1>3, <2>1, WinsockAssumption DEF Stranger, Occupied
  <2>2. QED  BY <1>1, <2>1 DEF Talking
<1>9. \A j \in Keys \ hit' : Occupied(j)' => Talks(j)'
  BY <1>3, <1>5, <1>6
<1>10. QED  BY <1>7, <1>8, <1>9 DEF Talking

\* The port after a slot is freed: for the other slots it is its tail.
LEMMA KeptMarked ==
    ASSUME NEW q \in Seq(Packet), q # <<>>, Head(q).op = "cancel", NEW k, NEW j, j # k,
           NEW r, r = [i \in 1 .. Len(q) - 1 |-> [q[i + 1] EXCEPT !.stale = @ \/ q[i + 1].key = k]]
    PROVE  Kept(q, r, j)
<1> DEFINE t == Tail(q)
<1>1. /\ t \in Seq(Packet) /\ Len(t) = Len(q) - 1 /\ DOMAIN t = 1 .. Len(q) - 1
      /\ Len(q) - 1 \in Nat /\ \A i \in DOMAIN t : t[i] = q[i + 1] /\ t[i] \in Packet
      /\ Head(q) \in Packet
  OBVIOUS
<1>2. Kept(q, t, j)
  <2>1. Bytes(j)[Head(q)] = 0
    BY <1>1 DEF Bytes
  <2>2. QED  BY <2>1, KeptTail
<1>3. DOMAIN r = DOMAIN t /\ Len(r) = Len(t)
  BY <1>1
<1>4. ASSUME NEW i \in DOMAIN t
      PROVE  Bytes(j)[r[i]] = Bytes(j)[t[i]] /\ Ops(j)[r[i]] = Ops(j)[t[i]]
  <2> DEFINE p == t[i]
             m == [p EXCEPT !.stale = p.stale \/ p.key = k]
  <2>1. r[i] = m /\ p \in Packet
    BY <1>1, <1>4
  <2>2. /\ m.op = p.op /\ m.key = p.key /\ m.n = p.n /\ m \in Packet
        /\ m.stale <=> p.stale \/ p.key = k
    BY <2>1 DEF Packet
  <2> HIDE DEF m, p
  <2>3. Present(m, j) <=> Present(p, j)
    BY <2>2 DEF Present
  <2>4. Bytes(j)[m] = Bytes(j)[p] /\ Ops(j)[m] = Ops(j)[p]
    BY <2>1, <2>2, <2>3 DEF Bytes, Ops
  <2>5. QED  BY <2>1, <2>4 DEF p
<1> HIDE DEF t
<1>5. SUFFICES ASSUME NEW b, NEW sizes, NEW n, InPort(q, j, b, sizes, n)
               PROVE  \E known \in SUBSET (sizes \cup {0}), u \in Nat :
                         u <= n /\ InPort(r, j, b, known, u)
  BY DEF Kept
<1>6. PICK known \in SUBSET (sizes \cup {0}), u \in Nat : u <= n /\ InPort(t, j, b, known, u)
  BY <1>2, <1>5 DEF Kept
<1>7. InPort(r, j, b, known, u)
  BY <1>1, <1>3, <1>4, <1>6, InPortSame
<1>8. QED  BY <1>6, <1>7

LEMMA CancelledTalks ==
    ASSUME Typed, Belonging, Talking, Cancelled
    PROVE  Talking'
<1>1. PICK k \in Keys : k = Head(port).key
  BY HeadOfPort DEF Cancelled, Gets
<1> DEFINE s == clients[k].socket
<1>2. port # <<>> /\ port \in Seq(Packet) /\ Head(port).op = "cancel" /\ UNCHANGED hit
  BY DEF Cancelled, Gets, Typed, TypeOK, SockTypeOK
<1>3. CASE s = INVALID_SOCKET
  <2>1. /\ port' = Tail(port)
        /\ UNCHANGED <<reads, writes, peer, recvBuf, clients>>
    BY <1>1, <1>3, Zenon DEF Cancelled
  <2>2. \A j \in Keys : Kept(port, port', j)
    BY <1>2, <2>1, NoData
  <2>3. QED  BY <1>2, <2>1, <2>2, TalkingKept
<1>4. CASE s # INVALID_SOCKET
  <2>1. s \in open /\ s \in Handles /\ Occupied(k)
    BY <1>1, <1>4, OwnedSockets DEF Belonging, Occupied
  <2>2. /\ Close(s)
        /\ clients' = [clients EXCEPT ![k] = FreeClient]
        /\ recvBuf' = [recvBuf EXCEPT ![k] = Zeroed]
        /\ port' = [i \in 1 .. Len(port) - 1 |->
                     [port[i + 1] EXCEPT !.stale = @ \/ port[i + 1].key = k]]
    BY <1>1, <1>4, <2>1, Zenon DEF Cancelled, closesocket
  <2>3. /\ peer' = [peer EXCEPT ![s] = Nobody]
        /\ reads' = [reads EXCEPT ![s] = <<>>]
        /\ writes' = [writes EXCEPT ![s] = <<>>]
    BY <2>2 DEF Close
  <2>4. /\ \A j \in Keys : j # k => clients'[j] = clients[j] /\ recvBuf'[j] = recvBuf[j]
        /\ clients'[k].socket = INVALID_SOCKET /\ clients'[k].recvBufSize = 0
        /\ \A j \in Keys : Occupied(j)' <=> Occupied(j) /\ j # k
        /\ \A j \in Keys : j # k => clients[j].socket # s
    <3>1. FreeClient.socket = INVALID_SOCKET /\ FreeClient.recvBufSize = 0
      BY DEF FreeClient
    <3>2. clients \in [Keys -> Client] /\ recvBuf \in [Keys -> Buffer]
      BY DEF Typed, TypeOK, SockTypeOK
    <3>3. \A j \in Keys : j # k => clients[j].socket # s
      BY <2>1 DEF Belonging, Owned
    <3>4. QED  BY <2>2, <3>1, <3>2, <3>3 DEF Occupied
  <2>5. /\ \A h \in Handles : h # s =>
               peer'[h] = peer[h] /\ reads'[h] = reads[h] /\ writes'[h] = writes[h]
        /\ peer'[s] = Nobody /\ writes'[s] = <<>>
    BY <2>1, <2>3 DEF Typed, TypeOK, SockTypeOK
  <2>6. ASSUME NEW j \in Keys \ hit', Occupied(j)' PROVE Talks(j)'
    <3>1. j \in Keys /\ Talks(j) /\ Occupied(j) /\ j # k
      BY <1>2, <2>4, <2>6 DEF Talking
    <3>2. clients[j].socket \in Handles /\ clients[j].socket # s
      BY <2>4, <3>1, OwnedSockets DEF Belonging
    <3>3. Kept(port, port', j)
      BY <1>2, <2>2, <3>1, KeptMarked
    <3>4. QED  BY <2>4, <2>5, <3>1, <3>2, <3>3, TalkKept
  <2>7. \A j \in Keys \ hit' : ~Occupied(j)' => clients'[j].recvBufSize = 0
    BY <1>2, <2>4 DEF Talking
  <2>8. \A h \in Handles : Stranger(h)' => Unheard(peer'[h])
    <3>1. ASSUME NEW h \in Handles, Stranger(h)' PROVE Stranger(h) \/ h = s
      BY <2>4, <3>1 DEF Stranger
    <3>2. Unheard(Nobody)
      BY DEF Unheard, Nobody
    <3>3. QED  BY <2>5, <3>1, <3>2 DEF Talking
  <2>9. QED  BY <2>6, <2>7, <2>8 DEF Talking
<1>5. QED  BY <1>3, <1>4

(***************************************************************************)
(* The kernel and the peers.                                               *)
(***************************************************************************)
Speaks(k, b, sizes, t) ==
    /\ InPort(port, k, b, sizes, t)
    /\ StreamType(peer[clients[k].socket], reads[clients[k].socket], writes[clients[k].socket],
                  clients[k].recvBufSize, recvBuf[k], b, sizes, t)
    /\ Stream(peer[clients[k].socket], reads[clients[k].socket], writes[clients[k].socket],
              clients[k].recvBufSize, recvBuf[k], b, sizes, t)

LEMMA ClientSpeaks ==
    ASSUME Typed, Talking, NEW k \in Keys, k \notin hit, Occupied(k), clients[k].socket \in Handles
    PROVE  \E b, sizes, t : Speaks(k, b, sizes, t)
<1>1. PICK b, sizes, t :
        /\ InPort(port, k, b, sizes, t)
        /\ Stream(peer[clients[k].socket], reads[clients[k].socket], writes[clients[k].socket],
                  clients[k].recvBufSize, recvBuf[k], b, sizes, t)
  BY DEF Talking, Talks
<1>2. StreamType(peer[clients[k].socket], reads[clients[k].socket], writes[clients[k].socket],
                 clients[k].recvBufSize, recvBuf[k], b, sizes, t)
  BY <1>1, TalkType
<1>3. Speaks(k, b, sizes, t)
  BY <1>1, <1>2 DEF Speaks
<1>4. QED  BY <1>3

\* The packet of another slot is queued.
LEMMA KeptOther ==
    ASSUME NEW q \in Seq(Packet), NEW k, NEW p \in Packet, p.key # k
    PROVE  Kept(q, Append(q, p), k)
<1>1. <<p>> \in Seq(Packet) /\ \A i \in DOMAIN <<p>> : <<p>>[i] = p
  OBVIOUS
<1>2. ~Present(p, k)
  BY DEF Present
<1> DEFINE s == <<p>>
<1>3. q \o s = Append(q, p)
  OBVIOUS
<1>4. \A i \in DOMAIN s : ~Present(s[i], k)
  BY <1>1, <1>2
<1> HIDE DEF s
<1>5. Kept(q, q \o s, k)
  BY <1>1, <1>4, KeptSame, KeptMore DEF s
<1>6. QED  BY <1>3, <1>5

LEMMA FailuresTalk ==
    ASSUME Typed, Belonging, Talking, UNCHANGED serverVars, AcceptFails \/ AbortCompletes
    PROVE  Talking'
<1>1. /\ UNCHANGED <<clients, hit, peer, recvBuf, reads, writes>>
      /\ port' = port \o FailedPackets(1)
  BY DEF serverVars, AcceptFails, AbortCompletes
<1>2. port \in Seq(Packet)
  BY DEF Typed, TypeOK, SockTypeOK
<1> DEFINE f == FailedPackets(1)
<1>3. ASSUME NEW k \in Keys PROVE Kept(port, port', k)
  <2>1. f \in Seq(Packet) /\ \A i \in DOMAIN f : ~Present(f[i], k)
    BY FailedAbsent
  <2> HIDE DEF f
  <2>2. Kept(port, port \o f, k)
    BY <1>2, <2>1, KeptSame, KeptMore
  <2>3. QED  BY <1>1, <2>2 DEF f
<1>4. QED  BY <1>1, <1>3, TalkingKept

LEMMA PeerConnectsTalks ==
    ASSUME Typed, Belonging, Talking, OneAccept, UNCHANGED serverVars, PeerConnects
    PROVE  Talking'
<1> DEFINE a == acceptSocket
           p == NewPacket("accept", 0, 0)
<1>1. accepting = a
  BY DEF PeerConnects, OneAccept
<1>2. /\ UNCHANGED <<clients, hit, recvBuf, reads, writes>>
      /\ port' = Append(port, p) /\ peer' = [peer EXCEPT ![a] = Connected]
  BY <1>1 DEF serverVars, PeerConnects
<1>3. port \in Seq(Packet) /\ peer \in [Handles -> Peer] /\ a \in Handles
  BY DEF Typed, TypeOK, SockTypeOK
<1>4. \A k \in Keys : clients[k].socket # a
  BY DEF Belonging, Owned
<1>5. p \in Packet /\ p.op \notin {"recv", "send"}
  BY PacketsAreTyped DEF NewPacket
<1>6. \A h \in Handles : h # a => peer'[h] = peer[h]
  BY <1>2, <1>3
<1>7. \A h \in Handles : Stranger(h) => Unheard(peer'[h])
  <2>1. Unheard(Connected)
    BY DEF Unheard, Connected, Nobody
  <2>2. QED  BY <1>2, <1>3, <1>6, <2>1 DEF Talking
<1> HIDE DEF p
<1>8. \A k \in Keys : recvBuf'[k] = recvBuf[k] /\ Kept(port, port', k)
  BY <1>2, <1>3, <1>5, KeptSame, KeptPosted
<1> HIDE DEF a
<1>9. QED  BY <1>2, <1>4, <1>6, <1>7, <1>8, TalkingOn

\* A peer that sends or goes: if it is a client's, its stream takes note.
LEMMA PeerTalks ==
    ASSUME Typed, Belonging, Talking, UNCHANGED serverVars, NEW h \in Handles,
           UNCHANGED <<port, recvBuf>>,
           NEW p, peer' = [peer EXCEPT ![h] = p], Unheard(peer[h]) => Unheard(p),
           \/ UNCHANGED <<reads, writes>>
           \/ /\ reads' = [reads EXCEPT ![h] = <<>>]
              /\ writes' = [writes EXCEPT ![h] = <<>>],
           \A rd, wr, size, buf, b, sizes, t :
              StreamType(peer[h], rd, wr, size, buf, b, sizes, t)
              /\ Stream(peer[h], rd, wr, size, buf, b, sizes, t)
              => Stream(p, rd, wr, size, buf, b, sizes, t)
                 /\ Stream(p, <<>>, <<>>, size, buf, b, sizes, t)
    PROVE  Talking'
<1>1. UNCHANGED <<clients, hit>>
  BY DEF serverVars
<1>2. /\ peer \in [Handles -> Peer] /\ reads \in [Handles -> Seq(Nat)]
      /\ writes \in [Handles -> Seq(Write)] /\ port \in Seq(Packet)
  BY DEF Typed, TypeOK, SockTypeOK
<1>3. /\ \A g \in Handles : g # h =>
             peer'[g] = peer[g] /\ reads'[g] = reads[g] /\ writes'[g] = writes[g]
      /\ peer'[h] = p
      /\ \/ reads'[h] = reads[h] /\ writes'[h] = writes[h]
         \/ reads'[h] = <<>> /\ writes'[h] = <<>>
  BY <1>2
<1>4. \A g \in Handles : Stranger(g) => Unheard(peer'[g])
  BY <1>3 DEF Talking
<1>5. \A k \in Keys : recvBuf'[k] = recvBuf[k] /\ Kept(port, port', k)
  BY <1>2, KeptSame
<1>6. ASSUME NEW k \in Keys \ hit', Occupied(k), clients[k].socket = h PROVE Talks(k)'
  <2>1. PICK b, sizes, t : Speaks(k, b, sizes, t)
    BY <1>1, <1>6, ClientSpeaks
  <2> DEFINE rd == reads[h]
             wr == writes[h]
             size == clients[k].recvBufSize
             buf == recvBuf[k]
  <2>2. /\ StreamType(peer[h], rd, wr, size, buf, b, sizes, t)
        /\ Stream(peer[h], rd, wr, size, buf, b, sizes, t)
        /\ InPort(port, k, b, sizes, t)
    BY <1>6, <2>1 DEF Speaks
  <2>3. Stream(p, rd, wr, size, buf, b, sizes, t) /\ Stream(p, <<>>, <<>>, size, buf, b, sizes, t)
    <3> HIDE DEF rd, wr, size, buf
    <3>1. QED  BY <2>2
  <2>4. Stream(peer'[h], reads'[h], writes'[h], size, buf, b, sizes, t)
    BY <1>3, <2>3
  <2>5. QED  BY <1>1, <1>6, <2>2, <2>4 DEF Talks
<1>7. QED  BY <1>1, <1>3, <1>4, <1>5, <1>6, TalkingOn

LEMMA PeerSendsTalks ==
    ASSUME Typed, Belonging, Talking, UNCHANGED serverVars, NEW h \in Handles,
           NEW m \in Messages, PeerSends(h, m)
    PROVE  Talking'
<1> DEFINE q == peer[h]
           p == [q EXCEPT !.st = "sending", !.msg = m, !.next = 0, !.got = 0]
<1>1. /\ q.st = "idle" /\ (m.kind = "key" <=> q.key = NoKey)
      /\ UNCHANGED <<reads, writes, port, recvBuf>>
      /\ q \in Peer
  BY DEF PeerSends, Typed, TypeOK, SockTypeOK
<1>2. peer' = [peer EXCEPT ![h] = p]
  BY Zenon DEF PeerSends
<1>3. p \in Peer /\ p.st = "sending" /\ p.msg = m /\ p.next = 0 /\ p.got = 0 /\ p.key = q.key
  <2>1. "sending" \in PeerStates
    BY DEF PeerStates
  <2>2. QED  BY <1>1, <2>1 DEF Peer
<1>4. Unheard(p)
  BY <1>1, <1>3 DEF Unheard, AsksFirst
<1>5. ASSUME NEW rd, NEW wr, NEW size, NEW buf, NEW b, NEW sizes, NEW t,
             StreamType(q, rd, wr, size, buf, b, sizes, t),
             Stream(q, rd, wr, size, buf, b, sizes, t)
      PROVE  Stream(p, rd, wr, size, buf, b, sizes, t)
             /\ Stream(p, <<>>, <<>>, size, buf, b, sizes, t)
  <2> HIDE DEF q
  <2>1. Stream(p, rd, wr, size, buf, b, sizes, t)
    BY <1>1, <1>5, StreamSends
  <2>2. StreamType(p, rd, wr, size, buf, b, sizes, t)
    BY <1>3, <1>5 DEF StreamType
  <2> HIDE DEF p
  <2>3. QED  BY <2>1, <2>2, StreamCancelled
<1>6. \A rd, wr, size, buf, b, sizes, t :
         StreamType(q, rd, wr, size, buf, b, sizes, t)
         /\ Stream(q, rd, wr, size, buf, b, sizes, t)
         => Stream(p, rd, wr, size, buf, b, sizes, t)
            /\ Stream(p, <<>>, <<>>, size, buf, b, sizes, t)
  BY <1>5
<1> HIDE DEF p
<1>7. QED  BY <1>1, <1>2, <1>4, <1>6, PeerTalks

LEMMA PeerLeavesTalks ==
    ASSUME Typed, Belonging, Talking, UNCHANGED serverVars, NEW h \in Handles,
           PeerCloses(h) \/ PeerResets(h)
    PROVE  Talking'
<1> DEFINE q == peer[h]
<1>1. PICK st \in {"fin", "reset"} : peer' = [peer EXCEPT ![h] = [Nobody EXCEPT !.st = st, !.key = q.key]]
  BY Zenon DEF PeerCloses, PeerResets
<1>2. /\ UNCHANGED <<port, recvBuf>>
      /\ \/ UNCHANGED <<reads, writes>>
         \/ /\ reads' = [reads EXCEPT ![h] = <<>>]
            /\ writes' = [writes EXCEPT ![h] = <<>>]
  BY DEF PeerCloses, PeerResets
<1> DEFINE p == [Nobody EXCEPT !.st = st, !.key = q.key]
<1>3. q \in Peer
  BY DEF Typed, TypeOK, SockTypeOK
<1>4. p \in Peer /\ p.st = st /\ p.key = q.key
  <2>1. p.st = st /\ p.key = q.key /\ p.msg = NoMessage /\ p.next = 0 /\ p.got = 0
    BY DEF Nobody
  <2>2. q.key \in Handles \cup {NoKey} /\ st \in PeerStates
    BY <1>3 DEF Peer, PeerStates
  <2>3. p \in Peer
    BY <2>2 DEF Nobody, Peer
  <2>4. QED  BY <2>1, <2>3
<1>5. Unheard(p)
  BY <1>4 DEF Unheard
<1>6. ASSUME NEW rd, NEW wr, NEW size, NEW buf, NEW b, NEW sizes, NEW t,
             StreamType(q, rd, wr, size, buf, b, sizes, t),
             Stream(q, rd, wr, size, buf, b, sizes, t)
      PROVE  Stream(p, rd, wr, size, buf, b, sizes, t)
             /\ Stream(p, <<>>, <<>>, size, buf, b, sizes, t)
  <2> HIDE DEF q
  <2>1. Stream(p, rd, wr, size, buf, b, sizes, t)
    BY <1>6, StreamCloses
  <2>2. StreamType(p, rd, wr, size, buf, b, sizes, t)
    BY <1>4, <1>6 DEF StreamType
  <2> HIDE DEF p
  <2>3. QED  BY <2>1, <2>2, StreamCancelled
<1>7. \A rd, wr, size, buf, b, sizes, t :
         StreamType(q, rd, wr, size, buf, b, sizes, t)
         /\ Stream(q, rd, wr, size, buf, b, sizes, t)
         => Stream(p, rd, wr, size, buf, b, sizes, t)
            /\ Stream(p, <<>>, <<>>, size, buf, b, sizes, t)
  BY <1>6
<1>8. peer' = [peer EXCEPT ![h] = p]
  BY <1>1
<1> HIDE DEF p
<1>9. QED  BY <1>2, <1>5, <1>7, <1>8, PeerTalks

\* I/O completes on the socket of a client; no packet but its own is queued.
LEMMA CompletionTalks ==
    ASSUME Typed, Belonging, Talking, UNCHANGED serverVars, NEW h \in Handles,
           NEW k \in Keys, clients[k].socket = h, Occupied(k),
           \A g \in Handles : g # h =>
               peer'[g] = peer[g] /\ reads'[g] = reads[g] /\ writes'[g] = writes[g],
           \A j \in Keys : j # k => recvBuf'[j] = recvBuf[j],
           UNCHANGED port \/ \E p \in Packet : p.key = k /\ port' = Append(port, p),
           k \notin hit => Talks(k)'
    PROVE  Talking'
<1>1. UNCHANGED <<clients, hit>> /\ port \in Seq(Packet)
  BY DEF serverVars, Typed, TypeOK, SockTypeOK
<1>2. \A j \in Keys : clients[j].socket = h => j = k
  BY DEF Belonging, Owned
<1>3. \A g \in Handles : Stranger(g) => Unheard(peer'[g])
  BY DEF Stranger, Talking
<1>4. ASSUME NEW j \in Keys, j # k PROVE Kept(port, port', j)
  <2>1. CASE UNCHANGED port
    BY <1>1, <2>1, KeptSame
  <2>2. ASSUME NEW p \in Packet, p.key = k, port' = Append(port, p)
        PROVE  Kept(port, port', j)
    BY <1>1, <1>4, <2>2, KeptOther
  <2>3. QED  BY <2>1, <2>2
<1>5. \A j \in Keys \ hit' : Occupied(j) /\ clients[j].socket = h => Talks(j)'
  BY <1>1, <1>2
<1>6. \A j \in Keys : clients[j].socket # h => recvBuf'[j] = recvBuf[j] /\ Kept(port, port', j)
  BY <1>4
<1>7. \A j \in Keys : /\ clients'[j].socket = clients[j].socket
                      /\ clients'[j].recvBufSize = clients[j].recvBufSize
  BY <1>1
<1>8. QED  BY <1>1, <1>3, <1>5, <1>6, <1>7, TalkingOn, ZenonT(40)

\* I/O in flight on a socket is that of the client whose socket it is.
LEMMA OwnerOf ==
    ASSUME Typed, Belonging, NEW h \in Handles, reads[h] # <<>> \/ writes[h] # <<>>
    PROVE  \E k \in Keys : clients[k].socket = h /\ Occupied(k) /\ assoc[h] = k
<1>1. ~Stranger(h)
  BY DEF Belonging, Unused
<1>2. QED  BY <1>1, WinsockAssumption DEF Stranger, Belonging, Associated, Occupied

\* A new packet of a slot.
LEMMA PacketQueued ==
    ASSUME NEW q \in Seq(Packet), NEW k \in Keys, NEW b, NEW sizes, NEW t, InPort(q, k, b, sizes, t),
           NEW op \in {"recv", "send"}, NEW n \in Nat, NEW m, m = IF op = "recv" THEN n ELSE 0
    PROVE  /\ NewPacket(op, k, n) \in Packet /\ NewPacket(op, k, n).key = k
           /\ \E known \in SUBSET (sizes \cup {m}) :
                 InPort(Append(q, NewPacket(op, k, n)), k, b + m, known, t + 1)
<1> DEFINE p == NewPacket(op, k, n)
<1>1. p \in Packet
  BY PacketsAreTyped
<1>2. p.key = k /\ p.op = op /\ p.n = n /\ ~p.stale
  BY DEF NewPacket
<1> HIDE DEF p
<1>3. Bytes(k)[p] = m /\ Ops(k)[p] = 1
  BY <1>1, <1>2 DEF Bytes, Ops, Present
<1>4. \E known \in SUBSET (sizes \cup {Bytes(k)[p]}) :
          InPort(Append(q, p), k, b + Bytes(k)[p], known, t + Ops(k)[p])
  BY <1>1, InPortAppend
<1>5. \E known \in SUBSET (sizes \cup {m}) : InPort(Append(q, p), k, b + m, known, t + 1)
  BY <1>3, <1>4
<1>6. QED  BY <1>1, <1>2, <1>5 DEF p

LEMMA DeliverEofTalks ==
    ASSUME Typed, Belonging, Talking, UNCHANGED serverVars, NEW h \in Handles, DeliverEof(h)
    PROVE  Talking'
<1>1. PICK k \in Keys : clients[k].socket = h /\ Occupied(k) /\ assoc[h] = k
  BY OwnerOf DEF DeliverEof
<1> DEFINE p == NewPacket("recv", k, 0)
<1>2. /\ UNCHANGED <<peer, recvBuf, writes, clients, hit>>
      /\ reads[h] # <<>> /\ reads' = [reads EXCEPT ![h] = Tail(reads[h])]
      /\ port' = Append(port, p)
  BY <1>1 DEF DeliverEof, serverVars
<1>3. port \in Seq(Packet) /\ reads \in [Handles -> Seq(Nat)]
  BY DEF Typed, TypeOK, SockTypeOK
<1>4. p \in Packet /\ p.key = k
  BY PacketsAreTyped DEF NewPacket
<1>5. reads'[h] = Tail(reads[h]) /\ \A g \in Handles : g # h => reads'[g] = reads[g]
  BY <1>2, <1>3
<1>6. ASSUME k \notin hit PROVE Talks(k)'
  <2>1. PICK b, sizes, t : Speaks(k, b, sizes, t)
    BY <1>1, <1>6, ClientSpeaks
  <2> DEFINE size == clients[k].recvBufSize
             buf == recvBuf[k]
             rd == reads[h]
  <2>2. /\ InPort(port, k, b, sizes, t)
        /\ StreamType(peer[h], rd, writes[h], size, buf, b, sizes, t)
        /\ Stream(peer[h], rd, writes[h], size, buf, b, sizes, t)
    BY <1>1, <2>1 DEF Speaks
  <2>3. b \in Nat
    BY <2>2 DEF StreamType
  <2>4. PICK known \in SUBSET (sizes \cup {0}) : InPort(port', k, b + 0, known, t + 1)
    BY <1>2, <1>3, <2>2, PacketQueued
  <2>5. Stream(peer[h], Tail(rd), writes[h], size, buf, b, known, t + 1)
    <3> HIDE DEF rd, size, buf
    <3>1. rd # <<>>
      BY <1>2 DEF rd
    <3>2. QED  BY <2>2, <2>4, <3>1, StreamReadsNothing
  <2>6. b + 0 = b
    BY <2>3
  <2>7. QED  BY <1>1, <1>2, <1>5, <2>4, <2>5, <2>6 DEF Talks
<1> HIDE DEF p
<1>7. QED  BY <1>1, <1>2, <1>4, <1>5, <1>6, CompletionTalks

LEMMA SendCompletesTalks ==
    ASSUME Typed, Belonging, Talking, UNCHANGED serverVars, NEW h \in Handles, SendCompletes(h)
    PROVE  Talking'
<1>1. PICK k \in Keys : clients[k].socket = h /\ Occupied(k) /\ assoc[h] = k
  BY OwnerOf DEF SendCompletes
<1> DEFINE wr == writes[h]
           n == Head(wr).n
           p == NewPacket("send", k, n)
<1>2. /\ UNCHANGED <<peer, recvBuf, reads, clients, hit>>
      /\ wr # <<>> /\ Head(wr).sent /\ writes' = [writes EXCEPT ![h] = Tail(wr)]
      /\ port' = Append(port, p)
  BY <1>1 DEF SendCompletes, serverVars
<1>3. /\ port \in Seq(Packet) /\ writes \in [Handles -> Seq(Write)] /\ wr \in Seq(Write)
  BY DEF Typed, TypeOK, SockTypeOK
<1>4. n \in Nat
  <2> HIDE DEF wr
  <2>1. Head(wr) \in Write
    BY <1>2, <1>3
  <2>2. QED  BY <2>1 DEF Write
<1>5. p \in Packet /\ p.key = k
  BY <1>4, PacketsAreTyped DEF NewPacket
<1>6. writes'[h] = Tail(wr) /\ \A g \in Handles : g # h => writes'[g] = writes[g]
  BY <1>2, <1>3
<1> HIDE DEF n
<1>7. ASSUME k \notin hit PROVE Talks(k)'
  <2>1. PICK b, sizes, t : Speaks(k, b, sizes, t)
    BY <1>1, <1>7, ClientSpeaks
  <2> DEFINE size == clients[k].recvBufSize
             buf == recvBuf[k]
  <2>2. /\ InPort(port, k, b, sizes, t)
        /\ StreamType(peer[h], reads[h], wr, size, buf, b, sizes, t)
        /\ Stream(peer[h], reads[h], wr, size, buf, b, sizes, t)
    BY <1>1, <2>1 DEF Speaks
  <2>3. b \in Nat
    BY <2>2 DEF StreamType
  <2>4. PICK known \in SUBSET (sizes \cup {0}) : InPort(port', k, b + 0, known, t + 1)
    BY <1>2, <1>3, <1>4, <2>2, PacketQueued
  <2>5. Stream(peer[h], reads[h], Tail(wr), size, buf, b, known, t + 1)
    <3> HIDE DEF wr, size, buf
    <3>1. QED  BY <1>2, <2>2, <2>4, StreamWritten
  <2>6. b + 0 = b
    BY <2>3
  <2>7. QED  BY <1>1, <1>2, <1>6, <2>4, <2>5, <2>6 DEF Talks
<1> HIDE DEF p, wr
<1>8. QED  BY <1>1, <1>2, <1>5, <1>6, <1>7, CompletionTalks

LEMMA TransmitTalks ==
    ASSUME Typed, Belonging, Talking, UNCHANGED serverVars, NEW h \in Handles,
           NEW i \in DOMAIN writes[h], NEW n \in 1 .. writes[h][i].n, Transmit(h, i, n)
    PROVE  Talking'
<1> DEFINE wr == writes[h]
           w == [wr[i] EXCEPT !.n = n, !.sent = TRUE]
           r == [wr EXCEPT ![i] = w]
           q == Given(peer[h], wr[i], n)
<1>1. /\ UNCHANGED <<recvBuf, reads, port, clients, hit>> /\ ~wr[i].sent
      /\ writes' = [writes EXCEPT ![h][i] = w]
      /\ peer' = [peer EXCEPT ![h] = q]
  BY DEF Transmit, serverVars
<1>2. /\ port \in Seq(Packet) /\ writes \in [Handles -> Seq(Write)] /\ wr \in Seq(Write)
      /\ peer \in [Handles -> Peer]
  BY DEF Typed, TypeOK, SockTypeOK
<1>3. wr # <<>>
  BY <1>2
<1>4. PICK k \in Keys : clients[k].socket = h /\ Occupied(k)
  BY <1>3, OwnerOf
<1>5. /\ writes'[h] = r /\ peer'[h] = q
      /\ \A g \in Handles : g # h => writes'[g] = writes[g] /\ peer'[g] = peer[g]
  <2> HIDE DEF w, q
  <2>1. QED  BY <1>1, <1>2
<1>6. ASSUME k \notin hit PROVE Talks(k)'
  <2>1. PICK b, sizes, t : Speaks(k, b, sizes, t)
    BY <1>4, <1>6, ClientSpeaks
  <2> DEFINE size == clients[k].recvBufSize
             buf == recvBuf[k]
             p == peer[h]
             rd == reads[h]
  <2>2. /\ InPort(port, k, b, sizes, t)
        /\ StreamType(p, rd, wr, size, buf, b, sizes, t)
        /\ Stream(p, rd, wr, size, buf, b, sizes, t)
    BY <1>4, <2>1 DEF Speaks
  <2>3. Stream(Given(p, wr[i], n), rd, r, size, buf, b, sizes, t)
    <3>1. i \in DOMAIN wr /\ ~wr[i].sent /\ n \in 1 .. wr[i].n
      BY <1>1
    <3> HIDE DEF wr, size, buf, p, rd
    <3>2. QED  BY <2>2, <3>1, StreamTransmits
  <2>4. Stream(peer'[h], reads'[h], writes'[h], size, buf, b, sizes, t)
    <3>1. reads'[h] = rd
      BY <1>1
    <3>2. Stream(q, rd, r, size, buf, b, sizes, t)
      BY <2>3
    <3> HIDE DEF r, size, buf, q, rd
    <3>3. QED  BY <1>5, <3>1, <3>2
  <2> HIDE DEF r, wr, q
  <2>5. QED  BY <1>1, <1>4, <2>2, <2>4 DEF Talks
<1> HIDE DEF r, w, q
<1>7. QED  BY <1>1, <1>4, <1>5, <1>6, CompletionTalks

LEMMA DeliverTalks ==
    ASSUME Typed, Belonging, Talking, UNCHANGED serverVars, NEW h \in Handles,
           NEW n \in Nat, Deliver(h, n)
    PROVE  Talking'
<1>1. PICK k \in Keys : clients[k].socket = h /\ Occupied(k) /\ assoc[h] = k
  BY OwnerOf DEF Deliver
<1> DEFINE q == peer[h]
           rd == reads[h]
           at == Head(rd)
           p == NewPacket("recv", k, n)
           buf == recvBuf[k]
           new == IF n = 0 THEN buf ELSE Written(buf, at, q.msg, q.next, n)
           size == clients[k].recvBufSize
<1>2. /\ UNCHANGED <<writes, clients, hit>>
      /\ q.st = "sending" /\ rd # <<>> /\ n <= q.msg.len - q.next
      /\ IF at < MAX_BUF_SIZE THEN n \in 1 .. (MAX_BUF_SIZE - at) ELSE n = 0
      /\ peer' = [peer EXCEPT ![h] = Taken(q, n)]
      /\ recvBuf' = IF n = 0 THEN recvBuf
                    ELSE [recvBuf EXCEPT ![k] = Written(recvBuf[k], at, q.msg, q.next, n)]
      /\ port' = Append(port, p)
      /\ reads' = [reads EXCEPT ![h] = Tail(rd)]
  BY <1>1, Zenon DEF Deliver, serverVars
<1>3. /\ port \in Seq(Packet) /\ reads \in [Handles -> Seq(Nat)] /\ peer \in [Handles -> Peer]
      /\ recvBuf \in [Keys -> Buffer] /\ q \in Peer /\ rd \in Seq(Nat)
  BY DEF Typed, TypeOK, SockTypeOK
<1>4. p \in Packet /\ p.key = k
  BY PacketsAreTyped DEF NewPacket
<1>5. /\ reads'[h] = Tail(rd) /\ peer'[h] = Taken(q, n)
      /\ \A g \in Handles : g # h => reads'[g] = reads[g] /\ peer'[g] = peer[g]
  <2> HIDE DEF rd, q
  <2>1. QED  BY <1>2, <1>3
<1>6. recvBuf'[k] = new /\ \A j \in Keys : j # k => recvBuf'[j] = recvBuf[j]
  <2> DEFINE w == Written(buf, at, q.msg, q.next, n)
  <2>1. recvBuf' = IF n = 0 THEN recvBuf ELSE [recvBuf EXCEPT ![k] = w]
    BY <1>2
  <2>2. new = IF n = 0 THEN buf ELSE w
    OBVIOUS
  <2> HIDE DEF w, new
  <2>3. QED  BY <1>3, <2>1, <2>2
<1>7. ASSUME k \notin hit PROVE Talks(k)'
  <2>1. PICK b, sizes, t : Speaks(k, b, sizes, t)
    BY <1>1, <1>7, ClientSpeaks
  <2> DEFINE wr == writes[h]
  <2>2. /\ InPort(port, k, b, sizes, t)
        /\ StreamType(q, rd, wr, size, buf, b, sizes, t)
        /\ Stream(q, rd, wr, size, buf, b, sizes, t)
    BY <1>1, <2>1 DEF Speaks
  <2>3. PICK known \in SUBSET (sizes \cup {n}) : InPort(port', k, b + n, known, t + 1)
    BY <1>2, <1>3, <2>2, PacketQueued
  <2>4. Stream(Taken(q, n), Tail(rd), wr, size, new, b + n, known, t + 1)
    <3>1. CASE n = 0
      <4>1. b + n = b /\ known \in SUBSET (sizes \cup {0})
        BY <2>2, <2>3, <3>1 DEF StreamType
      <4>2. Taken(q, n) = q
        <5>1. q.next < q.msg.len /\ q.next \in Nat
          BY <1>2, <1>3, <2>2 DEF Stream, InOrder, SendingStream, WaitingStream, Peer
        <5>2. q.msg.len \in Nat
          BY <1>3, MessageType DEF Peer
        <5>3. q.next + n = q.next /\ q.next + n < q.msg.len
          BY <3>1, <5>1, <5>2
        <5>4. Taken(q, n) = [q EXCEPT !.next = q.next, !.st = q.st]
          BY <5>3 DEF Taken
        <5>5. QED  BY <1>3, <5>4 DEF Peer
      <4>3. new = buf
        BY <3>1
      <4> HIDE DEF q, rd, wr, size, buf, new, at
      <4>4. Stream(q, Tail(rd), wr, size, buf, b, known, t + 1)
        BY <1>2, <2>2, <4>1, StreamReadsNothing
      <4>5. QED  BY <4>1, <4>2, <4>3, <4>4
    <3>2. CASE n # 0
      <4>1. n \in Nat \ {0} /\ n <= MAX_BUF_SIZE - at
        <5>1. at \in Nat /\ MAX_BUF_SIZE \in Nat
          <6> HIDE DEF rd
          <6>1. Head(rd) \in Nat
            BY <1>2, <1>3
          <6>2. QED  BY <6>1, WinsockAssumption
        <5> HIDE DEF at
        <5>2. QED  BY <1>2, <3>2, <5>1
      <4>2. new = Written(buf, at, q.msg, q.next, n)
        BY <3>2
      <4> HIDE DEF q, rd, wr, size, buf, new
      <4>3. Stream(Taken(q, n), Tail(rd), wr, size, Written(buf, Head(rd), q.msg, q.next, n),
                   b + n, known, t + 1)
        BY <1>2, <2>2, <2>3, <4>1, StreamDelivers
      <4>4. QED  BY <4>2, <4>3
    <3>3. QED  BY <3>1, <3>2
  <2>5. Stream(peer'[h], reads'[h], writes'[h], size, recvBuf'[k], b + n, known, t + 1)
    <3>1. writes'[h] = wr
      BY <1>2
    <3> HIDE DEF q, rd, wr, size, buf, new
    <3>2. QED  BY <1>5, <1>6, <2>4, <3>1
  <2> HIDE DEF q, rd, wr, buf, new, p
  <2>6. QED  BY <1>1, <1>2, <2>3, <2>5 DEF Talks
<1> HIDE DEF p, q, rd, new, buf
<1>8. QED  BY <1>1, <1>2, <1>4, <1>5, <1>6, <1>7, CompletionTalks

(***************************************************************************)
(* The theorems.                                                           *)
(***************************************************************************)
LEMMA WorldTalks ==
    ASSUME Typed, Belonging, Talking, OneAccept, UNCHANGED serverVars,
           \/ PeerConnects \/ AcceptFails \/ AbortCompletes
           \/ \E h \in Handles : Environment(h) \/ Completion(h)
    PROVE  Talking'
<1>1. CASE PeerConnects \/ AcceptFails \/ AbortCompletes
  BY <1>1, PeerConnectsTalks, FailuresTalk
<1>2. ASSUME NEW h \in Handles, Environment(h) PROVE Talking'
  BY <1>2, PeerSendsTalks, PeerLeavesTalks DEF Environment
<1>3. ASSUME NEW h \in Handles, Completion(h) PROVE Talking'
  <2>1. 0 .. MAX_BUF_SIZE \subseteq Nat
    BY WinsockAssumption
  <2>2. ASSUME NEW n \in 0 .. MAX_BUF_SIZE, Deliver(h, n) PROVE Talking'
    BY <2>1, <2>2, DeliverTalks
  <2>3. QED  BY <1>3, <2>2, DeliverEofTalks, TransmitTalks, SendCompletesTalks DEF Completion
<1>4. QED  BY <1>1, <1>2, <1>3

LEMMA InitTalks ==
    ASSUME Init
    PROVE  Talking
<1>1. \A k \in Keys : ~Occupied(k) /\ clients[k].recvBufSize = 0
  BY DEF Init, Occupied, FreeClient
<1>2. \A h \in Handles : peer[h] = Nobody
  BY DEF Init, SockInit
<1>3. Unheard(Nobody)
  BY DEF Unheard, Nobody
<1>4. QED  BY <1>1, <1>2, <1>3 DEF Talking

\* Every step keeps the invariant.
LEMMA NextTalks ==
    ASSUME Streaming, [Next]_vars
    PROVE  Streaming'
<1>1. Accepts'
  BY NextAccepts DEF Streaming
<1>2. Typed
  BY DEF Streaming, Accepts, Safe
<1> SUFFICES ASSUME NoLeak' PROVE Talking'
  BY <1>1 DEF Streaming
<1>3. NoLeak /\ \A k \in Keys : ~RefuseNotAssociated(k)
  BY LeakRemembered
<1>4. Belonging /\ Talking /\ OneAccept
  BY <1>3 DEF Streaming, Accepts, Safe
<1>5. CASE Thread
  <2>1. CASE \E k \in Keys : ScheduleDisconnect(k) \/ Admit(k) \/ RefuseNotAssociated(k)
    BY <1>2, <1>3, <1>4, <2>1, ScheduleDisconnectTalks, AdmitTalks
  <2>2. CASE WaitTimedOut \/ OperationFailed \/ AcceptCompleted \/ RefuseFull \/ RefuseNoAddress
    BY <1>2, <1>4, <2>2, TimeoutCheckTalks, RefuseTalks
  <2>3. CASE \/ ReceiveEnd \/ ReceivePartial \/ ReceiveKeyRequest \/ ReceiveRequest
             \/ ReceiveUnknown \/ SendPartial \/ SendDone \/ Cancelled
    BY <1>2, <1>4, <2>3, ReceiveEndTalks, ReceivePartialTalks, ReceiveKeyRequestTalks,
       ReceiveRequestTalks, ReceiveUnknownTalks, SendPartialTalks, SendDoneTalks, CancelledTalks
  <2>4. QED  BY <1>5, <2>1, <2>2, <2>3, Zenon DEF Thread
<1>6. CASE Tick
  BY <1>2, <1>4, <1>6, TimeoutCheckTalks
<1>7. CASE \/ (PeerConnects \/ AcceptFails \/ AbortCompletes) /\ UNCHANGED serverVars
           \/ \E h \in Handles : (Environment(h) \/ Completion(h)) /\ UNCHANGED serverVars
  <2>1. UNCHANGED serverVars
    BY <1>7
  <2>2. \/ PeerConnects \/ AcceptFails \/ AbortCompletes
        \/ \E h \in Handles : Environment(h) \/ Completion(h)
    BY <1>7
  <2>3. QED  BY <1>2, <1>4, <2>1, <2>2, WorldTalks
<1>8. CASE UNCHANGED vars
  <2>1. UNCHANGED <<port, reads, writes, peer, recvBuf, clients, hit>>
    BY <1>8 DEF vars, serverVars, sockVars
  <2>2. port \in Seq(Packet)
    BY <1>2 DEF Typed, TypeOK, SockTypeOK
  <2>3. QED  BY <1>2, <1>4, <2>1, <2>2, KeptSame, TalkingKept
<1>9. QED  BY <1>5, <1>6, <1>7, <1>8 DEF Next

LEMMA StreamingAlways == Spec => []Streaming
<1>1. Init => Streaming
  <2>1. Init => OneAccept
    BY DEF Init, SockInit, OneAccept, IsAccept, Idle
  <2>2. QED  BY <2>1, InitSafe, InitTalks DEF Streaming, Accepts
<1>2. Streaming /\ [Next]_vars => Streaming'
  BY NextTalks
<1>3. QED  BY <1>1, <1>2, PTL DEF Spec

\* The message that the packet at the head of the port completes has all arrived.
LEMMA HandledWhole ==
    ASSUME Typed, Belonging, Talking
    PROVE  WholeMessages
<1> SUFFICES ASSUME NEW k \in Keys, k \notin hit, Processing(k), ~Head(port).stale
             PROVE  recvBuf[k].fill = recvBuf[k].head.len
  BY DEF WholeMessages
<1> DEFINE n == Head(port).n
           h == clients[k].socket
           size == clients[k].recvBufSize
<1>1. /\ port # <<>> /\ Head(port).op = "recv" /\ Head(port).key = k /\ n > 0
      /\ recvBuf[k].head.len = size + n /\ port \in Seq(Packet)
  BY DEF Processing, ValidateBuff, Typed, TypeOK, SockTypeOK
<1>2. Head(port) \in Packet /\ Belongs(Head(port)) /\ n \in Nat
  <2>1. Head(port) \in Packet
    BY <1>1
  <2>2. QED  BY <1>1, <2>1, TailBelongs DEF Belonging, Packet
<1>3. Occupied(k)
  BY <1>1, <1>2 DEF Belongs
<1>4. h \in Handles
  BY <1>3, OwnedSockets DEF Belonging
<1>5. PICK b, sizes, t : Speaks(k, b, sizes, t)
  BY <1>3, <1>4, ClientSpeaks
<1>6. /\ InPort(port, k, b, sizes, t)
      /\ StreamType(peer[h], reads[h], writes[h], size, recvBuf[k], b, sizes, t)
      /\ Stream(peer[h], reads[h], writes[h], size, recvBuf[k], b, sizes, t)
  BY <1>5 DEF Speaks
<1>7. n \in sizes
  <2>1. Bytes(k)[Head(port)] = n
    BY <1>1, <1>2 DEF Bytes, Present
  <2>2. Bytes(k)[Head(port)] \in sizes
    BY <1>1, <1>6, InPortTail
  <2>3. QED  BY <2>1, <2>2
<1>8. n # 0
  BY <1>1, <1>2
<1>9. Arrived(peer[h], reads[h], writes[h], recvBuf[k])
  <2> HIDE DEF n, h, size
  <2>1. recvBuf[k].head.len = size + n
    BY <1>1
  <2>2. QED  BY <1>6, <1>7, <1>8, <2>1, StreamArrives
<1>10. QED  BY <1>9 DEF Arrived

LEMMA HeldInBounds ==
    ASSUME Short, Typed, Belonging, Talking
    PROVE  BufferBounded
<1> SUFFICES ASSUME NEW k \in Keys, k \notin hit, Occupied(k)
             PROVE  /\ Len(reads[clients[k].socket]) <= 2
                    /\ clients[k].recvBufSize <= MAX_BUF_SIZE
  BY DEF BufferBounded
<1> DEFINE h == clients[k].socket
           size == clients[k].recvBufSize
<1>1. h \in Handles
  BY OwnedSockets DEF Belonging
<1>2. PICK b, sizes, t : Speaks(k, b, sizes, t)
  BY <1>1, ClientSpeaks
<1>3. /\ InFlightBound(peer[h], reads[h], writes[h], t) /\ size + b <= MAX_BUF_SIZE
      /\ size \in Nat /\ b \in Nat /\ t \in Nat
      /\ reads[h] \in Seq(Nat) /\ writes[h] \in Seq(Write)
  BY <1>2 DEF Speaks, Stream, Fits, StreamType
<1> DEFINE i == Len(reads[h])
           j == Len(writes[h])
<1>4. i \in Nat /\ j \in Nat /\ t + i + j <= IF peer[h].key = NoKey THEN 1 ELSE 2
  <2>1. i \in Nat /\ j \in Nat
    BY <1>3
  <2>2. QED  BY <1>3, <2>1 DEF InFlightBound
<1> HIDE DEF i, j, size
<1>5. i <= 2 /\ size <= MAX_BUF_SIZE
  BY <1>3, <1>4, WinsockAssumption
<1>6. QED  BY <1>5 DEF i, size

\* Where no stale packet was taken for a slot, a message is handled only when all of
\* it is in the buffer in its place: however it was split, and with two reads in
\* flight on the same buffer after a key exchange (ValidateBuff in ProcessEvent).
THEOREM MessagesAreWhole == Spec => [](NoLeak => WholeMessages)
<1>1. Streaming => (NoLeak => WholeMessages)
  BY HandledWhole DEF Streaming, Accepts, Safe
<1>2. QED  BY <1>1, StreamingAlways, PTL

\* Where no stale packet was taken for a slot, and peers send no message longer than
\* the buffer (Short), at most two reads are in flight and no more is counted than the
\* buffer holds (ScheduleRead and recvBufSize).
THEOREM BuffersAreBounded ==
    ASSUME Short
    PROVE  Spec => [](NoLeak => BufferBounded)
<1>1. Streaming => (NoLeak => BufferBounded)
  BY HeldInBounds DEF Streaming, Accepts, Safe
<1>2. QED  BY <1>1, StreamingAlways, PTL

(***************************************************************************)
(* What reaches a peer, where the kernel transmits all it is given.  While *)
(* no answer has been written behind a shorter one, each completion that   *)
(* is due counts for all that is unsent: nothing is ever written again.    *)
(***************************************************************************)
Members(s) == {s[i] : i \in DOMAIN s}

\* The completed writes of slot k in the port, by their lengths.
Due(q, k) == {q[i].n : i \in {j \in DOMAIN q : Present(q[j], k) /\ q[j].op = "send"}}

\* An answer of n units does peer p no harm.
Expects(p, n) ==
    \/ p.st = "waiting" /\ p.got = 0 /\ p.msg.reply = n
    \/ p.st \in {"fin", "reset", "none"}

\* What is written are whole answers, as long as what is counted as unsent or longer.
Straight(p, wr, unsent, due) ==
    /\ \A w \in Members(wr) : w.first /\ unsent <= w.n /\ (~w.sent => Expects(p, w.n))
    /\ \A n \in due : unsent <= n

AnswersStraight(k) ==
    Straight(peer[clients[k].socket], writes[clients[k].socket], clients[k].unsent, Due(port, k))

Clean ==
    /\ \A h \in Handles : ~Garbled(h)
    /\ \A k \in Keys : Occupied(k) => AnswersStraight(k)

AlwaysClean == Streaming /\ (NoLeak /\ hit = {} /\ ~late => Clean)

\* Slot k has the same writes and the same completions due, or fewer of them, no
\* more unsent, and a peer to which no answer has become unexpected.
Fewer(k) ==
    LET s == clients[k].socket IN
    /\ Occupied(k) /\ clients'[k].socket = s
    /\ clients'[k].unsent \in Int /\ clients'[k].unsent <= clients[k].unsent
    /\ Due(port', k) \subseteq Due(port, k)
    /\ Members(writes'[s]) \subseteq Members(writes[s])
    /\ \A n : Expects(peer[s], n) => Expects(peer'[s], n)

LEMMA MembersAre ==
    ASSUME NEW S, NEW s \in Seq(S)
    PROVE  /\ Members(s) \subseteq S
           /\ Members(<<>>) = {}
           /\ s # <<>> => Head(s) \in Members(s) /\ Members(Tail(s)) \subseteq Members(s)
           /\ \A x \in S : Members(Append(s, x)) \subseteq Members(s) \cup {x}
<1>1. Members(s) \subseteq S /\ Members(<<>>) = {}
  BY DEF Members
<1>2. ASSUME s # <<>> PROVE Head(s) \in Members(s) /\ Members(Tail(s)) \subseteq Members(s)
  <2>1. 1 \in DOMAIN s /\ Head(s) = s[1]
    BY <1>2
  <2>2. \A i \in DOMAIN Tail(s) : i + 1 \in DOMAIN s /\ Tail(s)[i] = s[i + 1]
    BY <1>2
  <2>3. QED  BY <2>1, <2>2 DEF Members
<1>3. ASSUME NEW x \in S PROVE Members(Append(s, x)) \subseteq Members(s) \cup {x}
  <2>1. \A i \in DOMAIN Append(s, x) : \/ Append(s, x)[i] = x
                                       \/ i \in DOMAIN s /\ Append(s, x)[i] = s[i]
    OBVIOUS
  <2>2. QED  BY <2>1 DEF Members
<1>4. QED  BY <1>1, <1>2, <1>3

\* What is due when the thread takes a packet, and when more are queued.
LEMMA DueTail ==
    ASSUME NEW q \in Seq(Packet), q # <<>>, NEW k
    PROVE  /\ Due(Tail(q), k) \subseteq Due(q, k)
           /\ Present(Head(q), k) /\ Head(q).op = "send" => Head(q).n \in Due(q, k)
<1>1. 1 \in DOMAIN q /\ Head(q) = q[1]
  OBVIOUS
<1>2. \A i \in DOMAIN Tail(q) : i + 1 \in DOMAIN q /\ Tail(q)[i] = q[i + 1]
  OBVIOUS
<1>3. QED  BY <1>1, <1>2 DEF Due

LEMMA DueMore ==
    ASSUME NEW q \in Seq(Packet), NEW r \in Seq(Packet), NEW k,
           \A i \in DOMAIN r : ~Present(r[i], k)
    PROVE  Due(q \o r, k) \subseteq Due(q, k)
<1>1. \A i \in DOMAIN (q \o r) : \/ i \in DOMAIN q /\ (q \o r)[i] = q[i]
                                 \/ \E j \in DOMAIN r : (q \o r)[i] = r[j]
  <2> SUFFICES ASSUME NEW i \in 1 .. Len(q) + Len(r), i \notin 1 .. Len(q)
               PROVE  \E j \in DOMAIN r : (q \o r)[i] = r[j]
    OBVIOUS
  <2>1. i - Len(q) \in DOMAIN r /\ (q \o r)[i] = r[i - Len(q)]
    OBVIOUS
  <2>2. QED  BY <2>1
<1>2. QED  BY <1>1 DEF Due

LEMMA DueAppend ==
    ASSUME NEW q \in Seq(Packet), NEW p \in Packet, NEW k
    PROVE  /\ Due(Append(q, p), k) \subseteq Due(q, k) \cup {p.n}
           /\ ~(Present(p, k) /\ p.op = "send") => Due(Append(q, p), k) \subseteq Due(q, k)
<1>1. \A i \in DOMAIN Append(q, p) : \/ Append(q, p)[i] = p
                                     \/ i \in DOMAIN q /\ Append(q, p)[i] = q[i]
  OBVIOUS
<1>2. QED  BY <1>1 DEF Due

LEMMA DueCancel ==
    ASSUME Typed, NEW h, NEW q \in Seq(Packet), NEW p \in Packet, p.op = "cancel",
           CancelIo(h, q, <<p>>), NEW k
    PROVE  Due(port', k) \subseteq Due(q, k)
<1> DEFINE s == <<p>>
<1>1. s \in Seq(Packet) /\ \A i \in DOMAIN s : ~Present(s[i], k)
  BY DEF Present
<1> HIDE DEF s
<1>2. CASE h \notin open
  <2>1. port' = q \o s
    BY <1>2 DEF CancelIo, s
  <2>2. QED  BY <1>1, <2>1, DueMore
<1>3. CASE h \in open
  <2>1. h \in Handles /\ InFlight(h) \in Nat
    BY <1>3, InFlightType DEF Typed, TypeOK, SockTypeOK
  <2>2. PICK n \in Nat : port' = q \o FailedPackets(n) \o s
    <3>1. \E n \in 0 .. InFlight(h) : port' = q \o FailedPackets(n) \o s
      BY <1>3, Zenon DEF CancelIo, s
    <3>2. 0 .. InFlight(h) \subseteq Nat
      BY <2>1
    <3>3. QED  BY <3>1, <3>2, Zenon
  <2> DEFINE f == FailedPackets(n)
  <2>3. f \in Seq(Packet) /\ \A i \in DOMAIN f : ~Present(f[i], k)
    BY FailedAbsent
  <2> HIDE DEF f
  <2>4. q \o f \in Seq(Packet) /\ Due(q \o f, k) \subseteq Due(q, k)
    BY <2>3, DueMore
  <2>5. Due((q \o f) \o s, k) \subseteq Due(q \o f, k)
    BY <1>1, <2>4, DueMore
  <2>6. QED  BY <2>2, <2>4, <2>5 DEF f
<1>4. QED  BY <1>2, <1>3

\* A slot with fewer of everything.
LEMMA FewerStraight ==
    ASSUME Typed, NEW k \in Keys, clients[k].socket \in Handles, AnswersStraight(k), Fewer(k)
    PROVE  AnswersStraight(k)'
<1> DEFINE s == clients[k].socket
           u == clients[k].unsent
           v == clients'[k].unsent
<1>1. u \in Int /\ v \in Int /\ v <= u
  BY DEF Fewer, Typed, TypeOK, Client
<1>2. ASSUME NEW w \in Members(writes'[s])
      PROVE  w.first /\ v <= w.n /\ (~w.sent => Expects(peer'[s], w.n))
  <2>1. w \in Members(writes[s])
    BY DEF Fewer
  <2>2. w \in Write
    <3>1. writes[s] \in Seq(Write)
      BY DEF Typed, TypeOK, SockTypeOK
    <3>2. QED  BY <2>1, <3>1, MembersAre
  <2>3. w.first /\ u <= w.n /\ (~w.sent => Expects(peer[s], w.n))
    BY <2>1 DEF AnswersStraight, Straight
  <2>4. w.n \in Nat
    BY <2>2 DEF Write
  <2> HIDE DEF u, v
  <2>5. v <= w.n
    BY <1>1, <2>3, <2>4
  <2>6. QED  BY <2>3, <2>5 DEF Fewer
<1>3. ASSUME NEW n \in Due(port', k) PROVE v <= n
  <2>1. n \in Due(port, k)
    BY DEF Fewer
  <2>2. u <= n
    BY <2>1 DEF AnswersStraight, Straight
  <2>3. n \in Nat
    <3>1. port \in Seq(Packet)
      BY DEF Typed, TypeOK, SockTypeOK
    <3>2. \A p \in Packet : p.n \in Nat
      BY DEF Packet
    <3>3. QED  BY <2>1, <3>1, <3>2 DEF Due
  <2> HIDE DEF u, v
  <2>4. QED  BY <1>1, <2>2, <2>3
<1>4. clients'[k].socket = s
  BY DEF Fewer
<1>5. QED  BY <1>2, <1>3, <1>4 DEF AnswersStraight, Straight

\* A step after which every slot has fewer of everything.
LEMMA CleanKept ==
    ASSUME Typed, Belonging, Clean,
           \A h \in Handles : ~Garbled(h)',
           \A k \in Keys : Occupied(k)' => Fewer(k)
    PROVE  Clean'
<1>1. ASSUME NEW k \in Keys, Occupied(k)' PROVE AnswersStraight(k)'
  <2>1. Fewer(k) /\ Occupied(k)
    BY <1>1 DEF Fewer
  <2>2. clients[k].socket \in Handles /\ AnswersStraight(k)
    BY <2>1, OwnedSockets DEF Belonging, Clean
  <2>3. QED  BY <2>1, <2>2, FewerStraight
<1>2. QED  BY <1>1 DEF Clean

\* A step that moves no socket and tells no peer anything.
LEMMA SilentClean ==
    ASSUME Typed, Belonging, Clean,
           UNCHANGED peer,
           \A k \in Keys : /\ clients'[k].socket = clients[k].socket
                           /\ clients'[k].unsent \in Int /\ clients'[k].unsent <= clients[k].unsent
                           /\ Due(port', k) \subseteq Due(port, k),
           \A h \in Handles : Members(writes'[h]) \subseteq Members(writes[h])
    PROVE  Clean'
<1>1. \A h \in Handles : ~Garbled(h)'
  BY DEF Clean, Garbled
<1>2. ASSUME NEW k \in Keys, Occupied(k)' PROVE Fewer(k)
  <2>1. Occupied(k)
    BY <1>2 DEF Occupied
  <2>2. clients[k].socket \in Handles
    BY <2>1, OwnedSockets DEF Belonging
  <2>3. QED  BY <2>1, <2>2 DEF Fewer
<1>3. QED  BY <1>1, <1>2, CleanKept

\* The steps that take a packet and only look for expired clients, and the clock.
LEMMA TimeoutCheckClean ==
    ASSUME Typed, Belonging, Clean, WaitTimedOut \/ OperationFailed \/ AcceptCompleted \/ Tick
    PROVE  Clean'
<1>1. port \in Seq(Packet) /\ clients \in [Keys -> Client]
  BY DEF Typed, TypeOK, SockTypeOK
<1>2. /\ UNCHANGED <<writes, peer>>
      /\ UNCHANGED port \/ (port' = Tail(port) /\ port # <<>>)
  BY DEF WaitTimedOut, OperationFailed, AcceptCompleted, Tick, Gets, TakePacket, sockVars
<1>3. \A k \in Keys : Due(port', k) \subseteq Due(port, k)
  BY <1>1, <1>2, DueTail
<1>4. \A k \in Keys : /\ clients'[k].socket = clients[k].socket
                      /\ clients'[k].unsent = clients[k].unsent
  <2>1. CASE UNCHANGED clients
    BY <2>1
  <2>2. CASE Tick
    <3>1. \A k \in Keys : \/ clients'[k] = clients[k]
                          \/ \E n : clients'[k] = [clients[k] EXCEPT !.age = n]
      BY <2>2 DEF Tick
    <3>2. ASSUME NEW k \in Keys, NEW n, clients'[k] = [clients[k] EXCEPT !.age = n]
          PROVE  clients'[k].socket = clients[k].socket /\ clients'[k].unsent = clients[k].unsent
      <4> DEFINE d == [clients[k] EXCEPT !.age = n]
      <4>1. clients[k] \in Client /\ clients'[k] = d
        BY <1>1, <3>2
      <4>2. d.socket = clients[k].socket /\ d.unsent = clients[k].unsent
        BY <4>1 DEF Client
      <4> HIDE DEF d
      <4>3. QED  BY <4>1, <4>2
    <3>3. QED  BY <3>1, <3>2
  <2>3. QED  BY <2>1, <2>2 DEF WaitTimedOut, OperationFailed, AcceptCompleted
<1>5. \A k \in Keys : clients[k].unsent \in Int
  BY <1>1 DEF Client
<1>6. \A k \in Keys : clients'[k].unsent \in Int /\ clients'[k].unsent <= clients[k].unsent
  BY <1>4, <1>5
<1>7. QED  BY <1>2, <1>3, <1>4, <1>6, SilentClean

\* CancelIo with the packet that follows it.
LEMMA CancelClean ==
    ASSUME Typed, Belonging, Clean, UNCHANGED peer,
           \A k \in Keys : /\ clients'[k].socket = clients[k].socket
                           /\ clients'[k].unsent = clients[k].unsent,
           NEW q \in Seq(Packet), \A k \in Keys : Due(q, k) \subseteq Due(port, k),
           NEW h, NEW p \in Packet, p.op = "cancel", CancelIo(h, q, <<p>>)
    PROVE  Clean'
<1>1. \A g \in Handles : Members(writes'[g]) \subseteq Members(writes[g])
  <2>1. \A g \in Handles : writes'[g] \in {writes[g], <<>>}
    BY DEF CancelIo, Typed, TypeOK, SockTypeOK
  <2>2. QED  BY <2>1 DEF Members
<1>2. \A k \in Keys : Due(port', k) \subseteq Due(port, k)
  BY DueCancel
<1>3. \A k \in Keys : clients[k].unsent \in Int
  BY DEF Typed, TypeOK, Client
<1>4. \A k \in Keys : clients'[k].unsent \in Int /\ clients'[k].unsent <= clients[k].unsent
  BY <1>3
<1>5. QED  BY <1>1, <1>2, <1>4, SilentClean

LEMMA ScheduleDisconnectClean ==
    ASSUME Typed, Belonging, Clean, NEW k \in Keys, ScheduleDisconnect(k)
    PROVE  Clean'
<1> DEFINE s == clients[k].socket
           p == NewPacket("cancel", k, 0)
<1>1. UNCHANGED <<peer, clients>> /\ port \in Seq(Packet)
  BY DEF ScheduleDisconnect, Typed, TypeOK, SockTypeOK
<1>2. p \in Packet /\ p.op = "cancel"
  BY PacketsAreTyped DEF NewPacket
<1>3. CASE s \in open
  <2>1. CancelIo(s, port, <<p>>)
    BY <1>3, Zenon DEF ScheduleDisconnect
  <2> HIDE DEF p, s
  <2>2. QED  BY <1>1, <1>2, <2>1, CancelClean
<1>4. CASE s \notin open
  <2>1. UNCHANGED <<port, writes>>
    BY <1>4 DEF ScheduleDisconnect
  <2>2. \A j \in Keys : clients[j].unsent \in Int /\ clients[j].unsent <= clients[j].unsent
    BY DEF Typed, TypeOK, Client
  <2>3. QED  BY <1>1, <2>1, <2>2, SilentClean
<1>5. QED  BY <1>3, <1>4

LEMMA ReceiveEndClean ==
    ASSUME Typed, Belonging, Clean, ReceiveEnd
    PROVE  Clean'
<1> DEFINE k == Head(port).key
           p == [NewPacket("cancel", k, 0) EXCEPT !.stale = Head(port).stale]
           d == [clients[k] EXCEPT !.age = 0]
<1>1. Gets("recv") /\ port # <<>> /\ port \in Seq(Packet)
  BY DEF ReceiveEnd, Gets, Typed, TypeOK, SockTypeOK
<1>2. /\ k \in Keys /\ Head(port).stale \in BOOLEAN /\ clients[k] \in Client
      /\ Tail(port) \in Seq(Packet)
  BY <1>1, HeadOfPort
<1>3. p \in Packet /\ p.op = "cancel"
  BY <1>2 DEF NewPacket, Packet
<1>4. /\ UNCHANGED peer /\ clients' = [clients EXCEPT ![k].age = 0]
      /\ CancelIo(clients[k].socket, Tail(port), <<p>>)
  BY Zenon DEF ReceiveEnd
<1>5. \A j \in Keys : /\ clients'[j].socket = clients[j].socket
                      /\ clients'[j].unsent = clients[j].unsent
  <2>1. d.socket = clients[k].socket /\ d.unsent = clients[k].unsent
    BY <1>2 DEF Client
  <2>2. clients' = [clients EXCEPT ![k] = d] /\ clients \in [Keys -> Client]
    BY <1>4 DEF Typed, TypeOK
  <2> HIDE DEF d, k
  <2>3. QED  BY <1>2, <2>1, <2>2
<1>6. \A j \in Keys : Due(Tail(port), j) \subseteq Due(port, j)
  BY <1>1, DueTail
<1> HIDE DEF p, d, k
<1>7. QED  BY <1>2, <1>3, <1>4, <1>5, <1>6, CancelClean

\* A handler that writes nothing and counts no more as unsent.
LEMMA HandlerClean ==
    ASSUME Typed, Belonging, Clean, Gets("recv") \/ Gets("send"), port' = Tail(port),
           UNCHANGED <<peer, writes>>,
           \A j \in Keys : /\ clients'[j].socket = clients[j].socket
                           /\ clients'[j].unsent \in Int /\ clients'[j].unsent <= clients[j].unsent
    PROVE  Clean'
<1>1. port \in Seq(Packet) /\ port # <<>>
  BY DEF Gets, Typed, TypeOK, SockTypeOK
<1>2. \A j \in Keys : Due(port', j) \subseteq Due(port, j)
  BY <1>1, DueTail
<1>3. QED  BY <1>2, SilentClean

LEMMA ReceiveMoreClean ==
    ASSUME Typed, Belonging, Clean, ReceivePartial \/ ReceiveUnknown
    PROVE  Clean'
<1>1. PICK k \in Keys : k = Head(port).key
  BY ReceiveTyped DEF ReceivePartial, ReceiveUnknown
<1>2. /\ Gets("recv") /\ port' = Tail(port) /\ UNCHANGED <<writes, peer>>
      /\ clients \in [Keys -> Client]
  BY DEF ReceivePartial, ReceiveUnknown, Receive, TakePacket, Typed, TypeOK
<1>3. PICK n : clients' = [clients EXCEPT ![k] = [clients[k] EXCEPT !.age = 0, !.recvBufSize = n]]
  <2>1. CASE ReceivePartial
    BY <1>1, <2>1, Zenon DEF ReceivePartial, Received
  <2>2. CASE ReceiveUnknown
    BY <1>1, <2>2, Zenon DEF ReceiveUnknown
  <2>3. QED  BY <2>1, <2>2
<1> DEFINE c == [clients[k] EXCEPT !.age = 0, !.recvBufSize = n]
<1>4. c.socket = clients[k].socket /\ c.unsent = clients[k].unsent
  BY <1>2 DEF Client
<1>5. clients' = [clients EXCEPT ![k] = c]
  BY <1>3
<1> HIDE DEF c
<1>6. \A j \in Keys : clients'[j].socket = clients[j].socket /\ clients'[j].unsent = clients[j].unsent
  BY <1>2, <1>4, <1>5
<1>7. \A j \in Keys : clients[j].unsent \in Int
  BY <1>2 DEF Client
<1>8. \A j \in Keys : clients'[j].unsent \in Int /\ clients'[j].unsent <= clients[j].unsent
  BY <1>6, <1>7
<1>9. QED  BY <1>2, <1>6, <1>8, HandlerClean

\* A write has completed: it is all there was to write.
LEMMA SendClean ==
    ASSUME Typed, Belonging, Clean, hit' = {}, SendPartial \/ SendDone
    PROVE  SendDone /\ Clean'
<1>1. PICK k \in Keys : k = Head(port).key
  BY HeadOfPort DEF SendPartial, SendDone, Send, Gets
<1> DEFINE n == Head(port).n
           u == clients[k].unsent
           v == u - n
           c == [clients[k] EXCEPT !.unsent = v]
           d == [clients EXCEPT ![k] = c]
           i == clients[k].id
<1>2. /\ Gets("send") /\ port' = Tail(port) /\ Touch(Head(port)) /\ UNCHANGED peer
      /\ Head(port).op = "send" /\ port # <<>> /\ port \in Seq(Packet)
  BY DEF SendPartial, SendDone, Send, TakePacket, Gets, Typed, TypeOK, SockTypeOK
<1>3. /\ n \in Nat /\ ~Head(port).stale /\ Occupied(k)
      /\ clients \in [Keys -> Client] /\ u \in Int
  BY <1>1, <1>2, HandledSlots DEF Typed, TypeOK, Client
<1>4. u <= n
  <2>1. n \in Due(port, k)
    BY <1>1, <1>2, <1>3, DueTail DEF Present
  <2> HIDE DEF n
  <2>2. QED  BY <1>3, <2>1 DEF Clean, AnswersStraight, Straight
<1>5. v \in Int /\ v <= u /\ ~(v > 0)
  <2> HIDE DEF n, u
  <2>1. QED  BY <1>3, <1>4
<1>6. SendDone
  <2>1. SendPartial => v > 0
    BY <1>1, Zenon DEF SendPartial, Unsent
  <2>2. QED  BY <1>5, <2>1
<1>7. clients' = Emptied(d, i) /\ UNCHANGED writes
  BY <1>1, <1>6, Zenon DEF SendDone, Unsent
<1>8. c \in Client /\ c.socket = clients[k].socket /\ c.unsent = v
  <2> HIDE DEF v
  <2>1. QED  BY <1>3, <1>5 DEF Client
<1> HIDE DEF c
<1>9. /\ d \in [Keys -> Client] /\ d[k] = c /\ \A j \in Keys : j # k => d[j] = clients[j]
  BY <1>3, <1>8
<1> HIDE DEF d, v, u, n, i
<1>10. \A j \in Keys : clients'[j].socket = d[j].socket /\ clients'[j].unsent = d[j].unsent
  BY <1>7, <1>9, EmptiedIs
<1>11. \A j \in Keys : clients[j].unsent \in Int /\ clients[j].unsent <= clients[j].unsent
  BY <1>3 DEF Client
<1>12. \A j \in Keys : /\ clients'[j].socket = clients[j].socket
                       /\ clients'[j].unsent \in Int /\ clients'[j].unsent <= clients[j].unsent
  <2>1. ASSUME NEW j \in Keys, j # k
        PROVE  /\ clients'[j].socket = clients[j].socket
               /\ clients'[j].unsent \in Int /\ clients'[j].unsent <= clients[j].unsent
    BY <1>9, <1>10, <1>11, <2>1
  <2>2. /\ clients'[k].socket = clients[k].socket
        /\ clients'[k].unsent \in Int /\ clients'[k].unsent <= clients[k].unsent
    BY <1>5, <1>8, <1>9, <1>10 DEF u
  <2>3. QED  BY <2>1, <2>2
<1>13. QED  BY <1>2, <1>6, <1>7, <1>12, HandlerClean

\* An answer is written: its peer waits for it, and nothing shorter is due.
LEMMA AnswerClean ==
    ASSUME Typed, Belonging, Talking, Clean, hit' = {}, ~late',
           NEW k \in Keys, k = Head(port).key, NEW kind \in Kinds, Receive(kind),
           NEW m, m = recvBuf[k].head, Answers(k, m),
           \A j \in Keys : clients'[j].socket = clients[j].socket,
           \A j \in Keys : j # k => clients'[j].unsent = clients[j].unsent,
           clients'[k].unsent = m.reply,
           WSASend(clients[k].socket, m.reply, TRUE),
           \A g \in Handles : /\ peer'[g].st = peer[g].st /\ peer'[g].msg = peer[g].msg
                              /\ peer'[g].got = peer[g].got /\ peer'[g].junk = peer[g].junk
    PROVE  Clean'
<1> DEFINE h == clients[k].socket
           z == m.reply
           wr == writes[h]
           new == NewWrite(z, TRUE)
<1>1. /\ port' = Tail(port) /\ port # <<>> /\ port \in Seq(Packet)
      /\ writes \in [Handles -> Seq(Write)] /\ clients \in [Keys -> Client]
  BY DEF Receive, TakePacket, Gets, Typed, TypeOK, SockTypeOK
<1>2. PICK b, sizes, t, known : Complete(k, b, sizes, t, known)
  BY MessageCompletes
<1>3. h \in Handles /\ Arrived(peer[h], reads[h], wr, recvBuf[k])
  BY <1>2 DEF Complete
<1>4. z \in Nat
  BY HandledMessage
<1>5. \A j \in Keys : Due(port', j) \subseteq Due(port, j)
  BY <1>1, DueTail
<1>6. /\ \A g \in Handles : ~Garbled(g)'
      /\ \A g \in Handles, n \in Nat : Expects(peer[g], n) <=> Expects(peer'[g], n)
  BY DEF Clean, Garbled, Expects
<1>7. \A j \in Keys : Occupied(j)' <=> Occupied(j)
  BY DEF Occupied
<1>8. Occupied(k) /\ ~ShorterDue(k, m)
  BY <1>3, OwnedSockets DEF Belonging, Answers
<1>9. ASSUME NEW j \in Keys, Occupied(j), j # k PROVE AnswersStraight(j)'
  <2>1. clients[j].socket # h /\ clients[j].socket \in Handles
    BY <1>8, <1>9, OwnedSockets DEF Belonging, Owned
  <2>2. writes'[clients[j].socket] = writes[clients[j].socket]
    BY <2>1, CallsOn
  <2>3. clients[j].unsent \in Int /\ clients[j].unsent <= clients[j].unsent
    BY <1>1 DEF Client
  <2>4. \A n : Expects(peer[clients[j].socket], n) => Expects(peer'[clients[j].socket], n)
    BY <2>1 DEF Expects
  <2>5. Fewer(j)
    BY <1>5, <1>9, <2>2, <2>3, <2>4 DEF Fewer
  <2>6. QED  BY <1>9, <2>1, <2>5, FewerStraight DEF Clean
<1>10. AnswersStraight(k)'
  <2>1. wr \in Seq(Write) /\ new \in Write /\ new.first /\ new.n = z
    BY <1>1, <1>3, <1>4 DEF NewWrite, Write
  <2>2. \A w \in Members(wr) : w.n \in Nat /\ w.first /\ (~w.sent => Expects(peer[h], w.n))
    <3>1. Members(wr) \subseteq Write
      BY <2>1, MembersAre
    <3>2. QED  BY <1>8, <3>1 DEF Clean, AnswersStraight, Straight, Write
  <2>3. ASSUME NEW w \in Members(wr) PROVE z <= w.n
    <3>1. PICK i \in DOMAIN wr : w = wr[i]
      BY DEF Members
    <3>2. ~(wr[i].n < z)
      BY <1>3, <1>8, <3>1 DEF ShorterDue
    <3>3. w.n \in Nat
      BY <2>2
    <3> HIDE DEF z, wr
    <3>4. QED  BY <1>4, <3>1, <3>2, <3>3
  <2>4. ASSUME NEW n \in Due(port', k) PROVE z <= n
    <3>1. n \in Due(port, k)
      BY <1>5
    <3>2. PICK i \in DOMAIN port : Present(port[i], k) /\ port[i].op = "send" /\ n = port[i].n
      BY <3>1 DEF Due
    <3>3. ~(n < z)
      BY <1>8, <3>2 DEF ShorterDue, Present
    <3>4. n \in Nat
      BY <1>1, <3>2 DEF Packet
    <3> HIDE DEF z
    <3>5. QED  BY <1>4, <3>3, <3>4
  <2>5. CASE ~Usable(h)
    <3>1. writes'[h] = wr
      BY <1>3, <2>5, CallsOn
    <3>2. \A w \in Members(wr) : w.first /\ z <= w.n /\ (~w.sent => Expects(peer'[h], w.n))
      BY <1>3, <1>6, <2>2, <2>3
    <3> HIDE DEF z, wr
    <3>3. QED  BY <2>4, <3>1, <3>2 DEF AnswersStraight, Straight, z
  <2>6. CASE Usable(h)
    <3>1. writes'[h] = Append(wr, new)
      <4>1. WSASend(h, z, TRUE) /\ h \in Handles /\ Usable(h)
        BY <1>3, <2>6
      <4> HIDE DEF h, z, wr
      <4>2. WSASend(h, z, TRUE) =>
              (h \in Handles =>
                 writes'[h] = IF Usable(h) THEN Append(writes[h], NewWrite(z, TRUE)) ELSE writes[h])
        BY CallsOn, Zenon
      <4>3. QED  BY <4>1, <4>2 DEF wr
    <3>2. Expects(peer[h], z)
      BY <1>3, <1>6, <2>6 DEF Arrived, Expects, Usable, Clean, Garbled
    <3>3. ASSUME NEW w \in Members(writes'[h])
          PROVE  w.first /\ z <= w.n /\ (~w.sent => Expects(peer'[h], w.n))
      <4> HIDE DEF z, wr, new
      <4>1. w \in Members(wr) \/ w = new
        BY <2>1, <3>1, MembersAre
      <4>2. CASE w \in Members(wr)
        BY <1>3, <1>6, <2>2, <2>3, <4>2
      <4>3. CASE w = new
        BY <1>3, <1>4, <1>6, <2>1, <3>2, <4>3
      <4>4. QED  BY <4>1, <4>2, <4>3
    <3> HIDE DEF z, wr, new
    <3>4. QED  BY <2>4, <3>3 DEF AnswersStraight, Straight, z
  <2>7. QED  BY <2>5, <2>6
<1>11. QED  BY <1>6, <1>7, <1>9, <1>10 DEF Clean

LEMMA ReceiveRequestClean ==
    ASSUME Typed, Belonging, Talking, Clean, hit' = {}, ~late', ReceiveRequest
    PROVE  Clean'
<1>1. PICK k \in Keys : k = Head(port).key
  BY ReceiveTyped DEF ReceiveRequest
<1> DEFINE m == recvBuf[k].head
           c == Answering(clients[k], m)
<1>2. Receive("request") /\ UNCHANGED peer
  BY DEF ReceiveRequest
<1>3. /\ clients' = [clients EXCEPT ![k] = c] /\ WSASend(clients[k].socket, m.reply, TRUE)
      /\ Answers(k, m)
  BY <1>1, Zenon DEF ReceiveRequest
<1>4. /\ c.socket = clients[k].socket /\ c.unsent = m.reply
      /\ clients \in [Keys -> Client]
  <2>1. clients \in [Keys -> Client]
    BY DEF Typed, TypeOK
  <2>2. QED  BY <2>1 DEF Client, Answering
<1> HIDE DEF c, m
<1>5. /\ \A j \in Keys : clients'[j].socket = clients[j].socket
      /\ \A j \in Keys : j # k => clients'[j].unsent = clients[j].unsent
      /\ clients'[k].unsent = m.reply
  BY <1>3, <1>4
<1>6. m = recvBuf[k].head /\ "request" \in Kinds
  BY DEF m, Kinds
<1>7. QED  BY <1>1, <1>2, <1>3, <1>5, <1>6, AnswerClean

LEMMA ReceiveKeyRequestClean ==
    ASSUME Typed, Belonging, Talking, Clean, hit' = {}, ~late', ReceiveKeyRequest
    PROVE  Clean'
<1>1. PICK k \in Keys : k = Head(port).key
  BY ReceiveTyped DEF ReceiveKeyRequest
<1> DEFINE m == recvBuf[k].head
           c == Answering(clients[k], m)
           d == [clients EXCEPT ![k] = c]
           i == clients[k].id
           h == clients[k].socket
<1>2. Receive("key") /\ "key" \in Kinds
  BY DEF ReceiveKeyRequest, Kinds
<1>3. /\ clients' = Emptied(d, i) /\ WSASend(h, m.reply, TRUE) /\ Answers(k, m)
      /\ peer' = IF Usable(h) THEN [peer EXCEPT ![h].key = symKeys[i]] ELSE peer
  BY <1>1, Zenon DEF ReceiveKeyRequest
<1>4. m.reply \in Nat
  BY <1>1, <1>2, HandledMessage
<1>5. c.socket = h /\ c.unsent = m.reply /\ c \in Client /\ clients \in [Keys -> Client]
  <2>1. clients \in [Keys -> Client]
    BY DEF Typed, TypeOK
  <2>2. clients[k] \in Client /\ 0 \in 0 .. TIMEOUT + 1 /\ m.reply \in Int
    BY <1>4, <2>1, ServerAssumption
  <2>3. QED  BY <1>4, <2>1, <2>2 DEF Client, Answering
<1> HIDE DEF c
<1>6. /\ d \in [Keys -> Client] /\ d[k] = c /\ \A j \in Keys : j # k => d[j] = clients[j]
  BY <1>5
<1> HIDE DEF d, i, m
<1>7. /\ \A j \in Keys : clients'[j].socket = clients[j].socket
      /\ \A j \in Keys : j # k => clients'[j].unsent = clients[j].unsent
      /\ clients'[k].unsent = m.reply
  <2>1. \A j \in Keys : clients'[j].socket = d[j].socket /\ clients'[j].unsent = d[j].unsent
    BY <1>3, <1>6, EmptiedIs
  <2>2. QED  BY <1>5, <1>6, <2>1
<1>8. \A g \in Handles : /\ peer'[g].st = peer[g].st /\ peer'[g].msg = peer[g].msg
                         /\ peer'[g].got = peer[g].got /\ peer'[g].junk = peer[g].junk
  <2>1. peer \in [Handles -> Peer]
    BY DEF Typed, TypeOK, SockTypeOK
  <2> DEFINE x == symKeys[i]
             p == [peer[h] EXCEPT !.key = x]
  <2>2. CASE Usable(h)
    <3>1. h \in Handles /\ peer' = [peer EXCEPT ![h] = p]
      BY <1>3, <2>2 DEF Usable, Typed, TypeOK, SockTypeOK
    <3> HIDE DEF x
    <3>2. /\ p.st = peer[h].st /\ p.msg = peer[h].msg /\ p.got = peer[h].got
          /\ p.junk = peer[h].junk
      BY <2>1, <3>1 DEF Peer
    <3> HIDE DEF p
    <3>3. QED  BY <2>1, <3>1, <3>2
  <2>3. CASE ~Usable(h)
    BY <1>3, <2>3
  <2>4. QED  BY <2>2, <2>3
<1>9. m = recvBuf[k].head
  BY DEF m
<1> HIDE DEF h
<1>10. QED  BY <1>1, <1>2, <1>3, <1>7, <1>8, <1>9, AnswerClean DEF h

\* A connection is refused, or gets a slot.
LEMMA RefuseClean ==
    ASSUME Typed, Belonging, Clean, RefuseFull \/ RefuseNoAddress
    PROVE  Clean'
<1> DEFINE a == acceptSocket
<1>1. peer' = [peer EXCEPT ![a] = Nobody] /\ UNCHANGED <<writes, port>>
  BY DEF RefuseFull, RefuseNoAddress, Refuse
<1>2. \A k \in Keys : /\ clients'[k].socket = clients[k].socket
                      /\ clients'[k].unsent = clients[k].unsent
  <2>1. CASE UNCHANGED clients
    BY <2>1
  <2>2. CASE RefuseNoAddress
    <3> SUFFICES ASSUME NEW k \in Keys
                 PROVE  /\ clients'[k].socket = clients[k].socket
                        /\ clients'[k].unsent = clients[k].unsent
      OBVIOUS
    <3> DEFINE d == [clients[k] EXCEPT !.id = Number(k), !.age = 0]
    <3>1. clients[k] \in Client
      BY DEF Typed, TypeOK
    <3>2. clients'[k] = clients[k] \/ clients'[k] = d
      BY <2>2 DEF RefuseNoAddress
    <3>3. d.socket = clients[k].socket /\ d.unsent = clients[k].unsent
      BY <3>1 DEF Client
    <3> HIDE DEF d
    <3>4. QED  BY <3>2, <3>3
  <2>3. QED  BY <2>1, <2>2 DEF RefuseFull
<1>3. \A h \in Handles : h # a => peer'[h] = peer[h]
  BY <1>1 DEF Typed, TypeOK, SockTypeOK
<1>4. \A h \in Handles : ~Garbled(h)'
  <2>1. ASSUME NEW h \in Handles PROVE peer'[h] = peer[h] \/ peer'[h] = Nobody
    BY <1>1 DEF Typed, TypeOK, SockTypeOK
  <2>2. ~Nobody.junk /\ Nobody.st # "garbled"
    BY DEF Nobody
  <2>3. QED  BY <2>1, <2>2 DEF Clean, Garbled
<1>5. ASSUME NEW k \in Keys, Occupied(k)' PROVE Fewer(k)
  <2>1. Occupied(k)
    BY <1>2, <1>5 DEF Occupied
  <2>2. clients[k].socket # a /\ clients[k].socket \in Handles
    BY <2>1, OwnedSockets DEF Belonging, Owned
  <2>3. clients[k].unsent \in Int /\ clients[k].unsent <= clients[k].unsent
    BY DEF Typed, TypeOK, Client
  <2>4. QED  BY <1>1, <1>2, <1>3, <2>1, <2>2, <2>3 DEF Fewer
<1>6. QED  BY <1>4, <1>5, CleanKept

LEMMA AdmitClean ==
    ASSUME Typed, Belonging, Clean, NEW k \in Keys, Admit(k)
    PROVE  Clean'
<1> DEFINE a == acceptSocket
<1>1. /\ a \in Handles /\ a \in open /\ ~Occupied(k) /\ Stranger(a)
      /\ clients' = [clients EXCEPT ![k] = Slot(k)] /\ clients \in [Keys -> Client]
      /\ UNCHANGED <<writes, port, peer>> /\ Slot(k).socket = a
  BY OwnedSockets, Admitted, SlotTyped
     DEF Admit, First, FreeKeys, Belonging, Owned, Stranger, Typed, TypeOK
<1>2. \A h \in Handles : ~Garbled(h)'
  BY <1>1 DEF Clean, Garbled
<1>3. ASSUME NEW j \in Keys, Occupied(j)', j # k PROVE AnswersStraight(j)'
  <2>1. clients'[j] = clients[j] /\ Occupied(j)
    BY <1>1, <1>3 DEF Occupied
  <2>2. AnswersStraight(j)
    BY <2>1 DEF Clean
  <2>3. QED  BY <1>1, <2>1, <2>2 DEF AnswersStraight
<1>4. AnswersStraight(k)'
  <2>1. writes'[a] = <<>>
    BY <1>1 DEF Belonging, Unused
  <2>2. Due(port', k) = {}
    <3>1. \A i \in DOMAIN port : ~Present(port[i], k)
      BY <1>1 DEF Belonging, Queued, Belongs, Present
    <3>2. QED  BY <1>1, <3>1 DEF Due
  <2>3. clients'[k].socket = a
    BY <1>1
  <2>4. Members(<<>>) = {}
    BY DEF Members
  <2>5. QED  BY <2>1, <2>2, <2>3, <2>4 DEF AnswersStraight, Straight
<1>5. QED  BY <1>2, <1>3, <1>4 DEF Clean

\* A slot is freed: packets of the others are not marked.
Marked(q, k) ==
    [i \in 1 .. Len(q) - 1 |-> [q[i + 1] EXCEPT !.stale = @ \/ q[i + 1].key = k]]

LEMMA DueMarked ==
    ASSUME NEW q \in Seq(Packet), q # <<>>, NEW k, NEW j
    PROVE  Due(Marked(q, k), j) \subseteq Due(q, j)
<1> DEFINE r == Marked(q, k)
<1>1. DOMAIN r = 1 .. Len(q) - 1 /\ \A i \in 1 .. Len(q) - 1 : i + 1 \in DOMAIN q
  BY DEF Marked
<1>2. ASSUME NEW i \in 1 .. Len(q) - 1, Present(r[i], j), r[i].op = "send"
      PROVE  Present(q[i + 1], j) /\ q[i + 1].op = "send" /\ q[i + 1].n = r[i].n
  <2> DEFINE p == q[i + 1]
             m == [p EXCEPT !.stale = p.stale \/ p.key = k]
  <2>1. r[i] = m /\ p \in Packet
    BY DEF Marked
  <2>2. /\ m.op = p.op /\ m.key = p.key /\ m.n = p.n
        /\ m.stale <=> p.stale \/ p.key = k
    BY <2>1 DEF Packet
  <2> HIDE DEF m, p
  <2>3. QED  BY <1>2, <2>1, <2>2 DEF Present, p
<1> HIDE DEF r
<1>3. ASSUME NEW n \in Due(r, j) PROVE n \in Due(q, j)
  <2>1. PICK i \in 1 .. Len(q) - 1 : Present(r[i], j) /\ r[i].op = "send" /\ n = r[i].n
    BY <1>1 DEF Due
  <2>2. /\ i + 1 \in DOMAIN q /\ Present(q[i + 1], j) /\ q[i + 1].op = "send"
        /\ n = q[i + 1].n
    BY <1>1, <1>2, <2>1
  <2>3. QED  BY <2>2 DEF Due
<1>4. QED  BY <1>3 DEF r

LEMMA CancelledClean ==
    ASSUME Typed, Belonging, Clean, Cancelled
    PROVE  Clean'
<1>1. PICK k \in Keys : k = Head(port).key
  BY HeadOfPort DEF Cancelled, Gets
<1> DEFINE s == clients[k].socket
<1>2. port # <<>> /\ port \in Seq(Packet) /\ clients \in [Keys -> Client]
  BY DEF Cancelled, Gets, Typed, TypeOK, SockTypeOK
<1>3. \A j \in Keys : clients[j].unsent \in Int /\ clients[j].unsent <= clients[j].unsent
  BY <1>2 DEF Client
<1>4. CASE s = INVALID_SOCKET
  <2>1. port' = Tail(port) /\ UNCHANGED <<writes, peer, clients>>
    BY <1>1, <1>4, Zenon DEF Cancelled
  <2>2. \A j \in Keys : Due(port', j) \subseteq Due(port, j)
    BY <1>2, <2>1, DueTail
  <2>3. QED  BY <1>3, <2>1, <2>2, SilentClean
<1>5. CASE s # INVALID_SOCKET
  <2>1. s \in open /\ s \in Handles /\ Occupied(k)
    BY <1>1, <1>5, OwnedSockets DEF Belonging, Occupied
  <2>2. /\ Close(s)
        /\ clients' = [clients EXCEPT ![k] = FreeClient]
        /\ port' = [i \in 1 .. Len(port) - 1 |->
                     [port[i + 1] EXCEPT !.stale = @ \/ port[i + 1].key = k]]
    BY <1>1, <1>5, <2>1, Zenon DEF Cancelled, closesocket
  <2>3. /\ peer' = [peer EXCEPT ![s] = Nobody]
        /\ writes' = [writes EXCEPT ![s] = <<>>]
    BY <2>2 DEF Close
  <2>4. /\ \A h \in Handles : h # s => peer'[h] = peer[h] /\ writes'[h] = writes[h]
        /\ peer'[s] = Nobody
    BY <2>1, <2>3 DEF Typed, TypeOK, SockTypeOK
  <2>5. \A h \in Handles : ~Garbled(h)'
    <3>1. ~Nobody.junk /\ Nobody.st # "garbled"
      BY DEF Nobody
    <3>2. QED  BY <2>4, <3>1 DEF Clean, Garbled
  <2>6. ASSUME NEW j \in Keys PROVE Due(port', j) \subseteq Due(port, j)
    <3>1. port' = Marked(port, k)
      BY <2>2 DEF Marked
    <3>2. Due(Marked(port, k), j) \subseteq Due(port, j)
      BY <1>2, DueMarked
    <3>3. QED  BY <3>1, <3>2
  <2>7. ASSUME NEW j \in Keys, Occupied(j)' PROVE Fewer(j)
    <3>1. j # k
      BY <1>2, <2>2, <2>7 DEF Occupied, FreeClient
    <3>2. clients'[j] = clients[j] /\ Occupied(j)
      BY <1>2, <2>2, <2>7, <3>1 DEF Occupied
    <3>3. clients[j].socket # s /\ clients[j].socket \in Handles
      BY <2>1, <3>1, <3>2, OwnedSockets DEF Belonging, Owned
    <3>4. QED  BY <1>3, <2>4, <2>6, <3>2, <3>3 DEF Fewer
  <2>8. QED  BY <2>5, <2>7, CleanKept
<1>6. QED  BY <1>4, <1>5

(***************************************************************************)
(* The peers and the kernel.                                               *)
(***************************************************************************)
\* A step on socket h: what it leaves to write there its peer still expects, and no
\* more of it is due in the slot of that socket than was due or in flight.
LEMMA WorldClean ==
    ASSUME Typed, Belonging, Clean, UNCHANGED clients, NEW h \in Handles,
           \A g \in Handles : g # h => peer'[g] = peer[g] /\ writes'[g] = writes[g],
           ~Garbled(h)',
           \A k \in Keys : clients[k].socket # h => Due(port', k) \subseteq Due(port, k),
           \A k \in Keys : Occupied(k) /\ clients[k].socket = h => AnswersStraight(k)'
    PROVE  Clean'
<1>1. \A g \in Handles : ~Garbled(g)'
  BY DEF Clean, Garbled
<1>2. ASSUME NEW k \in Keys, Occupied(k)' PROVE AnswersStraight(k)'
  <2>1. Occupied(k)
    BY <1>2 DEF Occupied
  <2>2. CASE clients[k].socket = h
    BY <2>1, <2>2
  <2>3. CASE clients[k].socket # h
    <3>1. clients[k].socket \in Handles
      BY <2>1, OwnedSockets DEF Belonging
    <3>2. clients[k].unsent \in Int /\ clients[k].unsent <= clients[k].unsent
      BY DEF Typed, TypeOK, Client
    <3>3. Fewer(k)
      BY <2>1, <2>3, <3>1, <3>2 DEF Fewer
    <3>4. QED  BY <2>1, <3>1, <3>3, FewerStraight DEF Clean
  <2>4. QED  BY <2>2, <2>3
<1>3. QED  BY <1>1, <1>2 DEF Clean

\* So it is where there are fewer writes and nothing new is due.
LEMMA WorldKeepsClean ==
    ASSUME Typed, Belonging, Clean, UNCHANGED clients, NEW h \in Handles,
           \A g \in Handles : g # h => peer'[g] = peer[g] /\ writes'[g] = writes[g],
           ~Garbled(h)', Members(writes'[h]) \subseteq Members(writes[h]),
           \A k \in Keys : Due(port', k) \subseteq Due(port, k),
           Stranger(h) \/ \A n : Expects(peer[h], n) => Expects(peer'[h], n)
    PROVE  Clean'
<1>1. ASSUME NEW k \in Keys, Occupied(k), clients[k].socket = h PROVE AnswersStraight(k)'
  <2>1. clients[k].unsent \in Int /\ clients[k].unsent <= clients[k].unsent
    BY DEF Typed, TypeOK, Client
  <2>2. Fewer(k)
    BY <1>1, <2>1 DEF Fewer, Stranger
  <2>3. QED  BY <1>1, <2>2, FewerStraight DEF Clean
<1>2. QED  BY <1>1, WorldClean

LEMMA ConnectClean ==
    ASSUME Typed, Belonging, OneAccept, Clean, UNCHANGED serverVars,
           PeerConnects \/ AcceptFails \/ AbortCompletes
    PROVE  Clean'
<1>1. UNCHANGED <<clients, writes>> /\ port \in Seq(Packet)
  BY DEF serverVars, PeerConnects, AcceptFails, AbortCompletes, Typed, TypeOK, SockTypeOK
<1>2. CASE PeerConnects
  <2> DEFINE p == NewPacket("accept", 0, 0)
  <2>1. PICK a \in Handles : accepting = a /\ a = acceptSocket
    BY <1>2 DEF PeerConnects, OneAccept, Typed, TypeOK
  <2>2. port' = Append(port, p) /\ peer' = [peer EXCEPT ![a] = Connected]
    BY <1>2, <2>1 DEF PeerConnects
  <2>3. /\ peer'[a] = Connected /\ \A g \in Handles : g # a => peer'[g] = peer[g]
        /\ ~Connected.junk /\ Connected.st # "garbled"
    BY <2>1, <2>2 DEF Typed, TypeOK, SockTypeOK, Connected, Nobody
  <2>4. ~Garbled(a)'
    BY <2>3 DEF Garbled
  <2>5. p \in Packet /\ p.op = "accept"
    BY PacketsAreTyped DEF NewPacket
  <2> HIDE DEF p
  <2>6. \A k \in Keys : Due(port', k) \subseteq Due(port, k)
    BY <1>1, <2>2, <2>5, DueAppend
  <2>7. Stranger(a)
    BY <2>1 DEF Belonging, Owned, Stranger
  <2>8. QED  BY <1>1, <2>1, <2>3, <2>4, <2>6, <2>7, WorldKeepsClean
<1>3. CASE AcceptFails \/ AbortCompletes
  <2>1. UNCHANGED peer /\ port' = port \o FailedPackets(1)
    BY <1>3 DEF AcceptFails, AbortCompletes
  <2> DEFINE f == FailedPackets(1)
  <2>2. ASSUME NEW k \in Keys PROVE Due(port', k) \subseteq Due(port, k)
    <3>1. f \in Seq(Packet) /\ \A i \in DOMAIN f : ~Present(f[i], k)
      BY FailedAbsent
    <3> HIDE DEF f
    <3>2. Due(port \o f, k) \subseteq Due(port, k)
      BY <1>1, <3>1, DueMore
    <3>3. QED  BY <2>1, <3>2 DEF f
  <2>3. \A j \in Keys : clients[j].unsent \in Int /\ clients[j].unsent <= clients[j].unsent
    BY DEF Typed, TypeOK, Client
  <2>4. QED  BY <1>1, <2>1, <2>2, <2>3, SilentClean
<1>4. QED  BY <1>2, <1>3

LEMMA PeerClean ==
    ASSUME Typed, Belonging, Clean, UNCHANGED serverVars, NEW h \in Handles, Environment(h)
    PROVE  Clean'
<1> DEFINE q == peer[h]
<1>1. /\ UNCHANGED <<clients, port>> /\ q \in Peer /\ ~q.junk
      /\ peer \in [Handles -> Peer] /\ writes \in [Handles -> Seq(Write)]
  BY DEF serverVars, Environment, PeerSends, PeerCloses, PeerResets, Typed, TypeOK, SockTypeOK,
         Clean, Garbled
<1>2. PICK p : /\ peer' = [peer EXCEPT ![h] = p] /\ ~p.junk /\ p.st # "garbled"
               /\ \A n : Expects(q, n) => Expects(p, n)
  <2>1. ASSUME NEW m \in Messages, PeerSends(h, m)
        PROVE  \E p : /\ peer' = [peer EXCEPT ![h] = p] /\ ~p.junk /\ p.st # "garbled"
                      /\ \A n : Expects(q, n) => Expects(p, n)
    <3> DEFINE p == [q EXCEPT !.st = "sending", !.msg = m, !.next = 0, !.got = 0]
    <3>1. q.st = "idle" /\ peer' = [peer EXCEPT ![h] = p]
      BY <2>1, Zenon DEF PeerSends
    <3>2. p.st = "sending" /\ ~p.junk
      BY <1>1 DEF Peer
    <3>3. \A n : ~Expects(q, n)
      BY <3>1 DEF Expects
    <3> HIDE DEF p, q
    <3>4. QED  BY <3>1, <3>2, <3>3
  <2>2. CASE PeerCloses(h) \/ PeerResets(h)
    <3>1. PICK st \in {"fin", "reset"} : peer' = [peer EXCEPT ![h] = [Nobody EXCEPT !.st = st, !.key = q.key]]
      BY <2>2, Zenon DEF PeerCloses, PeerResets
    <3> DEFINE p == [Nobody EXCEPT !.st = st, !.key = q.key]
    <3>2. p.st = st /\ ~p.junk
      BY DEF Nobody
    <3>3. peer' = [peer EXCEPT ![h] = p]
      BY <3>1
    <3> HIDE DEF p
    <3>4. \A n : Expects(p, n)
      BY <3>2 DEF Expects
    <3>5. QED  BY <3>2, <3>3, <3>4
  <2>3. QED  BY <2>1, <2>2 DEF Environment
<1>3. \A g \in Handles : writes'[g] \in {writes[g], <<>>} /\ (g # h => writes'[g] = writes[g])
  BY <1>1 DEF Environment, PeerSends, PeerCloses, PeerResets
<1>4. Members(writes'[h]) \subseteq Members(writes[h])
  BY <1>3 DEF Members
<1>5. peer'[h] = p /\ \A g \in Handles : g # h => peer'[g] = peer[g]
  BY <1>1, <1>2
<1> HIDE DEF q
<1>6. ~Garbled(h)' /\ \A n : Expects(peer[h], n) => Expects(peer'[h], n)
  BY <1>2, <1>5 DEF Garbled, q
<1>7. QED  BY <1>1, <1>3, <1>4, <1>5, <1>6, WorldKeepsClean

LEMMA ReadsClean ==
    ASSUME Typed, Belonging, Clean, UNCHANGED serverVars, NEW h \in Handles,
           (\E n \in Nat : Deliver(h, n)) \/ DeliverEof(h)
    PROVE  Clean'
<1> DEFINE q == peer[h]
<1>1. PICK k \in Keys : assoc[h] = k
  BY OwnerOf DEF Deliver, DeliverEof
<1>2. /\ UNCHANGED <<clients, writes>> /\ port \in Seq(Packet) /\ peer \in [Handles -> Peer]
      /\ q \in Peer /\ ~q.junk
  BY DEF serverVars, Deliver, DeliverEof, Typed, TypeOK, SockTypeOK, Clean, Garbled
<1>3. PICK n \in Nat : /\ port' = Append(port, NewPacket("recv", k, n))
                       /\ \/ UNCHANGED peer
                          \/ q.st = "sending" /\ peer' = [peer EXCEPT ![h] = Taken(q, n)]
  BY <1>1, 0 \in Nat, Zenon DEF Deliver, DeliverEof
<1>4. \A j \in Keys : Due(port', j) \subseteq Due(port, j)
  <2> DEFINE p == NewPacket("recv", k, n)
  <2>1. p \in Packet /\ p.op = "recv"
    BY PacketsAreTyped DEF NewPacket
  <2> HIDE DEF p
  <2>2. QED  BY <1>2, <1>3, <2>1, DueAppend DEF p
<1>5. CASE UNCHANGED peer
  <2>1. ~Garbled(h)'
    BY <1>5 DEF Clean, Garbled
  <2>2. QED  BY <1>2, <1>4, <1>5, <2>1, WorldKeepsClean
<1>6. CASE q.st = "sending" /\ peer' = [peer EXCEPT ![h] = Taken(q, n)]
  <2> DEFINE p == Taken(q, n)
  <2>1. p.st \in {"sending", "waiting"} /\ ~p.junk
    BY <1>2, <1>6 DEF Taken, Peer
  <2>2. peer'[h] = p /\ \A g \in Handles : g # h => peer'[g] = peer[g]
    BY <1>2, <1>6
  <2> HIDE DEF p
  <2>3. ~Garbled(h)' /\ \A j : ~Expects(peer[h], j)
    BY <1>6, <2>1, <2>2 DEF Garbled, Expects
  <2>4. QED  BY <1>2, <1>4, <2>2, <2>3, WorldKeepsClean
<1>7. QED  BY <1>3, <1>5, <1>6

LEMMA SendCompletesClean ==
    ASSUME Typed, Belonging, Clean, UNCHANGED serverVars, NEW h \in Handles, SendCompletes(h)
    PROVE  Clean'
<1>1. PICK k \in Keys : clients[k].socket = h /\ Occupied(k) /\ assoc[h] = k
  BY OwnerOf DEF SendCompletes
<1> DEFINE wr == writes[h]
           n == Head(wr).n
           p == NewPacket("send", k, n)
<1>2. /\ UNCHANGED <<peer, clients>> /\ wr # <<>> /\ wr \in Seq(Write)
      /\ writes' = [writes EXCEPT ![h] = Tail(wr)] /\ port' = Append(port, p)
      /\ port \in Seq(Packet) /\ writes \in [Handles -> Seq(Write)]
  BY <1>1 DEF SendCompletes, serverVars, Typed, TypeOK, SockTypeOK
<1>3. n \in Nat /\ Head(wr) \in Members(wr) /\ Members(Tail(wr)) \subseteq Members(wr)
  <2> HIDE DEF wr
  <2>1. /\ Members(wr) \subseteq Write /\ Head(wr) \in Members(wr)
        /\ Members(Tail(wr)) \subseteq Members(wr)
    BY <1>2, MembersAre
  <2>2. QED  BY <2>1 DEF Write
<1>4. p \in Packet /\ p.key = k /\ p.n = n
  BY <1>3, PacketsAreTyped DEF NewPacket
<1>5. writes'[h] = Tail(wr) /\ \A g \in Handles : g # h => writes'[g] = writes[g]
  BY <1>2
<1>6. clients[k].unsent <= n /\ AnswersStraight(k)
  BY <1>1, <1>3 DEF Clean, AnswersStraight, Straight
<1> HIDE DEF n, p
<1>7. AnswersStraight(k)'
  <2>1. \A w \in Members(writes'[h]) : w \in Members(wr)
    BY <1>3, <1>5
  <2>2. \A j \in Due(port', k) : j \in Due(port, k) \/ j = n
    BY <1>2, <1>4, DueAppend
  <2>3. \A w \in Members(wr) : w.first /\ clients[k].unsent <= w.n /\ (~w.sent => Expects(peer[h], w.n))
    BY <1>1, <1>6 DEF AnswersStraight, Straight
  <2>4. \A j \in Due(port, k) : clients[k].unsent <= j
    BY <1>6 DEF AnswersStraight, Straight
  <2> HIDE DEF wr
  <2>5. QED  BY <1>1, <1>2, <1>6, <2>1, <2>2, <2>3, <2>4 DEF AnswersStraight, Straight
<1>8. \A j \in Keys : clients[j].socket # h => Due(port', j) \subseteq Due(port, j)
  <2>1. ASSUME NEW j \in Keys, clients[j].socket # h PROVE Due(port', j) \subseteq Due(port, j)
    <3>1. ~Present(p, j)
      BY <1>1, <1>4, <2>1 DEF Present
    <3>2. QED  BY <1>2, <1>4, <3>1, DueAppend
  <2>2. QED  BY <2>1
<1>9. \A j \in Keys : Occupied(j) /\ clients[j].socket = h => AnswersStraight(j)'
  BY <1>1, <1>7 DEF Belonging, Owned
<1>10. ~Garbled(h)'
  BY <1>2 DEF Clean, Garbled
<1> HIDE DEF wr
<1>11. QED  BY <1>2, <1>5, <1>8, <1>9, <1>10, WorldClean

\* All of an answer is transmitted: it is the one its peer waits for, or nobody reads it.
LEMMA TransmitClean ==
    ASSUME Typed, Belonging, Talking, Clean, UNCHANGED serverVars, hit = {},
           "partial" \notin Faults, NEW h \in Handles,
           NEW i \in DOMAIN writes[h], NEW n \in 1 .. writes[h][i].n, Transmit(h, i, n)
    PROVE  Clean'
<1> DEFINE wr == writes[h]
           w == [wr[i] EXCEPT !.n = n, !.sent = TRUE]
           r == [wr EXCEPT ![i] = w]
           p == peer[h]
           q == Given(p, wr[i], n)
<1>1. /\ UNCHANGED <<port, clients>> /\ ~wr[i].sent /\ n = wr[i].n
      /\ writes' = [writes EXCEPT ![h][i] = w]
      /\ peer' = [peer EXCEPT ![h] = q]
  BY DEF Transmit, serverVars
<1>2. /\ writes \in [Handles -> Seq(Write)] /\ wr \in Seq(Write) /\ wr[i] \in Write
      /\ peer \in [Handles -> Peer] /\ p \in Peer /\ wr # <<>>
  BY DEF Typed, TypeOK, SockTypeOK
<1>3. PICK k \in Keys : clients[k].socket = h /\ Occupied(k)
  BY <1>2, OwnerOf
<1>4. /\ writes'[h] = r /\ peer'[h] = q
      /\ \A g \in Handles : g # h => writes'[g] = writes[g] /\ peer'[g] = peer[g]
  <2> HIDE DEF w, q
  <2>1. QED  BY <1>1, <1>2
<1>5. /\ \A j \in DOMAIN wr : /\ wr[j].first /\ clients[k].unsent <= wr[j].n
                              /\ ~wr[j].sent => Expects(p, wr[j].n)
      /\ \A d \in Due(port, k) : clients[k].unsent <= d
  BY <1>3 DEF Clean, AnswersStraight, Straight, Members
<1>6. w.first /\ w.n = wr[i].n /\ w.sent
  BY <1>1, <1>2, <1>5 DEF Write
<1>7. Expects(p, wr[i].n) /\ ~p.junk /\ p.st # "garbled"
  BY <1>1, <1>5 DEF Clean, Garbled
<1>8. CASE p.st = "waiting"
  <2>1. p.got = 0 /\ p.msg.reply = wr[i].n /\ wr[i].n \in Nat
    BY <1>2, <1>7, <1>8 DEF Expects, Write
  <2>2. Wanted(p, wr[i])
    <3>1. p.got + wr[i].n = p.msg.reply
      BY <2>1
    <3>2. QED  BY <1>5, <1>8, <2>1, <3>1 DEF Wanted
  <2>3. q.st = "idle" /\ ~q.junk
    <3> DEFINE c == [Connected EXCEPT !.key = p.key]
    <3>1. c.st = "idle" /\ ~c.junk
      BY DEF Connected, Nobody
    <3>2. ~(n < wr[i].n)
      BY <1>1, <2>1
    <3>3. q = c
      <4> DEFINE a == Wanted(p, wr[i]) /\ n < wr[i].n
                 b == Wanted(p, wr[i]) /\ n = wr[i].n
                 d == p.st = "waiting" /\ ~Wanted(p, wr[i])
                 e == p.st \in {"idle", "sending"}
      <4>1. ~a /\ b /\ ~d /\ ~e
        BY <1>1, <1>8, <2>2, <3>2
      <4>2. QED  BY <4>1, Zenon DEF Given
    <3>4. QED  BY <3>1, <3>3
  <2>4. \A j \in DOMAIN wr : j # i => wr[j].sent
    <3>1. OneStarting(wr)
      <4>1. PICK b, sizes, t : Speaks(k, b, sizes, t)
        BY <1>2, <1>3, ClientSpeaks
      <4>2. Settled(wr) \/ OneStarting(wr)
        BY <1>3, <1>8, <4>1 DEF Speaks, Stream, InOrder, SendingStream, WaitingStream
      <4>3. QED  BY <4>2 DEF Settled, OneStarting
    <3>2. QED  BY <1>1, <1>5, <3>1 DEF OneStarting, Starting
  <2>5. /\ \A j \in DOMAIN r : r[j].first /\ clients[k].unsent <= r[j].n /\ r[j].sent
    <3> HIDE DEF w, q, p
    <3>1. QED  BY <1>2, <1>5, <1>6, <2>4
  <2> HIDE DEF q
  <2>6. ~Garbled(h)'
    BY <1>4, <2>3 DEF Garbled
  <2>7. AnswersStraight(k)'
    <3> HIDE DEF w, p, wr
    <3>1. \A x \in Members(r) : /\ x.first /\ clients[k].unsent <= x.n
                                /\ ~x.sent => Expects(q, x.n)
      BY <2>5 DEF Members
    <3> HIDE DEF r
    <3>2. \A d \in Due(port', k) : clients[k].unsent <= d
      BY <1>1, <1>5
    <3> DEFINE u == clients[k].unsent
               due == Due(port', k)
    <3>3. Straight(q, r, u, due)
      <4> HIDE DEF u, due
      <4>1. \A x \in Members(r) : x.first /\ u <= x.n /\ (~x.sent => Expects(q, x.n))
        BY <3>1 DEF u
      <4>2. \A d \in due : u <= d
        BY <3>2 DEF u, due
      <4>3. QED  BY <4>1, <4>2, Zenon DEF Straight
    <3>4. /\ clients' = clients /\ clients[k].socket = h /\ writes'[h] = r /\ peer'[h] = q
      BY <1>1, <1>3, <1>4
    <3>5. QED  BY <3>3, <3>4 DEF AnswersStraight
  <2>8. \A j \in Keys : Occupied(j) /\ clients[j].socket = h => AnswersStraight(j)'
    BY <1>3, <2>7 DEF Belonging, Owned
  <2>9. \A j \in Keys : Due(port', j) \subseteq Due(port, j)
    BY <1>1
  <2>10. QED  BY <1>1, <1>4, <2>6, <2>8, <2>9, WorldClean
<1>9. CASE p.st \in {"fin", "reset", "none"}
  <2>1. q = p
    <3> DEFINE a == Wanted(p, wr[i]) /\ n < wr[i].n
               b == Wanted(p, wr[i]) /\ n = wr[i].n
               d == p.st = "waiting" /\ ~Wanted(p, wr[i])
               e == p.st \in {"idle", "sending"}
    <3>1. ~a /\ ~b /\ ~d /\ ~e
      BY <1>9 DEF Wanted
    <3>2. QED  BY <3>1, Zenon DEF Given
  <2>2. \A j \in DOMAIN r : /\ r[j].first /\ clients[k].unsent <= r[j].n
                            /\ ~r[j].sent => Expects(p, r[j].n)
    <3> HIDE DEF w, q, p
    <3>1. QED  BY <1>2, <1>5, <1>6
  <2> HIDE DEF q
  <2>3. ~Garbled(h)'
    BY <1>4, <1>7, <2>1 DEF Garbled
  <2>4. AnswersStraight(k)'
    <3> HIDE DEF w, p, wr
    <3>1. \A x \in Members(r) : /\ x.first /\ clients[k].unsent <= x.n
                                /\ ~x.sent => Expects(q, x.n)
      BY <2>1, <2>2 DEF Members
    <3> HIDE DEF r
    <3>2. \A d \in Due(port', k) : clients[k].unsent <= d
      BY <1>1, <1>5
    <3> DEFINE u == clients[k].unsent
               due == Due(port', k)
    <3>3. Straight(q, r, u, due)
      <4> HIDE DEF u, due
      <4>1. \A x \in Members(r) : x.first /\ u <= x.n /\ (~x.sent => Expects(q, x.n))
        BY <3>1 DEF u
      <4>2. \A d \in due : u <= d
        BY <3>2 DEF u, due
      <4>3. QED  BY <4>1, <4>2, Zenon DEF Straight
    <3>4. /\ clients' = clients /\ clients[k].socket = h /\ writes'[h] = r /\ peer'[h] = q
      BY <1>1, <1>3, <1>4
    <3>5. QED  BY <3>3, <3>4 DEF AnswersStraight
  <2>5. \A j \in Keys : Occupied(j) /\ clients[j].socket = h => AnswersStraight(j)'
    BY <1>3, <2>4 DEF Belonging, Owned
  <2>6. \A j \in Keys : Due(port', j) \subseteq Due(port, j)
    BY <1>1
  <2>7. QED  BY <1>1, <1>4, <2>3, <2>5, <2>6, WorldClean
<1>10. QED  BY <1>7, <1>8, <1>9 DEF Expects

\* What happened is not forgotten.
LEMMA HistoryKept ==
    ASSUME [Next]_vars
    PROVE  hit \subseteq hit' /\ (late => late')
<1>1. UNCHANGED serverVars \/ UNCHANGED vars => UNCHANGED <<hit, late>>
  BY DEF serverVars, vars
<1>2. Tick \/ WaitTimedOut \/ OperationFailed \/ AcceptCompleted \/ RefuseFull
      \/ RefuseNoAddress \/ Cancelled
      \/ (\E k \in Keys : ScheduleDisconnect(k) \/ Admit(k) \/ RefuseNotAssociated(k))
      => UNCHANGED <<hit, late>>
  BY DEF Tick, WaitTimedOut, OperationFailed, AcceptCompleted, RefuseFull, RefuseNoAddress,
         Refuse, RefuseNotAssociated, Cancelled, ScheduleDisconnect, Admit
<1>3. ReceiveEnd \/ ReceivePartial \/ ReceiveUnknown \/ SendPartial \/ SendDone =>
         Touch(Head(port)) /\ UNCHANGED late
  BY Zenon DEF ReceiveEnd, ReceivePartial, ReceiveUnknown, SendPartial, SendDone, Receive, Send
<1>4. ReceiveKeyRequest \/ ReceiveRequest => Touch(Head(port)) /\ \E k, m : Answers(k, m)
  BY Zenon DEF ReceiveKeyRequest, ReceiveRequest, Receive
<1>5. Touch(Head(port)) => hit \subseteq hit'
  BY DEF Touch
<1>6. (\E k, m : Answers(k, m)) => (late => late')
  BY DEF Answers
<1>7. CASE Thread
  BY <1>2, <1>3, <1>4, <1>5, <1>6, <1>7 DEF Thread
<1>8. CASE ~Thread
  <2>1. Tick \/ UNCHANGED serverVars \/ UNCHANGED vars
    BY <1>8, Zenon DEF Next
  <2>2. QED  BY <1>1, <1>2, <2>1
<1>9. QED  BY <1>7, <1>8

\* Every step keeps the invariant.
LEMMA NextClean ==
    ASSUME "partial" \notin Faults, AlwaysClean, [Next]_vars
    PROVE  AlwaysClean'
<1>1. Streaming'
  BY NextTalks DEF AlwaysClean
<1>2. Typed
  BY DEF AlwaysClean, Streaming, Accepts, Safe
<1> SUFFICES ASSUME NoLeak', hit' = {}, ~late' PROVE Clean'
  BY <1>1 DEF AlwaysClean
<1>3. NoLeak /\ (\A k \in Keys : ~RefuseNotAssociated(k)) /\ hit = {} /\ ~late
  BY LeakRemembered, HistoryKept
<1>4. Belonging /\ Talking /\ OneAccept /\ Clean
  BY <1>3 DEF AlwaysClean, Streaming, Accepts, Safe
<1>5. CASE Thread
  <2>1. CASE \E k \in Keys : ScheduleDisconnect(k) \/ Admit(k) \/ RefuseNotAssociated(k)
    BY <1>2, <1>3, <1>4, <2>1, ScheduleDisconnectClean, AdmitClean
  <2>2. CASE WaitTimedOut \/ OperationFailed \/ AcceptCompleted \/ RefuseFull \/ RefuseNoAddress
    BY <1>2, <1>4, <2>2, TimeoutCheckClean, RefuseClean
  <2>3. CASE ReceiveEnd \/ ReceivePartial \/ ReceiveUnknown \/ SendPartial \/ SendDone \/ Cancelled
    BY <1>2, <1>4, <2>3, ReceiveEndClean, ReceiveMoreClean, SendClean, CancelledClean
  <2>4. CASE ReceiveKeyRequest \/ ReceiveRequest
    BY <1>2, <1>4, <2>4, ReceiveKeyRequestClean, ReceiveRequestClean
  <2>5. QED  BY <1>5, <2>1, <2>2, <2>3, <2>4, Zenon DEF Thread
<1>6. CASE Tick
  BY <1>2, <1>4, <1>6, TimeoutCheckClean
<1>7. CASE (PeerConnects \/ AcceptFails \/ AbortCompletes) /\ UNCHANGED serverVars
  BY <1>2, <1>4, <1>7, ConnectClean
<1>8. ASSUME NEW h \in Handles, Environment(h) \/ Completion(h), UNCHANGED serverVars
      PROVE  Clean'
  <2>1. CASE Environment(h)
    BY <1>2, <1>4, <1>8, <2>1, PeerClean
  <2>2. CASE Completion(h)
    <3>1. 0 .. MAX_BUF_SIZE \subseteq Nat
      BY WinsockAssumption
    <3>2. CASE (\E n \in Nat : Deliver(h, n)) \/ DeliverEof(h)
      BY <1>2, <1>4, <1>8, <3>2, ReadsClean
    <3>3. CASE SendCompletes(h)
      BY <1>2, <1>4, <1>8, <3>3, SendCompletesClean
    <3>4. ASSUME NEW i \in DOMAIN writes[h], NEW n \in 1 .. writes[h][i].n, Transmit(h, i, n)
          PROVE  Clean'
      BY <1>2, <1>3, <1>4, <1>8, <3>4, TransmitClean
    <3>5. QED  BY <2>2, <3>1, <3>2, <3>3, <3>4 DEF Completion
  <2>3. QED  BY <1>8, <2>1, <2>2
<1>9. CASE UNCHANGED vars
  <2>1. UNCHANGED <<port, writes, peer, clients>>
    BY <1>9 DEF vars, serverVars, sockVars
  <2>2. \A j \in Keys : clients[j].unsent \in Int /\ clients[j].unsent <= clients[j].unsent
    BY <1>2 DEF Typed, TypeOK, Client
  <2>3. QED  BY <1>2, <1>4, <2>1, <2>2, SilentClean
<1>10. QED  BY <1>5, <1>6, <1>7, <1>8, <1>9 DEF Next

\* Where the kernel transmits all of what it is given, no peer gets bytes that answer
\* nothing as long as no answer is written while the completion of a shorter one is due
\* and no stale packet was taken for a client: however the answers differ in length and
\* the completions are delayed (the send case of ProcessEvent).
THEOREM AnswersAnswer ==
    ASSUME "partial" \notin Faults
    PROVE  Spec => [](NoLeak => AnswersNotGarbled)
<1>1. Init => AlwaysClean
  <2>1. Init => OneAccept
    BY DEF Init, SockInit, OneAccept, IsAccept, Idle
  <2>2. Init => Clean
    BY DEF Init, SockInit, Clean, Garbled, Nobody, Occupied, FreeClient
  <2>3. QED  BY <2>1, <2>2, InitSafe, InitTalks DEF AlwaysClean, Streaming, Accepts
<1>2. AlwaysClean /\ [Next]_vars => AlwaysClean'
  BY NextClean
<1>3. AlwaysClean => (NoLeak => AnswersNotGarbled)
  BY DEF AlwaysClean, Clean, AnswersNotGarbled, NeverGarbled
<1>4. QED  BY <1>1, <1>2, <1>3, PTL DEF Spec
=============================================================================
