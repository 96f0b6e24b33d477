--------------------------- MODULE OwnershipProofs ---------------------------
(***************************************************************************)
(* Who owns what, for every number of slots: sockets, symmetric keys, I/O  *)
(* in flight and packets in the port belong to one client each.            *)
(***************************************************************************)
EXTENDS ServerProofs

Stranger(h) == \A k \in Keys : clients[k].socket # h

\* The completion key of a client's socket is its slot.
Associated == \A k \in Keys : Occupied(k) => assoc[clients[k].socket] = k

Owned ==
    /\ open = {acceptSocket} \cup {clients[k].socket : k \in Keys \ FreeKeys}
    /\ \A j, k \in Keys : Occupied(j) /\ clients[j].socket = clients[k].socket => j = k
    /\ \A k \in Keys : clients[k].socket # acceptSocket

Keyed ==
    \A k \in Keys : Occupied(k) =>
        /\ symKeys[k] = clients[k].socket
        /\ peer[clients[k].socket].key \in {NoKey, symKeys[k]}

\* A socket that no client has is not used: no key was given on it, and nothing
\* is in flight.
Unused ==
    \A h \in Handles : Stranger(h) =>
        peer[h].key = NoKey /\ reads[h] = <<>> /\ writes[h] = <<>>

Belongs(p) == p.op \in {"recv", "send", "cancel"} /\ ~p.stale =>
                 p.key \in Keys /\ Occupied(p.key)
Queued(q) == \A i \in DOMAIN q : Belongs(q[i])

Belonging == Associated /\ Owned /\ Keyed /\ Unused /\ Queued(port)

\* The inductive invariant: none of its parts is inductive without the others.
\* That keys agree rests on Unused, for a socket handed out again; Unused on
\* Owned, for a socket that is closed; and what the kernel queues on Associated.
Safe == Typed /\ (NoLeak => Belonging)

\* The sockets of the server, one by one.
LEMMA OwnedSockets ==
    ASSUME Typed, Owned, NEW k \in Keys
    PROVE  /\ clients[k].socket \in Handles <=> Occupied(k)
           /\ clients[k].socket \in open <=> Occupied(k)
           /\ acceptSocket \in open /\ acceptSocket \in Handles
<1>1. clients[k].socket \in Handles \cup {INVALID_SOCKET}
  BY DEF Typed, TypeOK, Client, Sockets
<1>2. clients[k].socket \in Handles <=> Occupied(k)
  BY <1>1, WinsockAssumption DEF Occupied
<1>3. acceptSocket \in open /\ acceptSocket \in Handles /\ open \subseteq Handles
  BY DEF Owned, Typed, TypeOK, SockTypeOK
<1>4. Occupied(k) => clients[k].socket \in open
  BY DEF Owned, FreeKeys
<1>5. QED  BY <1>2, <1>3, <1>4

\* A step that moves no socket keeps the invariant, if it hands out no key but
\* the client's own, starts no I/O elsewhere and queues nothing for nobody.
LEMMA SocketsKept ==
    ASSUME Typed, Belonging,
           UNCHANGED <<open, acceptSocket, assoc, symKeys>>,
           \A k \in Keys : clients'[k].socket = clients[k].socket,
           \A h \in Handles :
              \/ peer'[h].key \in {peer[h].key, NoKey}
              \/ \E k \in Keys : clients[k].socket = h /\ peer'[h].key = symKeys[k],
           \A h \in Handles : Stranger(h) =>
              reads'[h] \in {reads[h], <<>>} /\ writes'[h] \in {writes[h], <<>>},
           \A i \in DOMAIN port' : Belongs(port'[i])
    PROVE  Belonging'
<1>1. \A k \in Keys : Occupied(k)' <=> Occupied(k)
  BY DEF Occupied
<1>2. FreeKeys' = FreeKeys
  BY <1>1 DEF FreeKeys
<1>3. Associated'
  BY <1>1 DEF Associated, Belonging
<1>4. Owned'
  <2>1. {clients'[k].socket : k \in Keys \ FreeKeys'} = {clients[k].socket : k \in Keys \ FreeKeys}
    BY <1>2
  <2>2. QED  BY <1>1, <2>1 DEF Owned, Belonging
<1>5. Keyed'
  <2> SUFFICES ASSUME NEW k \in Keys, Occupied(k)
               PROVE  symKeys[k] = clients[k].socket /\ peer'[clients[k].socket].key \in {NoKey, symKeys[k]}
    BY <1>1 DEF Keyed
  <2>1. symKeys[k] = clients[k].socket /\ peer[clients[k].socket].key \in {NoKey, symKeys[k]}
    BY DEF Belonging, Keyed
  <2>2. clients[k].socket \in Handles
    BY OwnedSockets DEF Belonging
  <2>3. \A j \in Keys : clients[j].socket = clients[k].socket => j = k
    BY DEF Belonging, Owned
  <2>4. QED  BY <2>1, <2>2, <2>3
<1>6. Unused'
  <2>1. ASSUME NEW h \in Handles, Stranger(h)'
        PROVE  Stranger(h)
    BY <2>1 DEF Stranger
  <2>2. QED  BY <2>1 DEF Unused, Belonging, Stranger
<1>7. Queued(port)'
  BY <1>1 DEF Queued, Belongs
<1>8. QED  BY <1>3, <1>4, <1>5, <1>6, <1>7 DEF Belonging

\* What is left of the port, and what it becomes when more is queued.
LEMMA TailBelongs ==
    ASSUME Typed, Queued(port), port # <<>>
    PROVE  Belongs(Head(port)) /\ Queued(Tail(port))
<1>1. port \in Seq(Packet)
  BY DEF Typed, TypeOK, SockTypeOK
<1>2. 1 \in DOMAIN port /\ Head(port) = port[1]
  BY <1>1
<1>3. \A i \in DOMAIN Tail(port) : i + 1 \in DOMAIN port /\ Tail(port)[i] = port[i + 1]
  BY <1>1
<1>4. QED  BY <1>2, <1>3 DEF Queued

\* The port after a completion that belongs to its slot was queued.
LEMMA AppendBelongs ==
    ASSUME Typed, Queued(port), NEW p \in Packet, Belongs(p)
    PROVE  Queued(Append(port, p))
<1>1. port \in Seq(Packet)
  BY DEF Typed, TypeOK, SockTypeOK
<1>2. \A i \in DOMAIN Append(port, p) :
        Append(port, p)[i] = p \/ (i \in DOMAIN port /\ Append(port, p)[i] = port[i])
  BY <1>1
<1>3. QED  BY <1>2 DEF Queued

\* Packets of failed operations belong to no slot.
LEMMA FailedBelongs ==
    ASSUME NEW q \in Seq(Packet), Queued(q), NEW n \in Nat
    PROVE  q \o FailedPackets(n) \in Seq(Packet) /\ Queued(q \o FailedPackets(n))
<1> DEFINE f == FailedPackets(n)
<1>1. f \in Seq(Packet) /\ q \o f \in Seq(Packet)
  BY PacketsAreTyped
<1>2. \A i \in DOMAIN f : Belongs(f[i])
  BY DEF FailedPackets, NewPacket, Belongs
<1>3. \A i \in DOMAIN (q \o f) : \/ i \in DOMAIN q /\ (q \o f)[i] = q[i]
                                 \/ \E j \in DOMAIN f : (q \o f)[i] = f[j]
  <2> HIDE DEF f
  <2> SUFFICES ASSUME NEW i \in 1 .. Len(q) + Len(f), i \notin 1 .. Len(q)
               PROVE  \E j \in DOMAIN f : (q \o f)[i] = f[j]
    BY <1>1
  <2>1. i - Len(q) \in DOMAIN f /\ (q \o f)[i] = f[i - Len(q)]
    BY <1>1
  <2>2. QED  BY <2>1
<1>4. QED  BY <1>1, <1>2, <1>3 DEF Queued

\* CancelIo followed by the posting of a packet for the same slot.
LEMMA CancelBelongs ==
    ASSUME Typed, NEW h, NEW q \in Seq(Packet), Queued(q),
           NEW p \in Packet, Belongs(p), CancelIo(h, q, <<p>>)
    PROVE  /\ \A i \in DOMAIN port' : Belongs(port'[i])
           /\ \A g \in Handles : /\ reads'[g] \in {reads[g], <<>>}
                                 /\ writes'[g] \in {writes[g], <<>>}
<1>1. PICK n \in Nat : port' = q \o FailedPackets(n) \o <<p>> \/ port' = q \o <<p>>
  <2>1. CASE h \in open
    <3>1. InFlight(h) \in Nat
      BY <2>1, InFlightType DEF Typed, TypeOK, SockTypeOK
    <3>2. QED  BY <2>1, <3>1 DEF CancelIo
  <2>2. CASE h \notin open
    BY <2>2 DEF CancelIo
  <2>3. QED  BY <2>1, <2>2
<1>2. ASSUME NEW r \in Seq(Packet), Queued(r)
      PROVE  \A i \in DOMAIN (r \o <<p>>) : Belongs((r \o <<p>>)[i])
  <2>1. \A i \in DOMAIN (r \o <<p>>) : (r \o <<p>>)[i] = p \/ (i \in DOMAIN r /\ (r \o <<p>>)[i] = r[i])
    OBVIOUS
  <2>2. QED  BY <1>2, <2>1 DEF Queued
<1>3. q \o FailedPackets(n) \in Seq(Packet) /\ Queued(q \o FailedPackets(n))
  BY FailedBelongs
<1>4. \A i \in DOMAIN port' : Belongs(port'[i])
  BY <1>1, <1>2, <1>3
<1>5. \A g \in Handles : reads'[g] \in {reads[g], <<>>} /\ writes'[g] \in {writes[g], <<>>}
  BY DEF CancelIo, Typed, TypeOK, SockTypeOK
<1>6. QED  BY <1>4, <1>5

\* WSARecv and WSASend on a client's socket start nothing elsewhere.
LEMMA ReadsOfClients ==
    ASSUME Typed, NEW k \in Keys, NEW at, WSARecv(clients[k].socket, at)
    PROVE  \A h \in Handles : Stranger(h) => reads'[h] = reads[h]
  BY DEF WSARecv, Stranger, Typed, TypeOK, SockTypeOK

\* A write posted for a slot is in flight on a socket of a client.
LEMMA WritesOfClients ==
    ASSUME Typed, NEW k \in Keys, NEW n, NEW first, WSASend(clients[k].socket, n, first)
    PROVE  \A h \in Handles : Stranger(h) => writes'[h] = writes[h]
  BY DEF WSASend, Stranger, Typed, TypeOK, SockTypeOK

\* ScheduleRead posts its read on a socket of a client, if on any.
LEMMA ReadAnewOfClients ==
    ASSUME Typed, NEW t, ReadAnew(t)
    PROVE  \A h \in Handles : Stranger(h) => reads'[h] = reads[h]
<1>1. CASE t \in Keys
  BY <1>1, ReadsOfClients DEF ReadAnew
<1>2. CASE t \notin Keys
  BY <1>2 DEF ReadAnew
<1>3. QED  BY <1>1, <1>2

\* The steps that take a packet and only look for expired clients.
LEMMA TimeoutCheckSafe ==
    ASSUME Typed, Belonging, WaitTimedOut \/ OperationFailed \/ AcceptCompleted
    PROVE  Belonging'
<1>1. /\ UNCHANGED <<open, assoc, reads, writes, peer, clients, acceptSocket, symKeys>>
      /\ UNCHANGED port \/ (TakePacket /\ port # <<>>)
  BY DEF WaitTimedOut, OperationFailed, AcceptCompleted, Gets, sockVars
<1>2. \A i \in DOMAIN port' : Belongs(port'[i])
  <2>1. CASE UNCHANGED port
    BY <2>1 DEF Belonging, Queued
  <2>2. CASE TakePacket /\ port # <<>>
    BY <2>2, TailBelongs DEF Belonging, TakePacket, Queued
  <2>3. QED  BY <1>1, <2>1, <2>2
<1>3. QED  BY <1>1, <1>2, SocketsKept

\* ScheduleDisconnect cancels the I/O of one client and posts a packet for it.
LEMMA ScheduleDisconnectSafe ==
    ASSUME Typed, Belonging, NEW k \in Keys, ScheduleDisconnect(k)
    PROVE  Belonging'
<1> DEFINE s == clients[k].socket
<1>1. UNCHANGED <<open, assoc, peer, clients, acceptSocket, symKeys>>
  BY DEF ScheduleDisconnect
<1>2. CASE s \in open
  <2>1. Occupied(k)
    BY <1>2, OwnedSockets DEF Belonging
  <2>2. NewPacket("cancel", k, 0) \in Packet /\ Belongs(NewPacket("cancel", k, 0))
    BY <2>1, PacketsAreTyped DEF Belongs, NewPacket
  <2>3. CancelIo(s, port, <<NewPacket("cancel", k, 0)>>)
    BY <1>2 DEF ScheduleDisconnect
  <2>4. port \in Seq(Packet) /\ Queued(port)
    BY DEF Typed, TypeOK, SockTypeOK, Belonging
  <2>5. /\ \A i \in DOMAIN port' : Belongs(port'[i])
        /\ \A g \in Handles : reads'[g] \in {reads[g], <<>>} /\ writes'[g] \in {writes[g], <<>>}
    BY <2>2, <2>3, <2>4, CancelBelongs
  <2>6. QED  BY <1>1, <2>5, SocketsKept
<1>3. CASE s \notin open
  <2>1. UNCHANGED <<port, reads, writes>>
    BY <1>3 DEF ScheduleDisconnect
  <2>2. QED  BY <1>1, <2>1, SocketsKept DEF Belonging, Queued
<1>4. QED  BY <1>2, <1>3

\* An end of stream is answered with a cancellation for the same client.
LEMMA ReceiveEndSafe ==
    ASSUME Typed, Belonging, ReceiveEnd
    PROVE  Belonging'
<1> DEFINE k == Head(port).key
           packet == [NewPacket("cancel", k, 0) EXCEPT !.stale = Head(port).stale]
<1>1. Gets("recv") /\ port # <<>> /\ Head(port).op = "recv"
  BY DEF ReceiveEnd, Gets
<1>2. k \in Keys /\ Head(port).stale \in BOOLEAN /\ Tail(port) \in Seq(Packet)
  BY <1>1, HeadOfPort
<1>3. Belongs(Head(port)) /\ Queued(Tail(port))
  BY <1>1, TailBelongs DEF Belonging
<1>4. packet \in Packet /\ Belongs(packet)
  BY <1>1, <1>2, <1>3 DEF NewPacket, Packet, Belongs
<1>5. CancelIo(clients[k].socket, Tail(port), <<packet>>)
  BY Zenon DEF ReceiveEnd
<1>6. /\ \A i \in DOMAIN port' : Belongs(port'[i])
      /\ \A g \in Handles : reads'[g] \in {reads[g], <<>>} /\ writes'[g] \in {writes[g], <<>>}
  BY <1>2, <1>3, <1>4, <1>5, CancelBelongs
<1>7. /\ UNCHANGED <<open, assoc, peer, acceptSocket, symKeys>>
      /\ clients' = [clients EXCEPT ![k].age = 0]
  BY Zenon DEF ReceiveEnd
<1>8. \A j \in Keys : clients'[j].socket = clients[j].socket
  BY <1>7 DEF Typed, TypeOK, Client
<1>9. QED  BY <1>6, <1>7, <1>8, SocketsKept

\* The handlers of data and of completed sends: they use the sockets of clients
\* and hand out no key but the client's own.
LEMMA IoSafe ==
    ASSUME Typed, Belonging, Send \/ \E kind : Receive(kind),
           \A k \in Keys : clients'[k].socket = clients[k].socket,
           \A h \in Handles : Stranger(h) => reads'[h] = reads[h] /\ writes'[h] = writes[h],
           \A h \in Handles :
              \/ peer'[h].key = peer[h].key
              \/ \E k \in Keys : clients[k].socket = h /\ peer'[h].key = symKeys[k]
    PROVE  Belonging'
<1>1. /\ UNCHANGED <<open, acceptSocket, assoc, symKeys>>
      /\ TakePacket /\ port # <<>>
  BY DEF Send, Receive, Gets
<1>2. \A i \in DOMAIN port' : Belongs(port'[i])
  BY <1>1, TailBelongs DEF Belonging, TakePacket, Queued
<1>3. QED  BY <1>1, <1>2, SocketsKept

\* What is received, answered or ignored stays with the client of the slot.
LEMMA ReceiveSafe ==
    ASSUME Typed, Belonging,
           ReceivePartial \/ ReceiveKeyRequest \/ ReceiveRequest \/ ReceiveUnknown
    PROVE  Belonging'
<1> DEFINE k == Head(port).key
           m == recvBuf[k].head
<1>1. PICK kind : Receive(kind)
  BY DEF ReceivePartial, ReceiveKeyRequest, ReceiveRequest, ReceiveUnknown
<1>2. k \in Keys /\ clients[k] \in Client /\ m.reply \in Nat
  BY <1>1, ReceiveTyped
<1>3. CASE ReceivePartial
  <2> DEFINE c == Received(k, Head(port).n)
  <2>1. clients' = [clients EXCEPT ![k] = c] /\ WSARecv(c.socket, c.recvBufSize)
        /\ UNCHANGED <<writes, peer>>
    BY <1>3, Zenon DEF ReceivePartial
  <2>2. c.socket = clients[k].socket
    BY <1>2 DEF Received, Client
  <2>3. \A j \in Keys : clients'[j].socket = clients[j].socket
    BY <1>2, <2>1, <2>2 DEF Typed, TypeOK
  <2>4. \A h \in Handles : Stranger(h) => reads'[h] = reads[h]
    BY <1>2, <2>1, <2>2, ReadsOfClients
  <2>5. QED  BY <1>1, <2>1, <2>3, <2>4, IoSafe
<1>4. CASE ReceiveKeyRequest
  <2> DEFINE c == clients[k]
             cs == [clients EXCEPT ![k] = Answering(c, m)]
  <2>1. /\ clients' = Emptied(cs, c.id)
        /\ WSASend(c.socket, m.reply, TRUE)
        /\ ReadAnew(c.id)
        /\ peer' = IF Usable(c.socket) THEN [peer EXCEPT ![c.socket].key = symKeys[c.id]]
                   ELSE peer
    BY <1>4, Zenon DEF ReceiveKeyRequest
  <2>2. \A j \in Keys : clients'[j].socket = clients[j].socket
    <3>1. /\ cs \in [Keys -> Client]
          /\ \A j \in Keys : cs[j].socket = clients[j].socket
      BY <1>2, AnsweringTyped
    <3> HIDE DEF cs
    <3>2. \A j \in Keys : Emptied(cs, c.id)[j].socket = cs[j].socket
      BY <3>1, ReadAnewTyped DEF Typed
    <3>3. QED  BY <2>1, <3>1, <3>2
  <2>3. \A h \in Handles : Stranger(h) => reads'[h] = reads[h] /\ writes'[h] = writes[h]
    BY <1>2, <2>1, ReadAnewOfClients, WritesOfClients
  <2>4. ASSUME NEW h \in Handles
        PROVE  \/ peer'[h].key = peer[h].key
               \/ \E j \in Keys : clients[j].socket = h /\ peer'[h].key = symKeys[j]
    <3>1. CASE Usable(c.socket) /\ h = c.socket
      <4>1. c.id = k
        BY <1>2, <3>1, WinsockAssumption DEF Typed, Numbered, Occupied
      <4>2. peer[h] \in Peer
        BY DEF Typed, TypeOK, SockTypeOK
      <4>3. peer'[h].key = symKeys[k]
        BY <2>1, <3>1, <4>1, <4>2 DEF Peer, Typed, TypeOK, SockTypeOK
      <4>4. QED  BY <1>2, <3>1, <4>3
    <3>2. CASE ~(Usable(c.socket) /\ h = c.socket)
      BY <2>1, <3>2 DEF Typed, TypeOK, SockTypeOK
    <3>3. QED  BY <3>1, <3>2
  <2>5. QED  BY <1>1, <2>2, <2>3, <2>4, IoSafe
<1>5. CASE ReceiveRequest
  <2>1. /\ clients' = [clients EXCEPT ![k] = Answering(clients[k], m)]
        /\ WSASend(clients[k].socket, m.reply, TRUE)
        /\ UNCHANGED <<reads, peer>>
    BY <1>5, Zenon DEF ReceiveRequest
  <2>2. \A j \in Keys : clients'[j].socket = clients[j].socket
    BY <1>2, <2>1, AnsweringTyped
  <2>3. \A h \in Handles : Stranger(h) => writes'[h] = writes[h]
    BY <1>2, <2>1, WritesOfClients
  <2>4. QED  BY <1>1, <2>1, <2>2, <2>3, IoSafe
<1>6. CASE ReceiveUnknown
  <2>1. /\ clients' = [clients EXCEPT ![k] = [clients[k] EXCEPT !.age = 0, !.recvBufSize = 0]]
        /\ UNCHANGED <<reads, writes, peer>>
    BY <1>6, Zenon DEF ReceiveUnknown
  <2>2. \A j \in Keys : clients'[j].socket = clients[j].socket
    BY <1>2, <2>1 DEF Typed, TypeOK, Client
  <2>3. QED  BY <1>1, <2>1, <2>2, IoSafe
<1>7. QED  BY <1>3, <1>4, <1>5, <1>6

\* A completed send leads to I/O of the client of the slot only.
LEMMA SendSafe ==
    ASSUME Typed, Belonging, SendPartial \/ SendDone
    PROVE  Belonging'
<1> DEFINE k == Head(port).key
           u == Unsent(k, Head(port).n)
           cs == [clients EXCEPT ![k].unsent = u]
<1>1. Send /\ UNCHANGED peer
  BY DEF SendPartial, SendDone, Send
<1>2. k \in Keys /\ Head(port).n \in Nat /\ clients[k] \in Client
  BY <1>1, HeadOfPort DEF Send
<1>3. /\ cs \in [Keys -> Client]
      /\ \A j \in Keys : cs[j].socket = clients[j].socket
  <2>1. u \in Int
    BY <1>2 DEF Unsent, Client
  <2>2. QED  BY <1>2, <2>1 DEF Client, Typed, TypeOK
<1>4. CASE SendPartial
  <2>1. clients' = cs /\ WSASend(clients[k].socket, u, FALSE) /\ UNCHANGED reads
    BY <1>4, Zenon DEF SendPartial
  <2>2. QED  BY <1>1, <1>2, <1>3, <2>1, WritesOfClients, IoSafe
<1>5. CASE SendDone
  <2>1. clients' = Emptied(cs, clients[k].id) /\ ReadAnew(clients[k].id) /\ UNCHANGED writes
    BY <1>5, Zenon DEF SendDone
  <2>2. \A j \in Keys : clients'[j].socket = clients[j].socket
    BY <1>3, <2>1, ReadAnewTyped DEF Typed
  <2>3. QED  BY <1>1, <2>1, <2>2, ReadAnewOfClients, IoSafe
<1>6. QED  BY <1>4, <1>5

\* The clock moves no socket.
LEMMA TickSafe ==
    ASSUME Typed, Belonging, Tick
    PROVE  Belonging'
<1>1. UNCHANGED <<open, acceptSocket, assoc, symKeys, peer, reads, writes, port>>
  BY DEF Tick, sockVars
<1>2. \A k \in Keys : clients'[k].socket = clients[k].socket
  BY DEF Tick, Typed, TypeOK, Client
<1>3. \A i \in DOMAIN port' : Belongs(port'[i])
  BY <1>1 DEF Belonging, Queued
<1>4. QED  BY <1>1, <1>2, <1>3, SocketsKept

\* What the kernel and the peers do: a completion is queued for the client whose
\* socket it happened on.
LEMMA WorldSafe ==
    ASSUME Typed, Belonging, UNCHANGED serverVars,
           \/ PeerConnects \/ AcceptFails \/ AbortCompletes
           \/ \E h \in Handles : Environment(h) \/ Completion(h)
    PROVE  Belonging'
<1>1. UNCHANGED <<open, acceptSocket, assoc, symKeys, clients>>
  BY DEF serverVars, PeerConnects, AcceptFails, AbortCompletes, Environment, Completion,
         PeerSends, PeerCloses, PeerResets, Deliver, DeliverEof, Transmit, SendCompletes
<1> SUFFICES /\ \A h \in Handles : peer'[h].key \in {peer[h].key, NoKey}
             /\ \A h \in Handles : Stranger(h) =>
                   reads'[h] \in {reads[h], <<>>} /\ writes'[h] \in {writes[h], <<>>}
             /\ \A i \in DOMAIN port' : Belongs(port'[i])
  BY <1>1, SocketsKept
<1> USE DEF Queued
<1>2. port \in Seq(Packet) /\ Queued(port)
  BY DEF Typed, TypeOK, SockTypeOK, Belonging
<1>3. CASE PeerConnects
  <2>1. NewPacket("accept", 0, 0) \in Packet /\ Belongs(NewPacket("accept", 0, 0))
    BY PacketsAreTyped DEF NewPacket, Belongs
  <2>2. \A i \in DOMAIN port' : Belongs(port'[i])
    BY <1>2, <1>3, <2>1, AppendBelongs DEF PeerConnects
  <2>3. QED  BY <1>3, <2>2 DEF PeerConnects, Connected, Nobody, Typed, TypeOK, SockTypeOK
<1>4. CASE AcceptFails \/ AbortCompletes
  <2>1. \A i \in DOMAIN port' : Belongs(port'[i])
    BY <1>2, <1>4, FailedBelongs DEF AcceptFails, AbortCompletes
  <2>2. QED  BY <1>4, <2>1 DEF AcceptFails, AbortCompletes
<1>5. ASSUME NEW h \in Handles, Environment(h)
      PROVE  /\ \A g \in Handles : peer'[g].key \in {peer[g].key, NoKey}
             /\ \A g \in Handles : Stranger(g) =>
                   reads'[g] \in {reads[g], <<>>} /\ writes'[g] \in {writes[g], <<>>}
             /\ \A i \in DOMAIN port' : Belongs(port'[i])
  <2>1. UNCHANGED port
    BY <1>5 DEF Environment, PeerSends, PeerCloses, PeerResets
  <2>2. \A g \in Handles : reads'[g] \in {reads[g], <<>>} /\ writes'[g] \in {writes[g], <<>>}
    BY <1>5 DEF Environment, PeerSends, PeerCloses, PeerResets, Typed, TypeOK, SockTypeOK
  <2>3. peer \in [Handles -> Peer]
    BY DEF Typed, TypeOK, SockTypeOK
  <2>4. \A g \in Handles : peer'[g].key \in {peer[g].key, NoKey}
    <3>1. ASSUME NEW m \in Messages, PeerSends(h, m)
          PROVE  \A g \in Handles : peer'[g].key = peer[g].key
      <4>1. \A p \in Peer :
              [p EXCEPT !.st = "sending", !.msg = m, !.next = 0, !.got = 0].key = p.key
        BY DEF Peer
      <4>2. peer' = [peer EXCEPT ![h] = [peer[h] EXCEPT !.st = "sending", !.msg = m,
                                                         !.next = 0, !.got = 0]]
        BY <3>1, Zenon DEF PeerSends
      <4>3. QED  BY <2>3, <4>1, <4>2
    <3>2. CASE PeerCloses(h) \/ PeerResets(h)
      <4>1. peer[h].key \in Handles \cup {NoKey}
        BY <2>3 DEF Peer
      <4>2. \A st : [Nobody EXCEPT !.st = st, !.key = peer[h].key].key = peer[h].key
        BY DEF Nobody
      <4>3. \E st : peer' = [peer EXCEPT ![h] = [Nobody EXCEPT !.st = st, !.key = peer[h].key]]
        BY <3>2, Zenon DEF PeerCloses, PeerResets
      <4>4. QED  BY <2>3, <4>2, <4>3
    <3>3. QED  BY <1>5, <3>1, <3>2 DEF Environment
  <2>5. QED  BY <1>2, <2>1, <2>2, <2>4
<1>6. ASSUME NEW h \in Handles, Completion(h)
      PROVE  /\ \A g \in Handles : peer'[g].key \in {peer[g].key, NoKey}
             /\ \A g \in Handles : Stranger(g) =>
                   reads'[g] \in {reads[g], <<>>} /\ writes'[g] \in {writes[g], <<>>}
             /\ \A i \in DOMAIN port' : Belongs(port'[i])
  <2>1. ~Stranger(h)
    <3>1. reads[h] # <<>> \/ writes[h] # <<>>
      <4>1. \A i \in DOMAIN writes[h] : writes[h] # <<>>
        OBVIOUS
      <4>2. CASE \E i \in DOMAIN writes[h] : \E n \in 1 .. writes[h][i].n : Transmit(h, i, n)
        BY <4>1, <4>2
      <4>3. QED  BY <1>6, <4>2 DEF Completion, Deliver, DeliverEof, SendCompletes
    <3>2. QED  BY <3>1 DEF Belonging, Unused
  <2>2. assoc[h] \in Keys /\ Occupied(assoc[h])
    BY <2>1, WinsockAssumption DEF Stranger, Belonging, Associated, Occupied
  <2>3. \A op \in {"recv", "send"}, n \in Nat : /\ NewPacket(op, assoc[h], n) \in Packet
                                               /\ Belongs(NewPacket(op, assoc[h], n))
    BY <2>2, PacketsAreTyped DEF NewPacket, Belongs
  <2>4. /\ UNCHANGED port \/ \E op \in {"recv", "send"}, n \in Nat :
              port' = Append(port, NewPacket(op, assoc[h], n))
        /\ \A g \in Handles : g # h => reads'[g] = reads[g] /\ writes'[g] = writes[g]
    <3>1. ASSUME NEW n \in 0 .. MAX_BUF_SIZE, Deliver(h, n)
          PROVE  /\ port' = Append(port, NewPacket("recv", assoc[h], n))
                 /\ \A g \in Handles : g # h => reads'[g] = reads[g] /\ writes'[g] = writes[g]
      BY <3>1 DEF Deliver, Typed, TypeOK, SockTypeOK
    <3>2. CASE DeliverEof(h)
      BY <3>2 DEF DeliverEof, Typed, TypeOK, SockTypeOK
    <3>3. ASSUME NEW i, NEW n, Transmit(h, i, n)
          PROVE  /\ UNCHANGED port
                 /\ \A g \in Handles : g # h => reads'[g] = reads[g] /\ writes'[g] = writes[g]
      BY <3>3 DEF Transmit, Typed, TypeOK, SockTypeOK
    <3>4. CASE SendCompletes(h)
      <4>1. Head(writes[h]).n \in Nat
        <5>1. writes[h] \in Seq(Write) /\ writes[h] # <<>>
          BY <3>4 DEF SendCompletes, Typed, TypeOK, SockTypeOK
        <5>2. Head(writes[h]) \in Write
          BY <5>1
        <5>3. QED  BY <5>2 DEF Write
      <4>2. QED  BY <3>4, <4>1 DEF SendCompletes, Typed, TypeOK, SockTypeOK
    <3>5. \A n \in 0 .. MAX_BUF_SIZE : n \in Nat
      BY WinsockAssumption
    <3>6. QED  BY <1>6, <3>1, <3>2, <3>3, <3>4, <3>5 DEF Completion
  <2>5. \A i \in DOMAIN port' : Belongs(port'[i])
    BY <1>2, <2>3, <2>4, AppendBelongs
  <2>6. \A g \in Handles : peer'[g].key = peer[g].key
    <3>1. peer \in [Handles -> Peer]
      BY DEF Typed, TypeOK, SockTypeOK
    <3>2. ASSUME NEW p \in Peer, NEW w, NEW n
          PROVE  Taken(p, n).key = p.key /\ Given(p, w, n).key = p.key
      BY DEF Taken, Given, Connected, Nobody, Peer
    <3>3. ASSUME NEW n \in 0 .. MAX_BUF_SIZE, Deliver(h, n)
          PROVE  \A g \in Handles : peer'[g].key = peer[g].key
      <4>1. peer' = [peer EXCEPT ![h] = Taken(peer[h], n)]
        BY <3>3, Zenon DEF Deliver
      <4>2. QED  BY <3>1, <3>2, <4>1
    <3>4. ASSUME NEW i, NEW n, Transmit(h, i, n)
          PROVE  \A g \in Handles : peer'[g].key = peer[g].key
      <4>1. peer' = [peer EXCEPT ![h] = Given(peer[h], writes[h][i], n)]
        BY <3>4, Zenon DEF Transmit
      <4>2. QED  BY <3>1, <3>2, <4>1
    <3>5. QED  BY <1>6, <3>3, <3>4 DEF Completion, DeliverEof, SendCompletes
  <2>7. QED  BY <2>1, <2>4, <2>5, <2>6
<1>7. QED  BY <1>3, <1>4, <1>5, <1>6

\* A connection is taken: the accept socket becomes the client's, with a key of
\* its own, and a socket nobody has is put up next.
LEMMA AdmitSafe ==
    ASSUME Typed, Belonging, NEW k \in Keys, Admit(k)
    PROVE  Belonging'
<1> DEFINE a == acceptSocket
<1>1. PICK s \in Handles \ open : /\ open' = open \cup {s}
                                  /\ acceptSocket' = s
  BY DEF Admit, ScheduleAccept
<1>2. /\ ~Occupied(k) /\ a \in open /\ a \in Handles
      /\ clients' = [clients EXCEPT ![k] = Slot(k)]
      /\ assoc' = [assoc EXCEPT ![a] = k]
      /\ symKeys' = [symKeys EXCEPT ![k] = a]
      /\ WSARecv(a, clients[k].recvBufSize)
      /\ UNCHANGED <<writes, port, peer>>
  BY OwnedSockets, Admitted DEF Admit, First, FreeKeys, Belonging
<1>3. /\ \A j \in Keys : clients'[j].socket = IF j = k THEN a ELSE clients[j].socket
      /\ \A j \in Keys : Occupied(j)' <=> j = k \/ Occupied(j)
  <2>1. Slot(k).socket = a
    BY SlotTyped, Admitted
  <2>2. a # INVALID_SOCKET
    BY <1>2, WinsockAssumption
  <2>3. QED  BY <1>2, <2>1, <2>2 DEF Occupied, Typed, TypeOK
<1>4. Stranger(a)
  BY DEF Belonging, Owned, Stranger
<1>5. Associated'
  BY <1>2, <1>3, <1>4 DEF Associated, Belonging, Stranger, Typed, TypeOK, SockTypeOK
<1>6. Owned'
  <2>1. {clients'[j].socket : j \in Keys \ FreeKeys'}
          = {a} \cup {clients[j].socket : j \in Keys \ FreeKeys}
    <3>1. Keys \ FreeKeys' = {k} \cup (Keys \ FreeKeys)
      BY <1>3 DEF FreeKeys
    <3>2. QED  BY <1>2, <1>3, <3>1 DEF FreeKeys
  <2>2. \A j \in Keys : Occupied(j)' => clients'[j].socket \in open
    BY <1>2, <1>3, OwnedSockets DEF Belonging
  <2>3. \A j \in Keys : clients'[j].socket # acceptSocket'
    <3>1. \A j \in Keys : ~Occupied(j)' => clients'[j].socket = INVALID_SOCKET
      BY DEF Occupied
    <3>2. QED  BY <1>1, <2>2, <3>1, WinsockAssumption
  <2>4. \A i, j \in Keys : Occupied(i)' /\ clients'[j].socket = clients'[i].socket => i = j
    BY <1>3, <1>4 DEF Belonging, Owned, Stranger
  <2>5. QED  BY <1>1, <2>1, <2>3, <2>4 DEF Owned, Belonging
<1>7. Keyed'
  <2>1. peer[a].key = NoKey
    BY <1>2, <1>4 DEF Belonging, Unused
  <2>2. QED  BY <1>2, <1>3, <2>1 DEF Keyed, Belonging, Typed, TypeOK
<1>8. Unused'
  <2>1. ASSUME NEW h \in Handles, Stranger(h)' PROVE Stranger(h) /\ h # a
    BY <1>2, <1>3, <2>1, WinsockAssumption DEF Stranger, Occupied
  <2>2. \A h \in Handles : h # a => reads'[h] = reads[h]
    BY <1>2 DEF WSARecv, Typed, TypeOK, SockTypeOK
  <2>3. QED  BY <1>2, <2>1, <2>2 DEF Unused, Belonging
<1>9. Queued(port)'
  BY <1>2, <1>3 DEF Belonging, Queued, Belongs
<1>10. QED  BY <1>5, <1>6, <1>7, <1>8, <1>9 DEF Belonging

\* A connection is turned away: its socket is closed, and no client notices.
LEMMA RefuseSafe ==
    ASSUME Typed, Belonging, Refuse,
           \A k \in Keys : clients'[k].socket = clients[k].socket
    PROVE  Belonging'
<1> DEFINE a == acceptSocket
<1>1. PICK s \in Handles \ (open \ {a}) : /\ open' = (open \ {a}) \cup {s}
                                          /\ acceptSocket' = s
  BY DEF Refuse, ScheduleAccept
<1>2. /\ peer' = [peer EXCEPT ![a] = Nobody]
      /\ UNCHANGED <<assoc, reads, writes, port, symKeys>>
  BY DEF Refuse
<1>3. /\ \A k \in Keys : Occupied(k)' <=> Occupied(k)
      /\ \A h \in Handles : Stranger(h)' <=> Stranger(h)
      /\ FreeKeys' = FreeKeys
  BY DEF Occupied, Stranger, FreeKeys
<1>4. Stranger(a) /\ Nobody.key = NoKey
  BY DEF Belonging, Owned, Stranger, Nobody
<1>5. Associated'
  BY <1>2, <1>3 DEF Associated, Belonging
<1>6. Owned'
  <2>1. {clients'[k].socket : k \in Keys \ FreeKeys'} = {clients[k].socket : k \in Keys \ FreeKeys}
    BY <1>3
  <2>2. \A k \in Keys : clients[k].socket # s
    BY <1>1, OwnedSockets, WinsockAssumption DEF Belonging, Owned, Occupied
  <2>3. {clients[k].socket : k \in Keys \ FreeKeys} = open \ {a}
    BY <1>4 DEF Belonging, Owned, Stranger
  <2>4. QED  BY <1>1, <1>3, <2>1, <2>2, <2>3 DEF Owned, Belonging
<1>7. Keyed'
  <2> SUFFICES ASSUME NEW k \in Keys, Occupied(k)
               PROVE  /\ symKeys[k] = clients[k].socket
                      /\ peer'[clients[k].socket].key \in {NoKey, symKeys[k]}
    BY <1>2, <1>3 DEF Keyed
  <2>1. clients[k].socket \in Handles /\ clients[k].socket # a
    BY <1>4, OwnedSockets DEF Belonging, Stranger
  <2>2. QED  BY <1>2, <2>1 DEF Belonging, Keyed, Typed, TypeOK, SockTypeOK
<1>8. Unused'
  BY <1>2, <1>3, <1>4 DEF Unused, Belonging, Typed, TypeOK, SockTypeOK
<1>9. Queued(port)'
  BY <1>2, <1>3 DEF Belonging, Queued, Belongs
<1>10. QED  BY <1>5, <1>6, <1>7, <1>8, <1>9 DEF Belonging

\* A slot is freed: its socket is closed, and its packets are marked.
LEMMA CancelledSafe ==
    ASSUME Typed, Belonging, Cancelled
    PROVE  Belonging'
<1> DEFINE k == Head(port).key
           s == clients[k].socket
<1>1. port # <<>> /\ port \in Seq(Packet) /\ k \in Keys
  <2>1. Gets("cancel")
    BY DEF Cancelled
  <2>2. QED  BY <2>1, HeadOfPort DEF Gets, Typed, TypeOK, SockTypeOK
<1>2. UNCHANGED <<acceptSocket, symKeys>>
  BY Zenon DEF Cancelled
<1>3. CASE s = INVALID_SOCKET
  <2>1. /\ port' = Tail(port)
        /\ UNCHANGED <<open, assoc, reads, writes, peer, clients>>
    BY <1>3, Zenon DEF Cancelled
  <2>2. \A i \in DOMAIN port' : Belongs(port'[i])
    BY <1>1, <2>1, TailBelongs DEF Belonging, Queued
  <2>3. QED  BY <1>2, <2>1, <2>2, SocketsKept
<1>4. CASE s # INVALID_SOCKET
  <2>1. s \in open /\ s \in Handles /\ Occupied(k)
    BY <1>1, <1>4, OwnedSockets DEF Belonging, Occupied
  <2>2. /\ Close(s)
        /\ clients' = [clients EXCEPT ![k] = FreeClient]
        /\ port' = [i \in 1 .. Len(port) - 1 |->
                     [port[i + 1] EXCEPT !.stale = @ \/ port[i + 1].key = k]]
    BY <1>4, <2>1, Zenon DEF Cancelled, closesocket
  <2>3. /\ open' = open \ {s}
        /\ assoc' = [assoc EXCEPT ![s] = 0]
        /\ peer' = [peer EXCEPT ![s] = Nobody]
        /\ reads' = [reads EXCEPT ![s] = <<>>]
        /\ writes' = [writes EXCEPT ![s] = <<>>]
    BY <2>2 DEF Close
  <2>4. /\ \A j \in Keys : j # k => clients'[j].socket = clients[j].socket
        /\ clients'[k].socket = INVALID_SOCKET
        /\ \A j \in Keys : Occupied(j)' <=> Occupied(j) /\ j # k
        /\ \A j \in Keys : j # k => clients[j].socket # s
    BY <1>1, <2>1, <2>2 DEF FreeClient, Occupied, Typed, TypeOK, Belonging, Owned
  <2>5. Associated'
    <3> SUFFICES ASSUME NEW j \in Keys, Occupied(j), j # k
                 PROVE  assoc'[clients[j].socket] = j
      BY <2>4 DEF Associated
    <3>1. clients[j].socket \in Handles /\ assoc[clients[j].socket] = j
      BY OwnedSockets DEF Belonging, Associated
    <3>2. QED  BY <2>3, <2>4, <3>1 DEF Typed, TypeOK, SockTypeOK
  <2>6. Owned'
    <3>1. Keys \ FreeKeys' = (Keys \ FreeKeys) \ {k}
      BY <2>4 DEF FreeKeys
    <3>2. {clients'[j].socket : j \in Keys \ FreeKeys'}
            = {clients[j].socket : j \in Keys \ FreeKeys} \ {s}
      BY <2>4, <3>1
    <3>3. acceptSocket # s
      BY <1>1 DEF Belonging, Owned
    <3>4. acceptSocket # INVALID_SOCKET
      BY WinsockAssumption DEF Typed, TypeOK
    <3>5. open' = {acceptSocket'} \cup {clients'[j].socket : j \in Keys \ FreeKeys'}
      BY <1>2, <2>3, <3>2, <3>3 DEF Owned, Belonging
    <3>6. \A i, j \in Keys : Occupied(i)' /\ clients'[i].socket = clients'[j].socket => i = j
      <4>1. \A i \in Keys : Occupied(i)' => i # k /\ clients'[i].socket # INVALID_SOCKET
        BY <2>4 DEF Occupied
      <4>2. QED  BY <2>4, <4>1 DEF Owned, Belonging
    <3>7. \A j \in Keys : clients'[j].socket # acceptSocket'
      BY <1>2, <2>4, <3>4 DEF Owned, Belonging
    <3>8. QED  BY <3>5, <3>6, <3>7 DEF Owned
  <2>7. Keyed'
    BY <1>2, <2>3, <2>4, OwnedSockets DEF Keyed, Belonging, Typed, TypeOK, SockTypeOK
  <2>8. Unused'
    <3>1. ASSUME NEW h \in Handles, Stranger(h)' PROVE Stranger(h) \/ h = s
      BY <2>4, <3>1 DEF Stranger
    <3>2. QED  BY <2>3, <3>1 DEF Unused, Belonging, Nobody, Typed, TypeOK, SockTypeOK
  <2>9. Queued(port)'
    <3>1. Len(port) \in Nat /\ DOMAIN port = 1 .. Len(port)
      BY <1>1
    <3>2. ASSUME NEW i \in DOMAIN port'
          PROVE  Belongs(port[i])'
      <4>1. i + 1 \in DOMAIN port /\ port[i + 1] \in Packet /\ Belongs(port[i + 1])
        BY <1>1, <2>2, <3>1 DEF Belonging, Queued
      <4>2. port'[i] = [port[i + 1] EXCEPT !.stale = @ \/ port[i + 1].key = k]
        BY <2>2
      <4>3. /\ port'[i].op = port[i + 1].op /\ port'[i].key = port[i + 1].key
            /\ ~port'[i].stale => ~port[i + 1].stale /\ port[i + 1].key # k
        BY <4>1, <4>2 DEF Packet
      <4>4. QED  BY <2>4, <4>1, <4>3 DEF Belongs
    <3>3. QED  BY <3>2 DEF Queued
  <2>10. QED  BY <2>5, <2>6, <2>7, <2>8, <2>9 DEF Belonging
<1>5. QED  BY <1>3, <1>4

\* Start: every slot is free and the accept socket is the only one open.
LEMMA InitSafe == Init => Safe
<1> SUFFICES ASSUME Init PROVE Safe
  OBVIOUS
<1>1. \A k \in Keys : ~Occupied(k) /\ clients[k].socket = INVALID_SOCKET
  BY DEF Init, Occupied, FreeClient
<1>2. Associated /\ Keyed /\ Unused /\ Queued(port)
  BY <1>1 DEF Init, SockInit, Associated, Keyed, Unused, Queued, Nobody
<1>3. Owned
  <2>1. Keys \ FreeKeys = {}
    BY <1>1 DEF FreeKeys
  <2>2. acceptSocket # INVALID_SOCKET /\ open = {acceptSocket}
    BY WinsockAssumption DEF Init
  <2>3. QED  BY <1>1, <2>1, <2>2 DEF Owned
<1>4. QED  BY <1>2, <1>3, InitTyped DEF Safe, Belonging

\* Nothing but a failed association counts as one.
LEMMA LeakKept ==
    ASSUME [Next]_vars
    PROVE  UNCHANGED leaked \/ \E k \in Keys : RefuseNotAssociated(k)
<1>1. UNCHANGED serverVars \/ UNCHANGED vars => UNCHANGED leaked
  BY DEF serverVars, vars
<1>2. Tick \/ WaitTimedOut \/ OperationFailed \/ AcceptCompleted \/ RefuseFull
      \/ RefuseNoAddress \/ ReceiveEnd \/ Cancelled
      \/ (\E k \in Keys : ScheduleDisconnect(k) \/ Admit(k)) => UNCHANGED leaked
  BY Zenon DEF Tick, WaitTimedOut, OperationFailed, AcceptCompleted, RefuseFull,
               RefuseNoAddress, ReceiveEnd, Cancelled, ScheduleDisconnect, Admit
<1>3. ReceivePartial \/ ReceiveKeyRequest \/ ReceiveRequest \/ ReceiveUnknown
      \/ SendPartial \/ SendDone => UNCHANGED leaked
  BY Zenon DEF ReceivePartial, ReceiveKeyRequest, ReceiveRequest, ReceiveUnknown,
               SendPartial, SendDone, Receive, Send
<1>4. QED
  <2>1. CASE Thread
    BY <1>2, <1>3, <2>1, Zenon DEF Thread
  <2>2. CASE ~Thread
    <3>1. Tick \/ UNCHANGED serverVars \/ UNCHANGED vars
      BY <2>2, Zenon DEF Next
    <3>2. QED  BY <1>1, <1>2, <3>1
  <2>3. QED  BY <2>1, <2>2

\* A failed association is never forgotten.
LEMMA LeakRemembered ==
    ASSUME [Next]_vars
    PROVE  /\ NoLeak' => NoLeak
           /\ (\E k \in Keys : RefuseNotAssociated(k)) => ~NoLeak'
<1>1. ASSUME NEW k \in Keys, RefuseNotAssociated(k) PROVE ~NoLeak'
  <2>1. leaked' = TRUE
    BY <1>1 DEF RefuseNotAssociated
  <2>2. QED  BY <2>1 DEF NoLeak
<1>2. UNCHANGED leaked => (NoLeak' => NoLeak)
  BY DEF NoLeak
<1>3. QED  BY <1>1, <1>2, LeakKept

\* Every step keeps the invariant.
LEMMA NextSafe ==
    ASSUME Safe, [Next]_vars
    PROVE  Safe'
<1>1. Typed'
  BY NextTyped DEF Safe
<1> SUFFICES ASSUME NoLeak' PROVE Belonging'
  BY <1>1 DEF Safe
<1>2. Typed /\ Belonging
  BY LeakRemembered DEF Safe
<1>3. CASE Thread
  <2>1. CASE WaitTimedOut \/ OperationFailed \/ AcceptCompleted
    BY <1>2, <2>1, TimeoutCheckSafe
  <2>2. ASSUME NEW k \in Keys, ScheduleDisconnect(k) \/ Admit(k)
        PROVE  Belonging'
    BY <1>2, <2>2, ScheduleDisconnectSafe, AdmitSafe
  <2>3. ASSUME NEW k \in Keys, RefuseNotAssociated(k)
        PROVE  Belonging'
    BY <2>3, LeakRemembered
  <2>4. CASE RefuseFull \/ RefuseNoAddress
    <3>1. \A k \in Keys : clients'[k].socket = clients[k].socket
      <4>1. \A c \in Client : \A i, n : [c EXCEPT !.id = i, !.age = n].socket = c.socket
        BY DEF Client
      <4>2. CASE RefuseFull
        BY <4>2 DEF RefuseFull
      <4>3. CASE RefuseNoAddress
        <5>1. clients' = [k \in Keys |->
                IF Occupied(k) THEN clients[k]
                ELSE [clients[k] EXCEPT !.id = Number(k), !.age = 0]]
          BY <4>3, Zenon DEF RefuseNoAddress
        <5>2. clients \in [Keys -> Client]
          BY <1>2 DEF Typed, TypeOK
        <5>3. ASSUME NEW k \in Keys PROVE clients'[k].socket = clients[k].socket
          <6>1. CASE Occupied(k)
            BY <5>1, <6>1
          <6>2. CASE ~Occupied(k)
            <7>1. clients'[k] = [clients[k] EXCEPT !.id = Number(k), !.age = 0]
              BY <5>1, <6>2, Zenon
            <7>2. QED  BY <4>1, <5>2, <7>1
          <6>3. QED  BY <6>1, <6>2
        <5>4. QED  BY <5>3
      <4>4. QED  BY <2>4, <4>2, <4>3
    <3>2. Refuse
      BY <2>4 DEF RefuseFull, RefuseNoAddress
    <3>3. QED  BY <1>2, <3>1, <3>2, RefuseSafe
  <2>5. CASE \/ ReceiveEnd \/ ReceivePartial \/ ReceiveKeyRequest \/ ReceiveRequest
             \/ ReceiveUnknown
    BY <1>2, <2>5, ReceiveEndSafe, ReceiveSafe
  <2>6. CASE SendPartial \/ SendDone \/ Cancelled
    BY <1>2, <2>6, SendSafe, CancelledSafe
  <2>7. QED  BY <1>3, <2>1, <2>2, <2>3, <2>4, <2>5, <2>6 DEF Thread
<1>4. CASE Tick
  BY <1>2, <1>4, TickSafe
<1>5. CASE (PeerConnects \/ AcceptFails \/ AbortCompletes) /\ UNCHANGED serverVars
  BY <1>2, <1>5, WorldSafe
<1>6. ASSUME NEW h \in Handles, (Environment(h) \/ Completion(h)) /\ UNCHANGED serverVars
      PROVE  Belonging'
  BY <1>2, <1>6, WorldSafe
<1>7. CASE UNCHANGED vars
  <2>1. UNCHANGED <<open, acceptSocket, assoc, symKeys, clients, peer, reads, writes, port>>
    BY <1>7 DEF vars, serverVars, sockVars
  <2>2. QED  BY <1>2, <2>1, SocketsKept DEF Belonging, Queued
<1>8. QED  BY <1>3, <1>4, <1>5, <1>6, <1>7 DEF Next

\* The invariant holds in every state the server reaches.
THEOREM AlwaysSafe == Spec => []Safe
  BY InitSafe, NextSafe, PTL DEF Spec

\* A client is served under the number of its slot, and its socket completes with
\* that number, whatever was refused or freed before.
THEOREM SlotsIdentified == Spec => []SlotIdentity
<1>1. Safe => SlotIdentity
  BY DEF Safe, Typed, Numbered, Belonging, Associated, SlotIdentity
<1>2. QED  BY <1>1, AlwaysSafe, PTL

\* closesocket is never called twice for a connection, nor never.
THEOREM SocketsAreOwned == Spec => []SocketsOwned
<1>1. Safe => SocketsOwned
  BY DEF Safe, Belonging, Owned, SocketsOwned
<1>2. QED  BY <1>1, AlwaysSafe, PTL

\* No peer is ever given the key of another: not even that of the client that had
\* its slot, or its socket handle, before.
THEOREM KeysAgree == Spec => []KeyAgreement
<1>1. Safe => KeyAgreement
  BY DEF Safe, Belonging, Keyed, KeyAgreement
<1>2. QED  BY <1>1, AlwaysSafe, PTL

\* No I/O outlives the socket it was started on, and every packet that is not
\* marked as a leftover is about a client that is still there.
THEOREM IoIsOwned == Spec => []IoBelongs
<1>1. Safe => IoBelongs
  BY DEF Safe, Belonging, Unused, Stranger, Queued, Belongs, IoBelongs
<1>2. QED  BY <1>1, AlwaysSafe, PTL
=============================================================================
