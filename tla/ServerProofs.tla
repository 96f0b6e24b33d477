---------------------------- MODULE ServerProofs ----------------------------
(***************************************************************************)
(* Theorems about the server's event loop, for every number of slots,      *)
(* buffer size, timeout, set of messages and set of faults.                *)
(***************************************************************************)
EXTENDS Server, SequenceTheorems, FiniteSetTheorems, TLAPS

\* The packets the server and the kernel queue are packets.
LEMMA PacketsAreTyped ==
    /\ NewPacket("accept", 0, 0) \in Packet
    /\ \A op \in {"recv", "send", "cancel"}, k \in Keys, n \in Nat :
          NewPacket(op, k, n) \in Packet
    /\ \A n \in Nat : FailedPackets(n) \in Seq(Packet)
<1>1. NewPacket("accept", 0, 0) \in Packet
  BY DEF NewPacket, Packet
<1>2. \A op \in {"recv", "send", "cancel"}, k \in Keys, n \in Nat :
          NewPacket(op, k, n) \in Packet
  BY DEF NewPacket, Packet
<1>3. ASSUME NEW n \in Nat PROVE FailedPackets(n) \in Seq(Packet)
  <2>1. NewPacket("failed", 0, 0) \in Packet
    BY DEF NewPacket, Packet
  <2>2. QED  BY <2>1 DEF FailedPackets
<1>4. QED  BY <1>1, <1>2, <1>3

\* Peers are typed in each state a peer can be put into.
LEMMA PeersAreTyped ==
    /\ Nobody \in Peer /\ Connected \in Peer /\ Zeroed \in Buffer
    /\ \A st \in PeerStates, key \in Handles \cup {NoKey} :
          [Nobody EXCEPT !.st = st, !.key = key] \in Peer
  BY DEF Nobody, Connected, Zeroed, Peer, PeerStates, Buffer

\* The number of operations in flight on a socket is a number.
LEMMA InFlightType ==
    ASSUME SockTypeOK, NEW h \in Handles
    PROVE  InFlight(h) \in Nat
  BY DEF InFlight, SockTypeOK

\* WSARecv and WSASend.
LEMMA WSARecvType ==
    ASSUME SockTypeOK, NEW h, NEW at \in Nat, WSARecv(h, at)
    PROVE  reads' \in [Handles -> Seq(Nat)]
<1>1. CASE Usable(h)
  <2>1. h \in Handles
    BY <1>1 DEF Usable, SockTypeOK
  <2>2. Append(reads[h], at) \in Seq(Nat)
    BY <2>1 DEF SockTypeOK
  <2>3. QED  BY <1>1, <2>1, <2>2 DEF WSARecv, SockTypeOK
<1>2. CASE ~Usable(h)
  BY <1>2 DEF WSARecv, SockTypeOK
<1>3. QED  BY <1>1, <1>2

\* A write is queued as a write.
LEMMA WSASendType ==
    ASSUME SockTypeOK, NEW h, NEW n \in Nat, NEW first \in BOOLEAN,
           WSASend(h, n, first)
    PROVE  writes' \in [Handles -> Seq(Write)]
<1>1. CASE Usable(h)
  <2>1. h \in Handles
    BY <1>1 DEF Usable, SockTypeOK
  <2>2. [n |-> n, first |-> first, sent |-> FALSE] \in Write
    BY DEF Write
  <2>3. Append(writes[h], [n |-> n, first |-> first, sent |-> FALSE]) \in Seq(Write)
    BY <2>1, <2>2 DEF SockTypeOK
  <2>4. QED  BY <1>1, <2>1, <2>3 DEF WSASend, SockTypeOK
<1>2. CASE ~Usable(h)
  BY <1>2 DEF WSASend, SockTypeOK
<1>3. QED  BY <1>1, <1>2

\* CancelIo followed by PostQueuedCompletionStatus.
LEMMA CancelIoType ==
    ASSUME SockTypeOK, NEW h, NEW q \in Seq(Packet), NEW more \in Seq(Packet),
           CancelIo(h, q, more)
    PROVE  /\ port' \in Seq(Packet)
           /\ aborted' \in Nat
           /\ reads' \in [Handles -> Seq(Nat)]
           /\ writes' \in [Handles -> Seq(Write)]
<1>1. CASE h \in open
  <2>1. h \in Handles /\ InFlight(h) \in Nat
    BY <1>1, InFlightType DEF SockTypeOK
  <2>2. PICK n \in 0 .. InFlight(h) : /\ port' = q \o FailedPackets(n) \o more
                                      /\ aborted' = aborted + InFlight(h) - n
    BY <1>1 DEF CancelIo
  <2>3. FailedPackets(n) \in Seq(Packet)
    BY <2>1, PacketsAreTyped
  <2>4. port' \in Seq(Packet)
    BY <2>2, <2>3
  <2>5. aborted' \in Nat
    BY <2>1, <2>2 DEF SockTypeOK
  <2>6. reads' = [reads EXCEPT ![h] = <<>>] /\ writes' = [writes EXCEPT ![h] = <<>>]
    BY <1>1 DEF CancelIo
  <2>7. <<>> \in Seq(Nat) /\ <<>> \in Seq(Write)
    OBVIOUS
  <2>8. QED  BY <2>4, <2>5, <2>6, <2>7 DEF SockTypeOK
<1>2. CASE h \notin open
  <2>1. port' = q \o more /\ aborted' = aborted /\ reads' = reads /\ writes' = writes
    BY <1>2 DEF CancelIo
  <2>2. q \o more \in Seq(Packet)
    OBVIOUS
  <2>3. QED  BY <2>1, <2>2 DEF SockTypeOK
<1>3. QED  BY <1>1, <1>2

\* closesocket preserves the types.
LEMMA closesocketType ==
    ASSUME SockTypeOK, NEW h, closesocket(h)
    PROVE  /\ open' \in SUBSET Handles
           /\ assoc' \in [Handles -> 0 .. MAX_CLIENTS]
           /\ accepting' \in Handles \cup {INVALID_SOCKET} /\ deaf' \in BOOLEAN
           /\ peer' \in [Handles -> Peer]
           /\ aborted' \in Nat
           /\ reads' \in [Handles -> Seq(Nat)]
           /\ writes' \in [Handles -> Seq(Write)]
<1>1. CASE h \in open
  <2>1. h \in Handles /\ InFlight(h) \in Nat /\ Close(h)
    BY <1>1, InFlightType DEF SockTypeOK, closesocket
  <2>2. <<>> \in Seq(Nat) /\ <<>> \in Seq(Write) /\ 0 \in 0 .. MAX_CLIENTS
    BY WinsockAssumption
  <2>3. AbortedByClose(h) \in Nat
    BY <2>1 DEF AbortedByClose
  <2>4. aborted' \in Nat
    BY <2>1, <2>3 DEF Close, SockTypeOK
  <2>5. /\ open' \in SUBSET Handles /\ accepting' \in Handles \cup {INVALID_SOCKET}
        /\ deaf' \in BOOLEAN
    BY <2>1 DEF Close, SockTypeOK
  <2>6. assoc' \in [Handles -> 0 .. MAX_CLIENTS] /\ peer' \in [Handles -> Peer]
    BY <2>1, <2>2, PeersAreTyped DEF Close, SockTypeOK
  <2>7. reads' \in [Handles -> Seq(Nat)] /\ writes' \in [Handles -> Seq(Write)]
    BY <2>1, <2>2 DEF Close, SockTypeOK
  <2>8. QED  BY <2>4, <2>5, <2>6, <2>7
<1>2. CASE h \notin open
  BY <1>2 DEF closesocket, SockTypeOK
<1>3. QED  BY <1>1, <1>2

\* The packet of a completed operation goes to the end of the port.
LEMMA QueueType ==
    ASSUME SockTypeOK, NEW p \in Packet
    PROVE  Append(port, p) \in Seq(Packet)
  BY DEF SockTypeOK

\* What a peer does by itself preserves the types.
LEMMA PeersKeepTypes ==
    ASSUME SockTypeOK, NEW h \in Handles,
           \/ PeerConnects
           \/ \E m \in Messages : PeerSends(h, m)
           \/ PeerCloses(h)
           \/ PeerResets(h)
    PROVE  SockTypeOK'
<1>1. CASE PeerConnects
  <2>1. Append(port, NewPacket("accept", 0, 0)) \in Seq(Packet)
    BY QueueType, PacketsAreTyped
  <2>2. QED  BY <1>1, <2>1, PeersAreTyped DEF PeerConnects, SockTypeOK
<1>2. ASSUME NEW m \in Messages, PeerSends(h, m)
      PROVE  SockTypeOK'
  <2>1. [peer[h] EXCEPT !.st = "sending", !.msg = m, !.next = 0, !.got = 0] \in Peer
    BY DEF SockTypeOK, Peer, PeerStates
  <2>2. peer' \in [Handles -> Peer]
    BY <1>2, <2>1 DEF PeerSends, SockTypeOK
  <2>3. QED  BY <1>2, <2>2 DEF PeerSends, SockTypeOK
<1>3. CASE PeerCloses(h)
  <2>1. peer[h].key \in Handles \cup {NoKey}
    BY DEF SockTypeOK, Peer
  <2>2. [Nobody EXCEPT !.st = "fin", !.key = peer[h].key] \in Peer
    BY <2>1, PeersAreTyped DEF PeerStates
  <2>3. QED  BY <1>3, <2>2 DEF PeerCloses, SockTypeOK
<1>4. CASE PeerResets(h)
  <2>1. peer[h].key \in Handles \cup {NoKey}
    BY DEF SockTypeOK, Peer
  <2>2. [Nobody EXCEPT !.st = "reset", !.key = peer[h].key] \in Peer
    BY <2>1, PeersAreTyped DEF PeerStates
  <2>3. aborted' \in Nat
    BY <1>4, InFlightType DEF PeerResets, SockTypeOK
  <2>4. <<>> \in Seq(Nat) /\ <<>> \in Seq(Write)
    OBVIOUS
  <2>5. QED  BY <1>4, <2>2, <2>3, <2>4 DEF PeerResets, SockTypeOK
<1>5. QED  BY <1>1, <1>2, <1>3, <1>4

\* What Deliver leaves in a buffer is again a buffer.
LEMMA WrittenType ==
    ASSUME NEW b \in Buffer, NEW at \in Nat, NEW m \in Messages \cup {NoMessage},
           NEW next \in Nat, NEW n \in Nat
    PROVE  Written(b, at, m, next, n) \in Buffer
<1>1. [head |-> m, fill |-> n] \in Buffer /\ Zeroed \in Buffer
  BY PeersAreTyped DEF Buffer
<1>2. \A x \in Nat : [b EXCEPT !.fill = x] \in Buffer
  BY DEF Buffer
<1>3. [b EXCEPT !.fill = IF at < @ THEN at ELSE @] \in Buffer
  BY DEF Buffer
<1>4. QED  BY <1>1, <1>2, <1>3 DEF Written

\* Each completion of the kernel, the failed ones included.
LEMMA DeliverType ==
    ASSUME SockTypeOK, NEW h \in Handles, NEW n \in 0 .. MAX_BUF_SIZE, Deliver(h, n)
    PROVE  SockTypeOK'
<1> DEFINE at == Head(reads[h])
           p  == peer[h]
           k  == assoc[h]
<1>1. /\ k \in Keys /\ n \in Nat
      /\ reads[h] # <<>> /\ reads[h] \in Seq(Nat)
  BY WinsockAssumption DEF Deliver, SockTypeOK
<1>2. at \in Nat /\ Tail(reads[h]) \in Seq(Nat)
  BY <1>1
<1>3. /\ p \in Peer /\ p.msg \in Messages \cup {NoMessage} /\ p.next \in Nat
      /\ recvBuf[k] \in Buffer
  BY <1>1 DEF SockTypeOK, Peer
<1>4. peer' \in [Handles -> Peer]
  <2>1. Taken(p, n) \in Peer
    <3>1. /\ p.next + n \in Nat /\ p.st \in PeerStates
          /\ "waiting" \in PeerStates /\ "garbled" \in PeerStates
      BY <1>1, <1>3 DEF Peer, PeerStates
    <3>2. \A x \in Nat, st \in PeerStates : [p EXCEPT !.next = x, !.st = st] \in Peer
      BY <1>3 DEF Peer
    <3>3. QED  BY <3>1, <3>2 DEF Taken
  <2>2. peer' = [peer EXCEPT ![h] = Taken(p, n)]
    BY Zenon DEF Deliver
  <2>3. QED  BY <2>1, <2>2 DEF SockTypeOK
<1>5. recvBuf' \in [Keys -> Buffer]
  <2>1. Written(recvBuf[k], at, p.msg, p.next, n) \in Buffer
    BY <1>1, <1>2, <1>3, WrittenType
  <2>2. recvBuf' = IF n = 0 THEN recvBuf
                   ELSE [recvBuf EXCEPT ![k] = Written(@, at, p.msg, p.next, n)]
    BY DEF Deliver
  <2>3. QED  BY <2>1, <2>2 DEF SockTypeOK
<1>6. port' \in Seq(Packet)
  BY <1>1, QueueType, PacketsAreTyped DEF Deliver
<1>7. reads' \in [Handles -> Seq(Nat)]
  BY <1>2 DEF Deliver, SockTypeOK
<1>8. UNCHANGED <<open, assoc, accepting, deaf, writes, aborted>>
  BY DEF Deliver
<1>9. QED  BY <1>4, <1>5, <1>6, <1>7, <1>8 DEF SockTypeOK

\* The end of a stream is queued as a packet of a client.
LEMMA DeliverEofType ==
    ASSUME SockTypeOK, NEW h \in Handles, DeliverEof(h)
    PROVE  SockTypeOK'
<1>1. assoc[h] \in Keys /\ reads[h] # <<>> /\ reads[h] \in Seq(Nat)
  BY DEF DeliverEof, SockTypeOK
<1>2. Tail(reads[h]) \in Seq(Nat)
  BY <1>1
<1>3. port' \in Seq(Packet)
  BY <1>1, QueueType, PacketsAreTyped DEF DeliverEof
<1>4. QED  BY <1>2, <1>3 DEF DeliverEof, SockTypeOK

\* Bytes that reach a peer leave it in one of its states.
LEMMA TransmitType ==
    ASSUME SockTypeOK, NEW h \in Handles, NEW i, NEW n, Transmit(h, i, n)
    PROVE  SockTypeOK'
<1> DEFINE p == peer[h]
<1>1. /\ writes[h] \in Seq(Write) /\ i \in 1 .. Len(writes[h])
      /\ n \in 1 .. writes[h][i].n
  BY DEF Transmit, SockTypeOK
<1>2. writes[h][i] \in Write
  BY <1>1, ElementOfSeq
<1> DEFINE w == [writes[h][i] EXCEPT !.n = n, !.sent = TRUE]
<1>3. n \in Nat /\ w \in Write
  <2>1. n \in Nat
    BY <1>1, <1>2 DEF Write
  <2>2. \A v \in Write, x \in Nat : [v EXCEPT !.n = x, !.sent = TRUE] \in Write
    BY DEF Write
  <2>3. QED  BY <1>2, <2>1, <2>2
<1>4. writes' \in [Handles -> Seq(Write)]
  <2>1. [writes[h] EXCEPT ![i] = w] \in Seq(Write)
    BY <1>1, <1>3, ExceptSeq
  <2>2. writes' = [writes EXCEPT ![h] = [writes[h] EXCEPT ![i] = w]]
    BY Zenon DEF Transmit
  <2>3. QED  BY <2>1, <2>2 DEF SockTypeOK
<1>5. peer' \in [Handles -> Peer]
  <2>1. p \in Peer
    BY DEF SockTypeOK
  <2>2. p.got \in Nat /\ p.key \in Handles \cup {NoKey}
    BY <2>1 DEF Peer
  <2>3. /\ [p EXCEPT !.got = p.got + n] \in Peer /\ [p EXCEPT !.st = "garbled"] \in Peer
        /\ [p EXCEPT !.junk = TRUE] \in Peer
    <3>1. p.got + n \in Nat
      BY <1>3, <2>2
    <3>2. \A x \in Nat : [p EXCEPT !.got = x] \in Peer
      BY <2>1 DEF Peer
    <3>3. \A st \in PeerStates : [p EXCEPT !.st = st] \in Peer
      BY <2>1 DEF Peer
    <3>4. \A b \in BOOLEAN : [p EXCEPT !.junk = b] \in Peer
      BY <2>1 DEF Peer
    <3>5. QED  BY <3>1, <3>2, <3>3, <3>4 DEF PeerStates
  <2>4. [Connected EXCEPT !.key = p.key] \in Peer
    BY <2>2 DEF Connected, Nobody, Peer, PeerStates
  <2>5. Given(p, writes[h][i], n) \in Peer
    BY <2>1, <2>3, <2>4 DEF Given
  <2>6. QED  BY <2>5 DEF Transmit, SockTypeOK
<1>6. UNCHANGED <<open, assoc, accepting, deaf, reads, aborted, port, recvBuf>>
  BY DEF Transmit
<1>7. QED  BY <1>4, <1>5, <1>6 DEF SockTypeOK

\* A completed write is queued as a packet of a client.
LEMMA SendCompletesType ==
    ASSUME SockTypeOK, NEW h \in Handles, SendCompletes(h)
    PROVE  SockTypeOK'
<1>1. assoc[h] \in Keys /\ writes[h] # <<>> /\ writes[h] \in Seq(Write)
  BY DEF SendCompletes, SockTypeOK
<1>2. Tail(writes[h]) \in Seq(Write) /\ Head(writes[h]) \in Write
  BY <1>1
<1>3. Head(writes[h]).n \in Nat
  BY <1>2 DEF Write
<1>4. port' \in Seq(Packet)
  BY <1>1, <1>3, QueueType, PacketsAreTyped DEF SendCompletes
<1>5. QED  BY <1>2, <1>4 DEF SendCompletes, SockTypeOK

\* Failed operations preserve the types.
LEMMA FailuresKeepTypes ==
    ASSUME SockTypeOK, AcceptFails \/ AbortCompletes
    PROVE  SockTypeOK'
<1>1. port \o FailedPackets(1) \in Seq(Packet)
  BY PacketsAreTyped DEF SockTypeOK
<1>2. CASE AcceptFails
  BY <1>1, <1>2 DEF AcceptFails, SockTypeOK
<1>3. CASE AbortCompletes
  BY <1>1, <1>3 DEF AbortCompletes, SockTypeOK
<1>4. QED  BY <1>2, <1>3
-----------------------------------------------------------------------------

\* A client is kept under its own number.
Numbered == \A k \in Keys : Occupied(k) => clients[k].id = k

\* TypeOK alone is not inductive: a key request is answered with the key of the
\* id kept in the slot, and m_keys has one for the numbers of clients only.
Typed == TypeOK /\ Numbered

\* The numbers of clients start at 1, after the listening socket.
LEMMA KeysType == Keys \subseteq Nat \ {0} /\ Keys \subseteq 0 .. MAX_CLIENTS
  BY WinsockAssumption DEF Keys

\* Start: the types hold of a server with no client.
LEMMA InitTyped == Init => Typed
<1> SUFFICES ASSUME Init PROVE Typed
  OBVIOUS
<1> USE WinsockAssumption, ServerAssumption
<1>1. FreeClient \in Client
  BY DEF FreeClient, Client, Sockets
<1>2. SockTypeOK
  <2>1. <<>> \in Seq(Nat) /\ <<>> \in Seq(Write) /\ <<>> \in Seq(Packet)
    OBVIOUS
  <2>2. /\ assoc \in [Handles -> 0 .. MAX_CLIENTS] /\ aborted \in Nat
        /\ open \in SUBSET Handles /\ accepting \in Handles \cup {INVALID_SOCKET}
    BY DEF Init, SockInit
  <2>3. /\ reads \in [Handles -> Seq(Nat)] /\ writes \in [Handles -> Seq(Write)]
        /\ port \in Seq(Packet)
    BY <2>1 DEF Init, SockInit
  <2>4. peer \in [Handles -> Peer] /\ recvBuf \in [Keys -> Buffer]
    BY PeersAreTyped DEF Init, SockInit
  <2>5. deaf \in BOOLEAN
    BY Zenon DEF Init, SockInit
  <2>6. QED  BY <2>2, <2>3, <2>4, <2>5 DEF SockTypeOK
<1>3. TypeOK
  <2>1. late \in BOOLEAN
    BY Zenon DEF Init
  <2>2. /\ clients \in [Keys -> Client] /\ acceptSocket \in Handles
        /\ symKeys \in [Keys -> Handles \cup {NoKey}]
        /\ loop \in [todo: SUBSET Keys, admit: BOOLEAN]
        /\ quiet \in 0 .. TIMEOUT /\ hit \subseteq Keys
    BY <1>1 DEF Init, Idle
  <2>3. leaked \in BOOLEAN
    BY Zenon DEF Init
  <2>4. QED  BY <1>2, <2>1, <2>2, <2>3 DEF TypeOK
<1>4. Numbered
  BY DEF Init, Numbered, Occupied, FreeClient
<1>5. QED  BY <1>3, <1>4 DEF Typed

\* What the event loop knows of the packet it takes.
LEMMA HeadOfPort ==
    ASSUME Typed, NEW op \in {"accept", "failed", "recv", "send", "cancel"}, Gets(op)
    PROVE  /\ Head(port) \in Packet /\ Tail(port) \in Seq(Packet)
           /\ op \in {"recv", "send", "cancel"} =>
                /\ Head(port).key \in Keys
                /\ Head(port).n \in Nat
                /\ Head(port).stale \in BOOLEAN
                /\ clients[Head(port).key] \in Client
<1>1. port \in Seq(Packet) /\ port # <<>>
  BY DEF Typed, TypeOK, SockTypeOK, Gets
<1>2. Head(port) \in Packet /\ Tail(port) \in Seq(Packet)
  BY <1>1
<1>3. op \in {"recv", "send", "cancel"} =>
        Head(port) \in [op: {"recv", "send", "cancel"}, key: Keys, n: Nat, stale: BOOLEAN]
  BY <1>2 DEF Gets, Packet
<1>4. QED  BY <1>2, <1>3 DEF Typed, TypeOK

\* The steps that only look for expired clients.
LEMMA TimeoutCheckTyped ==
    ASSUME Typed, WaitTimedOut \/ OperationFailed \/ AcceptCompleted
    PROVE  Typed'
<1> USE WinsockAssumption, ServerAssumption
<1> DEFINE ids == {clients[k].id : k \in Expired}
<1>1. \A b \in BOOLEAN : [todo |-> ids, admit |-> b] \in [todo: SUBSET Keys, admit: BOOLEAN]
  <2>1. ASSUME NEW k \in Expired PROVE clients[k].id \in Keys
    BY DEF Expired, Typed, TypeOK, Numbered
  <2>2. QED  BY <2>1
<1>2. CASE WaitTimedOut
  <2>1. UNCHANGED <<sockVars, clients, acceptSocket, symKeys, hit, late, leaked>> /\ quiet' = 0
    BY <1>2 DEF WaitTimedOut
  <2>2. loop' \in [todo: SUBSET Keys, admit: BOOLEAN]
    BY <1>1, <1>2 DEF WaitTimedOut, TimeoutCheck
  <2>3. QED  BY <2>1, <2>2 DEF Typed, TypeOK, SockTypeOK, Numbered, Occupied, sockVars
<1>3. ASSUME NEW op \in {"failed", "accept"}, Gets(op), TakePacket,
             NEW b \in BOOLEAN, TimeoutCheck(b),
             UNCHANGED <<open, assoc, accepting, deaf, reads, writes, aborted, peer, recvBuf,
                         clients, acceptSocket, symKeys, hit, late, leaked>>
      PROVE  Typed'
  <2>1. port' \in Seq(Packet) /\ quiet' = 0
    BY <1>3, HeadOfPort DEF TakePacket
  <2>2. loop' \in [todo: SUBSET Keys, admit: BOOLEAN]
    BY <1>1, <1>3 DEF TimeoutCheck
  <2>3. QED  BY <1>3, <2>1, <2>2 DEF Typed, TypeOK, SockTypeOK, Numbered, Occupied
<1>4. QED  BY <1>2, <1>3 DEF OperationFailed, AcceptCompleted

\* ScheduleDisconnect preserves the types.
LEMMA ScheduleDisconnectTyped ==
    ASSUME Typed, NEW k \in Keys, ScheduleDisconnect(k)
    PROVE  Typed'
<1> DEFINE s == clients[k].socket
           packet == <<NewPacket("cancel", k, 0)>>
<1>1. packet \in Seq(Packet) /\ port \in Seq(Packet)
  BY PacketsAreTyped DEF Typed, TypeOK, SockTypeOK
<1>2. /\ port' \in Seq(Packet) /\ aborted' \in Nat
      /\ reads' \in [Handles -> Seq(Nat)] /\ writes' \in [Handles -> Seq(Write)]
  <2>1. CASE s \in open
    BY <1>1, <2>1, CancelIoType DEF ScheduleDisconnect, Typed, TypeOK
  <2>2. CASE s \notin open
    BY <2>2 DEF ScheduleDisconnect, Typed, TypeOK, SockTypeOK
  <2>3. QED  BY <2>1, <2>2
<1>3. loop' \in [todo: SUBSET Keys, admit: BOOLEAN]
  BY DEF ScheduleDisconnect, Typed, TypeOK
<1>4. UNCHANGED <<open, assoc, accepting, deaf, peer, recvBuf, clients, acceptSocket,
                  symKeys, quiet, hit, late, leaked>>
  BY DEF ScheduleDisconnect
<1>5. QED  BY <1>2, <1>3, <1>4 DEF Typed, TypeOK, SockTypeOK, Numbered, Occupied

\* The occupied slots before slot k, and the listening socket's, are at most k.
LEMMA NumberTyped ==
    ASSUME NEW k \in Keys
    PROVE  Number(k) \in 0 .. MAX_CLIENTS
<1> DEFINE S == {j \in 1 .. k - 1 : Occupied(j)}
<1>1. k \in Nat /\ k \in 1 .. MAX_CLIENTS /\ k - 1 \in Int /\ k - 1 >= 0
  BY WinsockAssumption DEF Keys
<1>2. IsFiniteSet(1 .. k - 1) /\ Cardinality(1 .. k - 1) = k - 1
  BY <1>1, FS_Interval
<1>3. S \in SUBSET (1 .. k - 1)
  OBVIOUS
<1>4. IsFiniteSet(S) /\ Cardinality(S) <= k - 1
  BY <1>2, <1>3, FS_Subset
<1>5. Cardinality(S) \in Nat
  BY <1>4, FS_CardinalityType
<1>6. QED  BY <1>1, <1>4, <1>5, WinsockAssumption DEF Number

\* The first free slot comes after as many occupied slots as its index says, so
\* the number that is counted there is the index.
LEMMA NumberOfFirst ==
    ASSUME NEW k \in Keys, First(k, FreeKeys)
    PROVE  Number(k) = k
<1>1. k \in Nat /\ k - 1 \in Int /\ k - 1 >= 0
  BY WinsockAssumption DEF Keys
<1>2. Cardinality(1 .. k - 1) = k - 1
  BY <1>1, FS_Interval
<1>3. {j \in 1 .. k - 1 : Occupied(j)} = 1 .. k - 1
  <2>1. ASSUME NEW j \in 1 .. k - 1 PROVE Occupied(j)
    <3>1. j \in Keys /\ ~(k <= j)
      BY <1>1, WinsockAssumption DEF Keys
    <3>2. QED  BY <3>1 DEF First, FreeKeys
  <2>2. QED  BY <2>1
<1>4. Number(k) = 1 + Cardinality(1 .. k - 1)
  BY <1>3, Zenon DEF Number
<1>5. QED  BY <1>1, <1>2, <1>4

\* AddAcceptedConnection fills a slot in with a client under its own number.
LEMMA SlotTyped ==
    ASSUME Typed, NEW k \in Keys, First(k, FreeKeys)
    PROVE  /\ Slot(k) \in Client /\ Slot(k).id = k /\ Slot(k).socket = acceptSocket
           /\ Slot(k).recvBufSize = clients[k].recvBufSize
<1>1. clients[k] \in Client /\ acceptSocket \in Sockets /\ k \in 0 .. MAX_CLIENTS
  BY KeysType DEF Typed, TypeOK, Sockets
<1>2. 0 \in 0 .. TIMEOUT + 1
  BY ServerAssumption
<1>3. Number(k) = k
  BY NumberOfFirst
<1>4. QED  BY <1>1, <1>2, <1>3 DEF Slot, Client

\* The client that is admitted gets its slot's index for number, completion key
\* and index of its symmetric key, and a read on its own socket.
LEMMA Admitted ==
    ASSUME Typed, NEW k \in Keys, Admit(k)
    PROVE  /\ First(k, FreeKeys)
           /\ clients' = [clients EXCEPT ![k] = Slot(k)]
           /\ assoc' = [assoc EXCEPT ![acceptSocket] = k]
           /\ symKeys' = [symKeys EXCEPT ![k] = acceptSocket]
           /\ WSARecv(acceptSocket, clients[k].recvBufSize)
<1>1. Number(k) = k /\ First(k, FreeKeys)
  BY NumberOfFirst DEF Admit
<1>2. /\ clients' = [clients EXCEPT ![k] = Slot(k)]
      /\ assoc' = [assoc EXCEPT ![acceptSocket] = k]
      /\ symKeys' = [symKeys EXCEPT ![k] = acceptSocket]
      /\ WSARecv(clients'[k].socket, clients'[k].recvBufSize)
  BY <1>1 DEF Admit, CreateSymmetricKey
<1>3. clients'[k] = Slot(k)
  BY <1>2 DEF Typed, TypeOK
<1>4. QED  BY <1>1, <1>2, <1>3, SlotTyped

\* The ways an accepted connection is taken or refused.
LEMMA AdmitTyped ==
    ASSUME Typed, NEW k \in Keys, Admit(k)
    PROVE  Typed'
<1>1. /\ First(k, FreeKeys) /\ clients' = [clients EXCEPT ![k] = Slot(k)]
      /\ acceptSocket \in open /\ acceptSocket \in Handles
  BY Admitted DEF Admit, Typed, TypeOK
<1>2. clients' \in [Keys -> Client] /\ Numbered'
  BY <1>1, SlotTyped DEF Typed, TypeOK, Numbered, Occupied
<1>3. reads' \in [Handles -> Seq(Nat)]
  <2>1. clients[k].recvBufSize \in Nat
    BY DEF Typed, TypeOK, Client
  <2>2. QED  BY <2>1, Admitted, WSARecvType DEF Typed, TypeOK
<1>4. /\ open' \in SUBSET Handles /\ acceptSocket' \in Handles
      /\ accepting' \in Handles \cup {INVALID_SOCKET}
  BY DEF Admit, ScheduleAccept, Typed, TypeOK, SockTypeOK
<1>5. assoc' \in [Handles -> 0 .. MAX_CLIENTS]
  <2>1. assoc' = [assoc EXCEPT ![acceptSocket] = k]
    BY Admitted
  <2>2. QED  BY <1>1, <2>1, KeysType DEF Typed, TypeOK, SockTypeOK
<1>6. symKeys' \in [Keys -> Handles \cup {NoKey}]
  <2>1. symKeys' = [symKeys EXCEPT ![k] = acceptSocket]
    BY Admitted
  <2>2. QED  BY <1>1, <2>1 DEF Typed, TypeOK
<1>7. loop' \in [todo: SUBSET Keys, admit: BOOLEAN]
  BY DEF Admit, Admission, Idle
<1>8. UNCHANGED <<deaf, writes, aborted, port, peer, recvBuf, quiet, hit, late, leaked>>
  BY DEF Admit
<1>9. QED  BY <1>2, <1>3, <1>4, <1>5, <1>6, <1>7, <1>8 DEF Typed, TypeOK, SockTypeOK

\* Closing a socket that is not served preserves the types.
LEMMA RefuseTyped ==
    ASSUME Typed, Refuse, clients' \in [Keys -> Client], Numbered', leaked' \in BOOLEAN
    PROVE  Typed'
<1>1. peer' \in [Handles -> Peer]
  BY PeersAreTyped DEF Refuse, Typed, TypeOK, SockTypeOK
<1>2. /\ open' \in SUBSET Handles /\ acceptSocket' \in Handles
      /\ accepting' \in Handles \cup {INVALID_SOCKET}
  BY DEF Refuse, ScheduleAccept, Typed, TypeOK, SockTypeOK
<1>3. loop' \in [todo: SUBSET Keys, admit: BOOLEAN]
  BY DEF Refuse, Admission, Idle
<1>4. UNCHANGED <<assoc, deaf, reads, writes, aborted, port, recvBuf, symKeys, quiet, hit,
                 late>>
  BY DEF Refuse
<1>5. QED  BY <1>1, <1>2, <1>3, <1>4 DEF Typed, TypeOK, SockTypeOK

\* The three ways AddAcceptedConnection refuses preserve the types.
LEMMA RefusalsTyped ==
    ASSUME Typed, \/ RefuseFull \/ RefuseNoAddress
                  \/ \E k \in Keys : RefuseNotAssociated(k)
    PROVE  Typed'
<1>1. CASE RefuseFull
  BY <1>1, RefuseTyped DEF RefuseFull, Typed, TypeOK, Numbered, Occupied
<1>2. CASE RefuseNoAddress
  <2> DEFINE c(k) == IF Occupied(k) THEN clients[k]
                     ELSE [clients[k] EXCEPT !.id = Number(k), !.age = 0]
  <2>1. clients' = [k \in Keys |-> c(k)]
    BY <1>2 DEF RefuseNoAddress
  <2>2. ASSUME NEW k \in Keys PROVE c(k) \in Client /\ c(k).socket = clients[k].socket
    <3>1. clients[k] \in Client /\ 0 \in 0 .. TIMEOUT + 1
      BY ServerAssumption DEF Typed, TypeOK
    <3>2. ASSUME NEW i \in 0 .. MAX_CLIENTS
          PROVE  LET d == [clients[k] EXCEPT !.id = i, !.age = 0]
                 IN  d \in Client /\ d.socket = clients[k].socket
      BY <3>1 DEF Client
    <3>3. QED  BY NumberTyped, <3>1, <3>2
  <2>3. clients' \in [Keys -> Client]
    BY <2>1, <2>2
  <2>4. Numbered'
    BY <2>1, <2>2 DEF Typed, Numbered, Occupied
  <2>5. leaked' \in BOOLEAN
    BY <1>2 DEF RefuseNoAddress, Typed, TypeOK
  <2>6. QED  BY <1>2, <2>3, <2>4, <2>5, RefuseTyped DEF RefuseNoAddress
<1>3. ASSUME NEW k \in Keys, RefuseNotAssociated(k) PROVE Typed'
  <2>1. /\ clients' = [clients EXCEPT ![k] = Slot(k)] /\ First(k, FreeKeys) /\ Refuse
        /\ leaked' \in BOOLEAN
    BY <1>3 DEF RefuseNotAssociated
  <2>2. clients' \in [Keys -> Client] /\ Numbered'
    BY <2>1, SlotTyped DEF Typed, TypeOK, Numbered, Occupied
  <2>3. QED  BY <2>1, <2>2, RefuseTyped
<1>4. QED  BY <1>1, <1>2, <1>3

\* ScheduleRead(t, true): the slots stay those of the same clients, and the read
\* is typed.
LEMMA ReadAnewTyped ==
    ASSUME TypeOK, NEW cs \in [Keys -> Client], NEW t
    PROVE  /\ Emptied(cs, t) \in [Keys -> Client]
           /\ \A k \in Keys : /\ Emptied(cs, t)[k].socket = cs[k].socket
                              /\ Emptied(cs, t)[k].id = cs[k].id
           /\ ReadAnew(t) => reads' \in [Handles -> Seq(Nat)]
<1>1. ASSUME NEW k \in Keys
      PROVE  LET d == [cs[k] EXCEPT !.recvBufSize = 0]
             IN  d \in Client /\ d.socket = cs[k].socket /\ d.id = cs[k].id
  BY DEF Client
<1>2. /\ Emptied(cs, t) \in [Keys -> Client]
      /\ \A k \in Keys : /\ Emptied(cs, t)[k].socket = cs[k].socket
                         /\ Emptied(cs, t)[k].id = cs[k].id
  BY <1>1 DEF Emptied
<1>3. ASSUME ReadAnew(t) PROVE reads' \in [Handles -> Seq(Nat)]
  <2>1. SockTypeOK
    BY DEF TypeOK
  <2>2. CASE t \in Keys
    BY <1>3, <2>1, <2>2, WSARecvType DEF ReadAnew
  <2>3. CASE t \notin Keys
    BY <1>3, <2>1, <2>3 DEF ReadAnew, SockTypeOK
  <2>4. QED  BY <2>2, <2>3
<1>4. QED  BY <1>2, <1>3

\* A handler that changes only a client's counts leaves it typed and in its place.
LEMMA CountsTyped ==
    ASSUME Typed, NEW k \in Keys, NEW d \in Client,
           d.socket = clients[k].socket, d.id = clients[k].id
    PROVE  /\ [clients EXCEPT ![k] = d] \in [Keys -> Client]
           /\ \A j \in Keys : /\ [clients EXCEPT ![k] = d][j].socket = clients[j].socket
                              /\ [clients EXCEPT ![k] = d][j].id = clients[j].id
  BY DEF Typed, TypeOK

\* A slot whose socket and number do not change stays numbered.
LEMMA NumberedKept ==
    ASSUME Numbered, \A k \in Keys : /\ clients'[k].socket = clients[k].socket
                                     /\ clients'[k].id = clients[k].id
    PROVE  Numbered'
  BY DEF Numbered, Occupied

\* The end of a stream preserves the types.
LEMMA ReceiveEndTyped ==
    ASSUME Typed, ReceiveEnd
    PROVE  Typed'
<1> DEFINE k == Head(port).key
           packet == [NewPacket("cancel", k, 0) EXCEPT !.stale = Head(port).stale]
           d == [clients[k] EXCEPT !.age = 0]
<1>1. /\ Head(port) \in Packet /\ Tail(port) \in Seq(Packet)
      /\ k \in Keys /\ Head(port).stale \in BOOLEAN /\ clients[k] \in Client
  <2>1. Gets("recv")
    BY DEF ReceiveEnd
  <2>2. QED  BY <2>1, HeadOfPort
<1>2. <<packet>> \in Seq(Packet)
  BY <1>1 DEF NewPacket, Packet
<1>3. CancelIo(clients[k].socket, Tail(port), <<packet>>)
  BY Zenon DEF ReceiveEnd
<1>4. /\ port' \in Seq(Packet) /\ aborted' \in Nat
      /\ reads' \in [Handles -> Seq(Nat)] /\ writes' \in [Handles -> Seq(Write)]
  BY <1>1, <1>2, <1>3, CancelIoType DEF Typed, TypeOK
<1>5. clients' = [clients EXCEPT ![k] = d]
  BY Zenon DEF ReceiveEnd
<1>6. clients' \in [Keys -> Client] /\ Numbered'
  <2>1. d \in Client /\ d.socket = clients[k].socket /\ d.id = clients[k].id
    BY <1>1, ServerAssumption DEF Client
  <2>2. \A j \in Keys : clients'[j].socket = clients[j].socket /\ clients'[j].id = clients[j].id
    BY <1>1, <1>5, <2>1 DEF Typed, TypeOK
  <2>3. QED  BY <1>5, <2>1, <2>2, NumberedKept DEF Typed, TypeOK
<1>7. hit' \subseteq Keys /\ quiet' = 0
  BY <1>1 DEF ReceiveEnd, Touch, Typed, TypeOK
<1>8. UNCHANGED <<open, assoc, accepting, deaf, peer, recvBuf, acceptSocket, symKeys, loop,
                  late, leaked>>
  BY Zenon DEF ReceiveEnd
<1>9. QED  BY <1>4, <1>6, <1>7, <1>8, ServerAssumption DEF Typed, TypeOK, SockTypeOK

\* What every step on a non-empty recv packet, and on a send packet, has in
\* common: it takes the packet, and leaves the slots' memory and sockets alone.
LEMMA IoTyped ==
    ASSUME Typed, Send \/ \E kind : Receive(kind),
           clients' \in [Keys -> Client],
           \A k \in Keys : /\ clients'[k].socket = clients[k].socket
                           /\ clients'[k].id = clients[k].id,
           reads' \in [Handles -> Seq(Nat)], writes' \in [Handles -> Seq(Write)],
           peer' \in [Handles -> Peer], late' \in BOOLEAN
    PROVE  Typed'
<1>1. PICK op \in {"recv", "send"} :
        /\ Gets(op) /\ TakePacket /\ Touch(Head(port))
        /\ UNCHANGED <<open, assoc, accepting, deaf, aborted, recvBuf, acceptSocket, symKeys, loop,
                       leaked>>
  BY DEF Send, Receive
<1>2. port' \in Seq(Packet) /\ quiet' \in 0 .. TIMEOUT
  BY <1>1, HeadOfPort, ServerAssumption DEF TakePacket
<1>3. hit' \subseteq Keys
  BY <1>1, HeadOfPort DEF Touch, Typed, TypeOK
<1>4. Numbered'
  BY NumberedKept DEF Typed
<1>5. QED  BY <1>1, <1>2, <1>3, <1>4 DEF Typed, TypeOK, SockTypeOK

\* The packet and the message at the start of the buffer a recv packet is about.
LEMMA ReceiveTyped ==
    ASSUME Typed, NEW kind, Receive(kind)
    PROVE  LET k == Head(port).key IN
           /\ k \in Keys /\ Head(port).n \in Nat /\ clients[k] \in Client
           /\ recvBuf[k].head.reply \in Nat
<1>1. Gets("recv")
  BY DEF Receive
<1>2. Head(port).key \in Keys /\ Head(port).n \in Nat /\ clients[Head(port).key] \in Client
  BY <1>1, HeadOfPort
<1>3. recvBuf[Head(port).key] \in Buffer
  BY <1>2 DEF Typed, TypeOK, SockTypeOK
<1>4. \A b \in Buffer : b.head.reply \in Nat
  BY WinsockAssumption DEF Buffer, NoMessage
<1>5. QED  BY <1>2, <1>3, <1>4

\* The mark of an answer that overtakes a completion is a truth value.
LEMMA AnswersTyped ==
    ASSUME NEW k, NEW m, Answers(k, m)
    PROVE  late' \in BOOLEAN
<1>1. late' = (late \/ ShorterDue(k, m))
  BY Zenon DEF Answers
<1>2. (late \/ ShorterDue(k, m)) \in BOOLEAN
  OBVIOUS
<1>3. QED  BY <1>1, <1>2

\* Part of a message: read on behind it.
LEMMA ReceivePartialTyped ==
    ASSUME Typed, ReceivePartial
    PROVE  Typed'
<1> DEFINE k == Head(port).key
           c == Received(k, Head(port).n)
<1>1. Receive("partial") /\ UNCHANGED <<writes, peer, late>>
  BY DEF ReceivePartial
<1>2. k \in Keys /\ Head(port).n \in Nat /\ clients[k] \in Client
  BY <1>1, ReceiveTyped
<1>3. /\ clients[k].recvBufSize + Head(port).n \in Nat
      /\ clients[k].unsent \in Int /\ 0 \in 0 .. TIMEOUT + 1
  BY <1>2, ServerAssumption DEF Client
<1>4. c \in Client /\ c.socket = clients[k].socket /\ c.id = clients[k].id
  BY <1>2, <1>3 DEF Received, Client
<1>5. clients' = [clients EXCEPT ![k] = c] /\ WSARecv(c.socket, c.recvBufSize)
  BY Zenon DEF ReceivePartial
<1>6. /\ clients' \in [Keys -> Client]
      /\ \A j \in Keys : clients'[j].socket = clients[j].socket /\ clients'[j].id = clients[j].id
  BY <1>2, <1>4, <1>5, CountsTyped
<1>7. reads' \in [Handles -> Seq(Nat)]
  <2>1. c.recvBufSize \in Nat
    BY <1>4 DEF Client
  <2>2. QED  BY <1>5, <2>1, WSARecvType DEF Typed, TypeOK
<1>8. writes' \in [Handles -> Seq(Write)] /\ peer' \in [Handles -> Peer] /\ late' \in BOOLEAN
  BY <1>1 DEF Typed, TypeOK, SockTypeOK
<1>9. QED  BY <1>1, <1>6, <1>7, <1>8, IoTyped

\* A complete message empties the buffer and is answered over sendBuf.
LEMMA AnsweringTyped ==
    ASSUME Typed, NEW k \in Keys, NEW m, m.reply \in Nat
    PROVE  /\ [clients EXCEPT ![k] = Answering(clients[k], m)] \in [Keys -> Client]
           /\ \A j \in Keys :
                /\ [clients EXCEPT ![k] = Answering(clients[k], m)][j].socket = clients[j].socket
                /\ [clients EXCEPT ![k] = Answering(clients[k], m)][j].id = clients[j].id
<1> DEFINE d == Answering(clients[k], m)
<1>1. clients[k] \in Client /\ 0 \in 0 .. TIMEOUT + 1 /\ m.reply \in Int
  BY ServerAssumption DEF Typed, TypeOK
<1>2. d \in Client /\ d.socket = clients[k].socket /\ d.id = clients[k].id
  BY <1>1 DEF Answering, Client
<1>3. QED  BY <1>2, CountsTyped

\* A request handled preserves the types.
LEMMA ReceiveRequestTyped ==
    ASSUME Typed, ReceiveRequest
    PROVE  Typed'
<1> DEFINE k == Head(port).key
           m == recvBuf[k].head
<1>1. Receive("request") /\ UNCHANGED <<reads, peer>>
  BY DEF ReceiveRequest
<1>2. k \in Keys /\ m.reply \in Nat
  BY <1>1, ReceiveTyped
<1>3. /\ clients' = [clients EXCEPT ![k] = Answering(clients[k], m)]
      /\ WSASend(clients[k].socket, m.reply, TRUE) /\ Answers(k, m)
  BY Zenon DEF ReceiveRequest
<1>4. writes' \in [Handles -> Seq(Write)]
  BY <1>2, <1>3, WSASendType DEF Typed, TypeOK
<1>5. reads' \in [Handles -> Seq(Nat)] /\ peer' \in [Handles -> Peer]
  BY <1>1 DEF Typed, TypeOK, SockTypeOK
<1>6. late' \in BOOLEAN
  BY <1>3, AnswersTyped
<1>7. QED  BY <1>1, <1>2, <1>3, <1>4, <1>5, <1>6, AnsweringTyped, IoTyped

\* The key that is handed over is one of m_keys: the client has its own number.
LEMMA ReceiveKeyRequestTyped ==
    ASSUME Typed, ReceiveKeyRequest
    PROVE  Typed'
<1> DEFINE k == Head(port).key
           c == clients[k]
           m == recvBuf[k].head
           cs == [clients EXCEPT ![k] = Answering(c, m)]
<1>1. Receive("key")
  BY DEF ReceiveKeyRequest
<1>2. k \in Keys /\ m.reply \in Nat /\ c \in Client
  BY <1>1, ReceiveTyped
<1>3. /\ clients' = Emptied(cs, c.id)
      /\ WSASend(c.socket, m.reply, TRUE)
      /\ Answers(k, m)
      /\ ReadAnew(c.id)
      /\ peer' = IF Usable(c.socket) THEN [peer EXCEPT ![c.socket].key = symKeys[c.id]]
                 ELSE peer
  BY Zenon DEF ReceiveKeyRequest
<1>4. /\ cs \in [Keys -> Client]
      /\ \A j \in Keys : cs[j].socket = clients[j].socket /\ cs[j].id = clients[j].id
  BY <1>2, AnsweringTyped
<1>5. /\ clients' \in [Keys -> Client]
      /\ \A j \in Keys : clients'[j].socket = clients[j].socket /\ clients'[j].id = clients[j].id
      /\ reads' \in [Handles -> Seq(Nat)]
  BY <1>3, <1>4, ReadAnewTyped DEF Typed
<1>6. writes' \in [Handles -> Seq(Write)]
  BY <1>2, <1>3, WSASendType DEF Typed, TypeOK
<1>7. peer' \in [Handles -> Peer]
  <2>1. CASE Usable(c.socket)
    <3>1. c.socket \in Handles
      BY <2>1 DEF Usable, Typed, TypeOK, SockTypeOK
    <3>2. c.id = k
      BY <1>2, <3>1, WinsockAssumption DEF Typed, Numbered, Occupied
    <3>3. symKeys[c.id] \in Handles \cup {NoKey}
      BY <1>2, <3>2 DEF Typed, TypeOK
    <3>4. [peer[c.socket] EXCEPT !.key = symKeys[c.id]] \in Peer
      <4>1. peer[c.socket] \in Peer
        BY <3>1 DEF Typed, TypeOK, SockTypeOK
      <4>2. \A key \in Handles \cup {NoKey} : [peer[c.socket] EXCEPT !.key = key] \in Peer
        BY <4>1 DEF Peer
      <4>3. QED  BY <3>3, <4>2
    <3>5. peer' = [peer EXCEPT ![c.socket] = [peer[c.socket] EXCEPT !.key = symKeys[c.id]]]
      BY <1>3, <2>1
    <3>6. QED  BY <3>1, <3>4, <3>5 DEF Typed, TypeOK, SockTypeOK
  <2>2. CASE ~Usable(c.socket)
    BY <1>3, <2>2 DEF Typed, TypeOK, SockTypeOK
  <2>3. QED  BY <2>1, <2>2
<1>8. late' \in BOOLEAN
  BY <1>3, AnswersTyped
<1>9. QED  BY <1>1, <1>5, <1>6, <1>7, <1>8, IoTyped

\* A request that no handler is registered for preserves the types.
LEMMA ReceiveUnknownTyped ==
    ASSUME Typed, ReceiveUnknown
    PROVE  Typed'
<1> DEFINE k == Head(port).key
           d == [clients[k] EXCEPT !.age = 0, !.recvBufSize = 0]
<1>1. Receive("unknown") /\ UNCHANGED <<reads, writes, peer, late>>
  BY DEF ReceiveUnknown
<1>2. k \in Keys /\ clients[k] \in Client
  BY <1>1, ReceiveTyped
<1>3. clients' = [clients EXCEPT ![k] = d]
  BY Zenon DEF ReceiveUnknown
<1>4. d \in Client /\ d.socket = clients[k].socket /\ d.id = clients[k].id
  <2>1. 0 \in 0 .. TIMEOUT + 1
    BY ServerAssumption
  <2>2. \A x \in 0 .. TIMEOUT + 1, c \in Client :
          [c EXCEPT !.age = x, !.recvBufSize = 0] \in Client
    BY DEF Client
  <2>3. QED  BY <1>2, <2>1, <2>2 DEF Client
<1>5. /\ clients' \in [Keys -> Client]
      /\ \A j \in Keys : clients'[j].socket = clients[j].socket /\ clients'[j].id = clients[j].id
  BY <1>2, <1>3, <1>4, CountsTyped
<1>6. /\ reads' \in [Handles -> Seq(Nat)] /\ writes' \in [Handles -> Seq(Write)]
      /\ peer' \in [Handles -> Peer] /\ late' \in BOOLEAN
  BY <1>1 DEF Typed, TypeOK, SockTypeOK
<1>7. QED  BY <1>1, <1>5, <1>6, IoTyped

\* A completed send, of a part of the answer or of the rest of it.
LEMMA SendTyped ==
    ASSUME Typed, SendPartial \/ SendDone
    PROVE  Typed'
<1> DEFINE k == Head(port).key
           u == Unsent(k, Head(port).n)
           d == [clients[k] EXCEPT !.unsent = u]
           cs == [clients EXCEPT ![k] = d]
<1>1. Send
  BY DEF SendPartial, SendDone
<1>2. k \in Keys /\ Head(port).n \in Nat /\ clients[k] \in Client
  BY <1>1, HeadOfPort DEF Send
<1>3. u \in Int
  BY <1>2 DEF Unsent, Client
<1>4. d \in Client /\ d.socket = clients[k].socket /\ d.id = clients[k].id
  BY <1>2, <1>3 DEF Client
<1>5. /\ cs \in [Keys -> Client]
      /\ \A j \in Keys : cs[j].socket = clients[j].socket /\ cs[j].id = clients[j].id
  BY <1>2, <1>3, <1>4, CountsTyped
<1>6. peer' \in [Handles -> Peer] /\ late' \in BOOLEAN
  BY <1>1 DEF Send, Typed, TypeOK, SockTypeOK
<1>7. CASE SendPartial
  <2>1. u > 0 /\ clients' = cs /\ WSASend(clients[k].socket, u, FALSE) /\ UNCHANGED reads
    BY <1>7, Zenon DEF SendPartial
  <2>2. u \in Nat
    BY <1>3, <2>1
  <2>3. reads' \in [Handles -> Seq(Nat)] /\ writes' \in [Handles -> Seq(Write)]
    BY <2>1, <2>2, WSASendType DEF Typed, TypeOK, SockTypeOK
  <2>4. QED  BY <1>1, <1>5, <1>6, <2>1, <2>3, IoTyped
<1>8. CASE SendDone
  <2>1. clients' = Emptied(cs, clients[k].id) /\ ReadAnew(clients[k].id) /\ UNCHANGED writes
    BY <1>8, Zenon DEF SendDone
  <2>2. /\ clients' \in [Keys -> Client]
        /\ \A j \in Keys : clients'[j].socket = clients[j].socket /\ clients'[j].id = clients[j].id
        /\ reads' \in [Handles -> Seq(Nat)]
    BY <1>5, <2>1, ReadAnewTyped DEF Typed
  <2>3. writes' \in [Handles -> Seq(Write)]
    BY <2>1 DEF Typed, TypeOK, SockTypeOK
  <2>4. QED  BY <1>1, <1>6, <2>2, <2>3, IoTyped
<1>9. QED  BY <1>7, <1>8

\* The slot of a cancel packet is cleared, and what its client still has in the
\* port is marked.
LEMMA CancelledTyped ==
    ASSUME Typed, Cancelled
    PROVE  Typed'
<1> DEFINE k == Head(port).key
           s == clients[k].socket
<1>1. k \in Keys /\ Tail(port) \in Seq(Packet)
  <2>1. Gets("cancel")
    BY DEF Cancelled
  <2>2. QED  BY <2>1, HeadOfPort
<1>2. UNCHANGED <<acceptSocket, symKeys, loop, hit, late, leaked>> /\ quiet' = 0
  BY Zenon DEF Cancelled
<1>3. CASE s = INVALID_SOCKET
  <2>1. /\ port' = Tail(port)
        /\ UNCHANGED <<open, assoc, accepting, deaf, reads, writes, aborted, peer, recvBuf, clients>>
    BY <1>3, Zenon DEF Cancelled
  <2>2. QED  BY <1>1, <1>2, <2>1, ServerAssumption DEF Typed, TypeOK, SockTypeOK, Numbered, Occupied
<1>4. CASE s # INVALID_SOCKET
  <2>1. /\ closesocket(s)
        /\ clients' = [clients EXCEPT ![k] = FreeClient]
        /\ recvBuf' = [recvBuf EXCEPT ![k] = Zeroed]
        /\ port' = [i \in 1 .. Len(port) - 1 |->
                     [port[i + 1] EXCEPT !.stale = @ \/ port[i + 1].key = k]]
    BY <1>4, Zenon DEF Cancelled
  <2>2. /\ open' \in SUBSET Handles /\ assoc' \in [Handles -> 0 .. MAX_CLIENTS]
        /\ accepting' \in Handles \cup {INVALID_SOCKET} /\ deaf' \in BOOLEAN
        /\ peer' \in [Handles -> Peer]
        /\ aborted' \in Nat
        /\ reads' \in [Handles -> Seq(Nat)] /\ writes' \in [Handles -> Seq(Write)]
    BY <2>1, closesocketType DEF Typed, TypeOK
  <2>3. FreeClient \in Client
    BY WinsockAssumption, ServerAssumption DEF FreeClient, Client, Sockets
  <2>4. clients' \in [Keys -> Client] /\ Numbered'
    BY <1>1, <2>1, <2>3 DEF Typed, TypeOK, Numbered, Occupied, FreeClient
  <2>5. recvBuf' \in [Keys -> Buffer]
    BY <2>1, PeersAreTyped DEF Typed, TypeOK, SockTypeOK
  <2>6. port' \in Seq(Packet)
    <3>1. port \in Seq(Packet) /\ port # <<>>
      BY DEF Cancelled, Gets, Typed, TypeOK, SockTypeOK
    <3>2. Len(port) - 1 \in Nat
      BY <3>1
    <3>3. ASSUME NEW i \in 1 .. Len(port) - 1
          PROVE  [port[i + 1] EXCEPT !.stale = @ \/ port[i + 1].key = k] \in Packet
      <4>1. port[i + 1] \in Packet
        BY <3>1
      <4>2. \A p \in Packet, b \in BOOLEAN : [p EXCEPT !.stale = b] \in Packet
        BY DEF Packet
      <4>3. (port[i + 1].stale \/ port[i + 1].key = k) \in BOOLEAN
        OBVIOUS
      <4>4. QED  BY <4>1, <4>2, <4>3
    <3>4. QED  BY <2>1, <3>2, <3>3, SeqDef
  <2>7. SockTypeOK'
    BY <2>2, <2>5, <2>6 DEF SockTypeOK
  <2>8. /\ acceptSocket' \in Handles /\ symKeys' \in [Keys -> Handles \cup {NoKey}]
        /\ loop' \in [todo: SUBSET Keys, admit: BOOLEAN]
        /\ quiet' \in 0 .. TIMEOUT /\ hit' \subseteq Keys
        /\ late' \in BOOLEAN /\ leaked' \in BOOLEAN
    BY <1>2, ServerAssumption DEF Typed, TypeOK
  <2>9. QED  BY <2>4, <2>7, <2>8 DEF Typed, TypeOK
<1>5. QED  BY <1>3, <1>4

\* Time passes.
LEMMA TickTyped ==
    ASSUME Typed, Tick
    PROVE  Typed'
<1>1. UNCHANGED <<sockVars, acceptSocket, symKeys, loop, hit, late, leaked>>
  BY DEF Tick
<1>2. ASSUME NEW k \in Keys, Occupied(k), clients[k].age <= TIMEOUT
      PROVE  LET d == [clients[k] EXCEPT !.age = @ + 1]
             IN  d \in Client /\ d.socket = clients[k].socket /\ d.id = clients[k].id
  <2>1. clients[k] \in Client /\ clients[k].age \in 0 .. TIMEOUT + 1
    BY DEF Typed, TypeOK, Client
  <2>2. clients[k].age + 1 \in 0 .. TIMEOUT + 1
    BY <1>2, <2>1, ServerAssumption
  <2>3. \A x \in 0 .. TIMEOUT + 1 :
          LET d == [clients[k] EXCEPT !.age = x]
          IN  d \in Client /\ d.socket = clients[k].socket /\ d.id = clients[k].id
    BY <2>1 DEF Client
  <2>4. QED  BY <2>2, <2>3
<1>3. clients' = [k \in Keys |->
         IF Occupied(k) /\ clients[k].age <= TIMEOUT
         THEN [clients[k] EXCEPT !.age = @ + 1] ELSE clients[k]]
  BY DEF Tick
<1>4. /\ clients' \in [Keys -> Client]
      /\ \A k \in Keys : clients'[k].socket = clients[k].socket /\ clients'[k].id = clients[k].id
  BY <1>2, <1>3 DEF Typed, TypeOK
<1>5. quiet' \in 0 .. TIMEOUT
  BY ServerAssumption DEF Tick, Typed, TypeOK
<1>6. QED  BY <1>1, <1>4, <1>5, NumberedKept DEF Typed, TypeOK, SockTypeOK, sockVars

\* What the server does not see directly.
LEMMA WorldTyped ==
    ASSUME Typed, SockTypeOK', UNCHANGED serverVars
    PROVE  Typed'
  BY DEF Typed, TypeOK, Numbered, Occupied, serverVars

\* Every step keeps the types and the numbers of the clients.
LEMMA NextTyped ==
    ASSUME Typed, [Next]_vars
    PROVE  Typed'
<1>1. CASE Thread
  <2>1. CASE WaitTimedOut \/ OperationFailed \/ AcceptCompleted
    BY <2>1, TimeoutCheckTyped
  <2>2. ASSUME NEW k \in Keys, ScheduleDisconnect(k) \/ Admit(k) \/ RefuseNotAssociated(k)
        PROVE  Typed'
    BY <2>2, ScheduleDisconnectTyped, AdmitTyped, RefusalsTyped
  <2>3. CASE RefuseFull \/ RefuseNoAddress
    BY <2>3, RefusalsTyped
  <2>4. CASE ReceiveEnd \/ ReceivePartial \/ ReceiveKeyRequest \/ ReceiveRequest \/ ReceiveUnknown
    BY <2>4, ReceiveEndTyped, ReceivePartialTyped, ReceiveKeyRequestTyped,
       ReceiveRequestTyped, ReceiveUnknownTyped
  <2>5. CASE SendPartial \/ SendDone \/ Cancelled
    BY <2>5, SendTyped, CancelledTyped
  <2>6. QED  BY <1>1, <2>1, <2>2, <2>3, <2>4, <2>5 DEF Thread
<1>2. CASE Tick
  BY <1>2, TickTyped
<1>3. CASE (PeerConnects \/ AcceptFails \/ AbortCompletes) /\ UNCHANGED serverVars
  <2>1. SockTypeOK
    BY DEF Typed, TypeOK
  <2>2. acceptSocket \in Handles
    BY DEF Typed, TypeOK
  <2>3. SockTypeOK'
    BY <1>3, <2>1, <2>2, PeersKeepTypes, FailuresKeepTypes
  <2>4. QED  BY <1>3, <2>3, WorldTyped
<1>4. ASSUME NEW h \in Handles, (Environment(h) \/ Completion(h)) /\ UNCHANGED serverVars
      PROVE  Typed'
  <2>1. SockTypeOK
    BY DEF Typed, TypeOK
  <2>2. CASE Environment(h)
    BY <1>4, <2>1, <2>2, PeersKeepTypes, WorldTyped DEF Environment
  <2>3. CASE Completion(h)
    <3>1. SockTypeOK'
      BY <2>1, <2>3, DeliverType, DeliverEofType, TransmitType, SendCompletesType
      DEF Completion
    <3>2. QED  BY <1>4, <3>1, WorldTyped
  <2>4. QED  BY <1>4, <2>2, <2>3
<1>5. CASE UNCHANGED vars
  BY <1>5 DEF vars, serverVars, sockVars, Typed, TypeOK, SockTypeOK, Numbered, Occupied
<1>6. QED  BY <1>1, <1>2, <1>3, <1>4, <1>5 DEF Next

\* The event loop never leaves its types: no slot, packet, offset or key it works
\* with is ever outside the range the code declares for it.
THEOREM TypeCorrect == Spec => []TypeOK
<1>1. Init => Typed
  BY InitTyped
<1>2. Typed /\ [Next]_vars => Typed'
  BY NextTyped
<1>3. Typed => TypeOK
  BY DEF Typed
<1>4. QED  BY <1>1, <1>2, <1>3, PTL DEF Spec
=============================================================================
