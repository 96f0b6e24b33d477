---------------------------- MODULE AcceptProofs ----------------------------
(***************************************************************************)
(* The server keeps exactly one AcceptEx going, for every number of slots, *)
(* and implements the pool of module ClientPool: the proofs rest on the    *)
(* ownership of sockets that OwnershipProofs shows.                        *)
(***************************************************************************)
EXTENDS OwnershipProofs

\* OneAccept is inductive together with Safe: a freed slot never closes the
\* socket that AcceptEx waits on.
Accepts == Safe /\ OneAccept

\* The accept packets of q are those of the port, moved by d places.
SameAccepts(q, d) ==
    /\ \A i \in DOMAIN q : q[i].op = "accept" => i + d \in DOMAIN port /\ port[i + d].op = "accept"
    /\ \A i \in DOMAIN port : port[i].op = "accept" => i - d \in DOMAIN q /\ q[i - d].op = "accept"

\* A step that neither accepts nor fails to accept keeps one AcceptEx going.
LEMMA AcceptKept ==
    ASSUME OneAccept, port' \in Seq(Packet),
           SameAccepts(port', 0) \/ SameAccepts(port', 1),
           UNCHANGED <<accepting, acceptSocket>>, loop'.admit = loop.admit, deaf' <=> deaf
    PROVE  OneAccept'
<1>1. PICK d \in {0, 1} : SameAccepts(port', d)
  OBVIOUS
<1>2. \A i \in DOMAIN port' : IsAccept(i)' => i + d \in DOMAIN port /\ IsAccept(i + d)
  BY <1>1 DEF SameAccepts, IsAccept
<1>3. \A i \in DOMAIN port : IsAccept(i) => i - d \in DOMAIN port' /\ IsAccept(i - d)'
  BY <1>1 DEF SameAccepts, IsAccept
<1>4. accepting' \in {INVALID_SOCKET, acceptSocket'}
  BY DEF OneAccept
<1>5. \A i, j \in DOMAIN port' : IsAccept(i)' /\ IsAccept(j)' => i = j
  <2>1. DOMAIN port' \subseteq Int
    OBVIOUS
  <2>2. ASSUME NEW i \in DOMAIN port', NEW j \in DOMAIN port', IsAccept(i)', IsAccept(j)'
        PROVE  i = j
    <3>1. i + d = j + d
      BY <1>2, <2>2 DEF OneAccept
    <3>2. QED  BY <2>1, <3>1
  <2>3. QED  BY <2>2
<1>6. \A i \in DOMAIN port' : IsAccept(i)' => accepting' = INVALID_SOCKET /\ ~loop'.admit
  BY <1>2 DEF OneAccept
<1>7. loop'.admit => accepting' = INVALID_SOCKET
  BY DEF OneAccept
<1>8. ~deaf' <=>
        accepting' = acceptSocket' \/ loop'.admit \/ \E i \in DOMAIN port' : IsAccept(i)'
  <2>1. (\E i \in DOMAIN port' : IsAccept(i)') <=> \E i \in DOMAIN port : IsAccept(i)
    BY <1>2, <1>3
  <2>2. QED  BY <2>1 DEF OneAccept
<1>9. QED  BY <1>4, <1>5, <1>6, <1>7, <1>8 DEF OneAccept

\* What the port becomes: the head taken, or packets of other kinds queued.
LEMMA TailAccepts ==
    ASSUME port \in Seq(Packet), port # <<>>, Head(port).op # "accept"
    PROVE  SameAccepts(Tail(port), 1)
<1>1. Head(port) = port[1] /\ DOMAIN Tail(port) = 1 .. Len(port) - 1 /\ Len(port) \in Nat
  OBVIOUS
<1>2. \A i \in 1 .. Len(port) - 1 : Tail(port)[i] = port[i + 1]
  OBVIOUS
<1>3. \A i \in DOMAIN port : i # 1 => i - 1 \in 1 .. Len(port) - 1 /\ Tail(port)[i - 1] = port[i]
  BY <1>2
<1>4. QED  BY <1>1, <1>2, <1>3 DEF SameAccepts

\* Packets of other kinds behind q are no accept packets.
LEMMA MoreAccepts ==
    ASSUME port \in Seq(Packet), NEW q \in Seq(Packet), NEW d \in {0, 1}, SameAccepts(q, d),
           NEW more \in Seq(Packet), \A i \in DOMAIN more : more[i].op # "accept"
    PROVE  SameAccepts(q \o more, d)
<1>1. ASSUME NEW i \in DOMAIN (q \o more), (q \o more)[i].op = "accept"
      PROVE  i \in DOMAIN q /\ q[i].op = "accept"
  <2>1. CASE i \in DOMAIN q
    BY <1>1, <2>1
  <2>2. CASE i \notin DOMAIN q
    <3>1. i - Len(q) \in DOMAIN more /\ (q \o more)[i] = more[i - Len(q)]
      BY <2>2
    <3>2. QED  BY <1>1, <3>1
  <2>3. QED  BY <2>1, <2>2
<1>2. \A i \in DOMAIN q : i \in DOMAIN (q \o more) /\ (q \o more)[i] = q[i]
  OBVIOUS
<1>3. QED  BY <1>1, <1>2 DEF SameAccepts

\* A port that does not change has the same accept packets.
LEMMA SameAcceptsHere == port \in Seq(Packet) => SameAccepts(port, 0)
  BY DEF SameAccepts

\* FailedPackets are not accept packets.
LEMMA FailedAccepts ==
    \A n \in Nat : \A i \in DOMAIN FailedPackets(n) : FailedPackets(n)[i].op # "accept"
  BY DEF FailedPackets, NewPacket

\* CancelIo queues failed operations and the cancel packet only.
LEMMA CancelAccepts ==
    ASSUME Typed, NEW h, NEW q \in Seq(Packet), NEW d \in {0, 1}, SameAccepts(q, d),
           NEW p \in Packet, p.op # "accept", CancelIo(h, q, <<p>>)
    PROVE  SameAccepts(port', d)
<1>1. PICK n \in Nat : port' = q \o FailedPackets(n) \o <<p>> \/ port' = q \o <<p>>
  <2>1. CASE h \in open
    <3>1. InFlight(h) \in Nat
      BY <2>1, InFlightType DEF Typed, TypeOK, SockTypeOK
    <3>2. \E n \in 0 .. InFlight(h) : port' = q \o FailedPackets(n) \o <<p>>
      BY <2>1, Zenon DEF CancelIo
    <3>3. QED  BY <3>1, <3>2, SMTT(30)
  <2>2. CASE h \notin open
    BY <2>2 DEF CancelIo
  <2>3. QED  BY <2>1, <2>2
<1>2. port \in Seq(Packet) /\ FailedPackets(n) \in Seq(Packet) /\ <<p>> \in Seq(Packet)
  BY PacketsAreTyped DEF Typed, TypeOK, SockTypeOK
<1>3. \A i \in DOMAIN <<p>> : <<p>>[i].op # "accept"
  OBVIOUS
<1>4. ASSUME NEW r \in Seq(Packet), SameAccepts(r, d)
      PROVE  SameAccepts(r \o <<p>>, d)
  BY <1>2, <1>3, <1>4, MoreAccepts
<1>5. q \o FailedPackets(n) \in Seq(Packet) /\ SameAccepts(q \o FailedPackets(n), d)
  <2> DEFINE f == FailedPackets(n)
  <2>1. f \in Seq(Packet) /\ \A i \in DOMAIN f : f[i].op # "accept"
    BY <1>2, FailedAccepts
  <2> HIDE DEF f
  <2>2. q \o f \in Seq(Packet) /\ SameAccepts(q \o f, d)
    BY <1>2, <2>1, MoreAccepts
  <2>3. QED  BY <2>2 DEF f
<1>6. QED  BY <1>1, <1>4, <1>5

\* A packet of another kind is queued behind the accept packet.
LEMMA QueueAccepts ==
    ASSUME port \in Seq(Packet), NEW p \in Packet, p.op # "accept"
    PROVE  SameAccepts(Append(port, p), 0)
<1>1. \A i \in DOMAIN Append(port, p) :
        Append(port, p)[i] = p \/ (i \in DOMAIN port /\ Append(port, p)[i] = port[i])
  OBVIOUS
<1>2. \A i \in DOMAIN port : i \in DOMAIN Append(port, p) /\ Append(port, p)[i] = port[i]
  OBVIOUS
<1>3. DOMAIN port \subseteq Int /\ DOMAIN Append(port, p) \subseteq Int
  OBVIOUS
<1>4. QED  BY <1>1, <1>2, <1>3 DEF SameAccepts

\* The steps of the event loop that neither accept nor refuse.
LEMMA HandlersAccept ==
    ASSUME Accepts, Typed',
           \/ WaitTimedOut \/ OperationFailed \/ \E k \in Keys : ScheduleDisconnect(k)
           \/ ReceiveEnd \/ ReceivePartial \/ ReceiveKeyRequest \/ ReceiveRequest
           \/ ReceiveUnknown \/ SendPartial \/ SendDone \/ Tick
    PROVE  OneAccept'
<1>1. port \in Seq(Packet) /\ port' \in Seq(Packet) /\ Typed /\ OneAccept
  BY DEF Accepts, Safe, Typed, TypeOK, SockTypeOK
<1>2. CASE WaitTimedOut \/ OperationFailed
  <2>1. loop'.admit = FALSE /\ loop.admit = FALSE /\ UNCHANGED <<accepting, acceptSocket, deaf>>
    BY <1>2 DEF WaitTimedOut, OperationFailed, TimeoutCheck, Gets, Idle, sockVars
  <2>2. UNCHANGED port \/ (port' = Tail(port) /\ port # <<>> /\ Head(port).op # "accept")
    BY <1>2 DEF WaitTimedOut, OperationFailed, Gets, TakePacket, sockVars
  <2>3. SameAccepts(port', 0) \/ SameAccepts(port', 1)
    BY <1>1, <2>2, TailAccepts, SameAcceptsHere
  <2>4. QED  BY <1>1, <2>1, <2>3, AcceptKept
<1>3. ASSUME NEW k \in Keys, ScheduleDisconnect(k) PROVE OneAccept'
  <2>1. loop'.admit = loop.admit /\ UNCHANGED <<accepting, acceptSocket, deaf>>
    BY <1>1, <1>3 DEF ScheduleDisconnect, Typed, TypeOK
  <2>2. SameAccepts(port', 0)
    <3>1. NewPacket("cancel", k, 0) \in Packet /\ NewPacket("cancel", k, 0).op # "accept"
      BY PacketsAreTyped DEF NewPacket
    <3>2. UNCHANGED port \/ CancelIo(clients[k].socket, port, <<NewPacket("cancel", k, 0)>>)
      BY <1>3 DEF ScheduleDisconnect
    <3>3. QED  BY <1>1, <3>1, <3>2, CancelAccepts, SameAcceptsHere
  <2>3. QED  BY <1>1, <2>1, <2>2, AcceptKept
<1>4. CASE ReceiveEnd
  <2> DEFINE k == Head(port).key
             p == [NewPacket("cancel", k, 0) EXCEPT !.stale = Head(port).stale]
  <2>1. Gets("recv") /\ port # <<>> /\ Head(port).op = "recv"
    BY <1>4 DEF ReceiveEnd, Gets
  <2>2. k \in Keys /\ Head(port).stale \in BOOLEAN /\ Tail(port) \in Seq(Packet)
    BY <1>1, <2>1, HeadOfPort
  <2>3. p \in Packet /\ p.op # "accept"
    BY <2>2 DEF NewPacket, Packet
  <2>4. SameAccepts(Tail(port), 1)
    BY <1>1, <2>1, TailAccepts
  <2>5. CancelIo(clients[k].socket, Tail(port), <<p>>)
    BY <1>4, Zenon DEF ReceiveEnd
  <2>6. SameAccepts(port', 1)
    BY <1>1, <2>2, <2>3, <2>4, <2>5, CancelAccepts
  <2>7. UNCHANGED <<accepting, acceptSocket, loop, deaf>>
    BY <1>4, Zenon DEF ReceiveEnd
  <2>8. QED  BY <1>1, <2>6, <2>7, AcceptKept
<1>5. CASE \/ ReceivePartial \/ ReceiveKeyRequest \/ ReceiveRequest \/ ReceiveUnknown
           \/ SendPartial \/ SendDone
  <2>1. Send \/ \E kind : Receive(kind)
    BY <1>5 DEF ReceivePartial, ReceiveKeyRequest, ReceiveRequest, ReceiveUnknown,
                SendPartial, SendDone
  <2>2. UNCHANGED <<accepting, acceptSocket, loop, deaf>> /\ port' = Tail(port)
        /\ port # <<>> /\ Head(port).op # "accept"
    BY <2>1 DEF Send, Receive, Gets, TakePacket
  <2>3. QED  BY <1>1, <2>2, TailAccepts, AcceptKept
<1>6. CASE Tick
  <2>1. UNCHANGED <<accepting, acceptSocket, loop, port, deaf>>
    BY <1>6 DEF Tick, sockVars
  <2>2. QED  BY <1>1, <2>1, SameAcceptsHere, AcceptKept
<1>7. QED  BY <1>2, <1>3, <1>4, <1>5, <1>6

\* An accepted connection: its packet is taken, and AcceptEx is called again when
\* it has been admitted or refused.
LEMMA AcceptingAccepts ==
    ASSUME Accepts, Typed',
           \/ AcceptCompleted \/ RefuseFull \/ RefuseNoAddress
           \/ \E k \in Keys : Admit(k) \/ RefuseNotAssociated(k)
    PROVE  OneAccept'
<1>1. port \in Seq(Packet) /\ OneAccept
  BY DEF Accepts, Safe, Typed, TypeOK, SockTypeOK
<1>2. CASE AcceptCompleted
  <2>1. /\ port # <<>> /\ IsAccept(1) /\ 1 \in DOMAIN port
        /\ port' = Tail(port) /\ loop'.admit
        /\ UNCHANGED <<accepting, acceptSocket, deaf>>
    BY <1>1, <1>2 DEF AcceptCompleted, Gets, TakePacket, TimeoutCheck, IsAccept
  <2>2. \A i \in DOMAIN port' : ~IsAccept(i)'
    <3>1. ASSUME NEW i \in DOMAIN port', IsAccept(i)'
          PROVE  FALSE
      <4>1. i + 1 \in DOMAIN port /\ port'[i] = port[i + 1] /\ i + 1 # 1
        BY <1>1, <2>1
      <4>2. IsAccept(i + 1)
        BY <3>1, <4>1 DEF IsAccept
      <4>3. QED  BY <1>1, <2>1, <4>1, <4>2 DEF OneAccept
    <3>2. QED  BY <3>1
  <2>3. accepting = INVALID_SOCKET /\ ~deaf
    BY <1>1, <2>1 DEF OneAccept
  <2>4. QED  BY <2>1, <2>2, <2>3 DEF OneAccept
<1>3. ASSUME Admission, NEW kept, ScheduleAccept(kept), UNCHANGED <<port, deaf>>
      PROVE  OneAccept'
  <2>1. loop.admit /\ loop' = Idle /\ accepting' = acceptSocket' /\ ~deaf'
    BY <1>1, <1>3 DEF Admission, ScheduleAccept, OneAccept
  <2>2. \A i \in DOMAIN port' : ~IsAccept(i)'
    BY <1>1, <1>3, <2>1 DEF OneAccept, IsAccept
  <2>3. QED  BY <2>1, <2>2 DEF OneAccept, Idle
<1>4. CASE RefuseFull \/ RefuseNoAddress \/ \E k \in Keys : RefuseNotAssociated(k)
  BY <1>3, <1>4 DEF RefuseFull, RefuseNoAddress, RefuseNotAssociated, Refuse
<1>5. ASSUME NEW k \in Keys, Admit(k) PROVE OneAccept'
  BY <1>3, <1>5 DEF Admit
<1>6. QED  BY <1>2, <1>4, <1>5

\* Freeing a slot: where CreateIoCompletionPort failed, the slot may hold the
\* handle that AcceptEx waits on, and closing it ends the AcceptEx for good.
LEMMA CancelledAccepts ==
    ASSUME Accepts, Typed', Cancelled
    PROVE  OneAccept'
<1> DEFINE k == Head(port).key
           s == clients[k].socket
<1>1. port \in Seq(Packet) /\ port' \in Seq(Packet) /\ OneAccept /\ Typed
  BY DEF Accepts, Safe, Typed, TypeOK, SockTypeOK
<1>2. Gets("cancel") /\ port # <<>> /\ Head(port).op = "cancel" /\ UNCHANGED <<acceptSocket, loop>>
  BY DEF Cancelled, Gets
<1>3. k \in Keys
  BY <1>1, <1>2, HeadOfPort
<1>4. SameAccepts(port', 1)
  <2>1. CASE s = INVALID_SOCKET
    <3>1. port' = Tail(port)
      BY <2>1, Zenon DEF Cancelled
    <3>2. QED  BY <1>1, <1>2, <3>1, TailAccepts
  <2>2. CASE s # INVALID_SOCKET
    <3>1. port' = [i \in 1 .. Len(port) - 1 |->
                     [port[i + 1] EXCEPT !.stale = @ \/ port[i + 1].key = k]]
      BY <2>2, Zenon DEF Cancelled
    <3>2. SameAccepts(Tail(port), 1)
      BY <1>1, <1>2, TailAccepts
    <3>3. DOMAIN Tail(port) = 1 .. Len(port) - 1 /\ DOMAIN port' = 1 .. Len(port) - 1
      BY <1>1, <1>2, <3>1
    <3>4. \A i \in DOMAIN port' : port'[i].op = Tail(port)[i].op
      <4> SUFFICES ASSUME NEW i \in 1 .. Len(port) - 1
                   PROVE  port'[i].op = Tail(port)[i].op
        BY <3>3
      <4>1. Tail(port)[i] = port[i + 1] /\ port[i + 1] \in Packet
        BY <1>1, <1>2
      <4>2. \A p \in Packet : \A b : [p EXCEPT !.stale = b].op = p.op
        BY DEF Packet
      <4>3. port'[i] = [port[i + 1] EXCEPT !.stale = @ \/ port[i + 1].key = k]
        BY <3>1
      <4>4. QED  BY <4>1, <4>2, <4>3
    <3>5. QED  BY <3>2, <3>3, <3>4 DEF SameAccepts
  <2>3. QED  BY <2>1, <2>2
<1>5. CASE UNCHANGED accepting
  <2>1. deaf' <=> deaf
    <3>1. CASE s = INVALID_SOCKET
      BY <3>1, Zenon DEF Cancelled
    <3>2. CASE s # INVALID_SOCKET
      <4>1. closesocket(s)
        BY <3>2, Zenon DEF Cancelled
      <4>2. QED  BY <1>5, <3>2, <4>1, Zenon DEF closesocket, Close
    <3>3. QED  BY <3>1, <3>2
  <2>2. QED  BY <1>1, <1>2, <1>4, <1>5, <2>1, AcceptKept
<1>6. CASE accepting' # accepting
  <2>1. s # INVALID_SOCKET /\ closesocket(s)
    BY <1>6, Zenon DEF Cancelled
  <2>2. accepting' = INVALID_SOCKET /\ accepting = s /\ deaf'
    BY <1>6, <2>1 DEF closesocket, Close
  <2>3. acceptSocket \in Handles /\ INVALID_SOCKET \notin Handles
    BY <1>1, WinsockAssumption DEF Typed, TypeOK
  <2>4. \A i \in DOMAIN port' : ~IsAccept(i)'
    <3>1. accepting # INVALID_SOCKET
      BY <2>1, <2>2
    <3>2. \A i \in DOMAIN port : ~IsAccept(i)
      BY <1>1, <3>1 DEF OneAccept
    <3>3. QED  BY <1>4, <3>2 DEF SameAccepts, IsAccept
  <2>5. ~loop'.admit
    BY <1>1, <1>2, <2>1, <2>2 DEF OneAccept
  <2>6. QED  BY <1>1, <1>2, <2>2, <2>3, <2>4, <2>5 DEF OneAccept
<1>7. QED  BY <1>5, <1>6

\* Nobody but PeerConnects queues an accept packet.
LEMMA WorldAccepts ==
    ASSUME Accepts, Typed', UNCHANGED serverVars,
           \/ PeerConnects \/ AcceptFails \/ AbortCompletes
           \/ \E h \in Handles : Environment(h) \/ Completion(h)
    PROVE  OneAccept'
<1>1. /\ port \in Seq(Packet) /\ port' \in Seq(Packet) /\ OneAccept
      /\ UNCHANGED <<acceptSocket, loop>>
  BY DEF Accepts, Safe, Typed, TypeOK, SockTypeOK, serverVars
<1>2. CASE PeerConnects
  <2> DEFINE p == NewPacket("accept", 0, 0)
  <2>1. /\ port' = Append(port, p) /\ accepting' = INVALID_SOCKET
        /\ accepting # INVALID_SOCKET /\ UNCHANGED deaf
    BY <1>2 DEF PeerConnects
  <2>2. \A i \in DOMAIN port : ~IsAccept(i)
    BY <1>1, <2>1 DEF OneAccept
  <2>3. \A i \in DOMAIN port' : IsAccept(i)' => i = Len(port) + 1
    <3>1. \A i \in DOMAIN port' : i # Len(port) + 1 => i \in DOMAIN port /\ port'[i] = port[i]
      BY <1>1, <2>1
    <3>2. QED  BY <2>2, <3>1 DEF IsAccept
  <2>4. Len(port) + 1 \in DOMAIN port' /\ port'[Len(port) + 1] = p /\ p.op = "accept"
    <3>1. port'[Len(port) + 1] = p /\ Len(port) + 1 \in DOMAIN port'
      BY <1>1, <2>1
    <3>2. QED  BY <3>1 DEF NewPacket
  <2>5. ~loop.admit /\ ~deaf
    BY <1>1, <2>1 DEF OneAccept
  <2>6. \E i \in DOMAIN port' : IsAccept(i)'
    BY <2>4 DEF IsAccept
  <2>7. \A i, j \in DOMAIN port' : IsAccept(i)' /\ IsAccept(j)' => i = j
    BY <2>3
  <2>8. QED  BY <1>1, <2>1, <2>5, <2>6, <2>7 DEF OneAccept
<1>3. CASE AcceptFails \/ AbortCompletes
  <2>1. FailedPackets(1) \in Seq(Packet) /\ port' = port \o FailedPackets(1)
    BY <1>3, PacketsAreTyped DEF AcceptFails, AbortCompletes
  <2>2. SameAccepts(port', 0)
    BY <1>1, <2>1, FailedAccepts, SameAcceptsHere, MoreAccepts
  <2>3. CASE AbortCompletes
    BY <1>1, <2>2, <2>3, AcceptKept DEF AbortCompletes
  <2>4. CASE AcceptFails
    <3>1. accepting' = INVALID_SOCKET /\ accepting # INVALID_SOCKET /\ deaf'
      BY <2>4 DEF AcceptFails
    <3>2. \A i \in DOMAIN port : ~IsAccept(i)
      BY <1>1, <3>1 DEF OneAccept
    <3>3. \A i \in DOMAIN port' : ~IsAccept(i)'
      BY <2>2, <3>2 DEF SameAccepts, IsAccept
    <3>4. acceptSocket \in Handles /\ INVALID_SOCKET \notin Handles
      BY WinsockAssumption DEF Accepts, Safe, Typed, TypeOK
    <3>5. ~loop.admit
      BY <1>1, <3>1 DEF OneAccept
    <3>6. QED  BY <1>1, <3>1, <3>3, <3>4, <3>5 DEF OneAccept
  <2>5. QED  BY <1>3, <2>3, <2>4
<1>4. ASSUME NEW h \in Handles, Environment(h) \/ Completion(h)
      PROVE  OneAccept'
  <2>1. UNCHANGED <<accepting, deaf>>
    BY <1>4 DEF Environment, Completion, PeerSends, PeerCloses, PeerResets,
                Deliver, DeliverEof, Transmit, SendCompletes
  <2>2. CASE UNCHANGED port
    BY <1>1, <2>1, <2>2, SameAcceptsHere, AcceptKept
  <2>3. CASE \E n : \E op \in {"recv", "send"} : port' = Append(port, NewPacket(op, assoc[h], n))
    <3>1. PICK n : \E op \in {"recv", "send"} : port' = Append(port, NewPacket(op, assoc[h], n))
      BY <2>3
    <3>2. PICK op \in {"recv", "send"} : port' = Append(port, NewPacket(op, assoc[h], n))
      BY <3>1
    <3>3. NewPacket(op, assoc[h], n).op # "accept"
      BY DEF NewPacket
    <3>4. NewPacket(op, assoc[h], n) \in Packet
      <4>1. Len(port) + 1 \in DOMAIN port' /\ port'[Len(port) + 1] = NewPacket(op, assoc[h], n)
        BY <1>1, <3>2
      <4>2. QED  BY <1>1, <4>1
    <3>5. QED  BY <1>1, <2>1, <3>2, <3>3, <3>4, QueueAccepts, AcceptKept
  <2>4. QED
    BY <1>4, <2>2, <2>3 DEF Environment, Completion, PeerSends, PeerCloses, PeerResets,
                            Deliver, DeliverEof, Transmit, SendCompletes
<1>5. QED  BY <1>2, <1>3, <1>4

\* Every step of the server keeps exactly one AcceptEx going.
LEMMA NextAccepts ==
    ASSUME Accepts, [Next]_vars
    PROVE  Accepts'
<1>1. Safe'
  BY NextSafe DEF Accepts
<1>2. Typed'
  BY <1>1 DEF Safe
<1>3. OneAccept'
  <2>1. CASE Thread
    BY <1>2, <2>1, HandlersAccept, AcceptingAccepts, CancelledAccepts DEF Thread
  <2>2. CASE Tick
    BY <1>2, <2>2, HandlersAccept
  <2>3. CASE \/ PeerConnects \/ AcceptFails \/ AbortCompletes
             \/ \E h \in Handles : Environment(h) \/ Completion(h)
    <3>1. CASE UNCHANGED serverVars
      BY <1>2, <2>3, <3>1, WorldAccepts
    <3>2. CASE Thread \/ Tick
      BY <2>1, <2>2, <3>2
    <3>3. CASE UNCHANGED vars
      BY <3>1, <3>3 DEF vars
    <3>4. QED  BY <3>1, <3>2, <3>3 DEF Next
  <2>4. CASE UNCHANGED vars
    <3>1. UNCHANGED <<accepting, acceptSocket, loop, port, deaf>>
      BY <2>4 DEF vars, serverVars, sockVars
    <3>2. port \in Seq(Packet)
      BY DEF Accepts, Safe, Typed, TypeOK, SockTypeOK
    <3>3. QED  BY <1>2, <3>1, <3>2, SameAcceptsHere, AcceptKept DEF Accepts
  <2>5. QED  BY <2>1, <2>2, <2>3, <2>4 DEF Next
<1>4. QED  BY <1>1, <1>3 DEF Accepts

\* There is one AcceptEx, in flight, completed or being handled, and never two,
\* until one ends without a connection; from then on there is none.
THEOREM AcceptsOneAtATime == Spec => []OneAccept
<1>1. Init => Accepts
  <2>1. Init => OneAccept
    BY DEF Init, SockInit, OneAccept, IsAccept, Idle
  <2>2. QED  BY <2>1, InitSafe DEF Accepts
<1>2. Accepts /\ [Next]_vars => Accepts'
  BY NextAccepts
<1>3. Accepts => OneAccept
  BY DEF Accepts
<1>4. QED  BY <1>1, <1>2, <1>3, PTL DEF Spec

(***************************************************************************)
(* The event loop implements the pool of module ClientPool.                *)
(***************************************************************************)
\* Where an accepted connection is lost for another reason than a full pool, the
\* pool is not implemented: getting its address or associating it may not fail.
Orderly == Faults \cap {"sockaddr", "associate"} = {}

Unmoved == acceptSocket' = acceptSocket /\ \A k \in Keys : clients'[k].socket = clients[k].socket

\* The abstract seats, where no socket moves.
LEMMA UnmovedStutters ==
    ASSUME Unmoved
    PROVE  UNCHANGED <<acceptSocket, [k \in Keys |-> clients[k].socket]>>
  BY DEF Unmoved

\* Only an accepted connection and a freed slot move a socket.
LEMMA HandlersUnmoved ==
    ASSUME Typed,
           \/ WaitTimedOut \/ OperationFailed \/ AcceptCompleted
           \/ \E k \in Keys : ScheduleDisconnect(k)
           \/ ReceiveEnd \/ ReceivePartial \/ ReceiveKeyRequest \/ ReceiveRequest
           \/ ReceiveUnknown \/ SendPartial \/ SendDone \/ Tick
    PROVE  Unmoved
<1>1. CASE \/ WaitTimedOut \/ OperationFailed \/ AcceptCompleted
           \/ \E k \in Keys : ScheduleDisconnect(k)
  BY <1>1 DEF WaitTimedOut, OperationFailed, AcceptCompleted, ScheduleDisconnect, Unmoved
<1>2. clients \in [Keys -> Client]
  BY DEF Typed, TypeOK
<1>3. CASE ReceiveEnd
  <2>1. UNCHANGED acceptSocket /\ clients' = [clients EXCEPT ![Head(port).key].age = 0]
    BY <1>3, Zenon DEF ReceiveEnd
  <2>2. QED  BY <1>2, <2>1 DEF Client, Unmoved
<1>4. CASE ReceivePartial \/ ReceiveKeyRequest \/ ReceiveRequest \/ ReceiveUnknown
  <2> DEFINE k == Head(port).key
             m == recvBuf[k].head
  <2>1. PICK kind : Receive(kind)
    BY <1>4 DEF ReceivePartial, ReceiveKeyRequest, ReceiveRequest, ReceiveUnknown
  <2>2. UNCHANGED acceptSocket
    BY <2>1 DEF Receive
  <2>3. k \in Keys /\ clients[k] \in Client /\ m.reply \in Nat
    BY <2>1, ReceiveTyped
  <2>4. CASE ReceivePartial
    <3>1. clients' = [clients EXCEPT ![k] = Received(k, Head(port).n)]
      BY <2>4, Zenon DEF ReceivePartial
    <3>2. Received(k, Head(port).n).socket = clients[k].socket
      BY <2>3 DEF Received, Client
    <3>3. QED  BY <1>2, <2>2, <3>1, <3>2 DEF Unmoved
  <2>5. CASE ReceiveKeyRequest
    <3>1. clients' = Emptied([clients EXCEPT ![k] = Answering(clients[k], m)], clients[k].id)
      BY <2>5, Zenon DEF ReceiveKeyRequest
    <3>2. QED  BY <2>2, <2>3, <3>1, AnsweringTyped, ReadAnewTyped DEF Typed, Unmoved
  <2>6. CASE ReceiveRequest
    <3>1. clients' = [clients EXCEPT ![k] = Answering(clients[k], m)]
      BY <2>6, Zenon DEF ReceiveRequest
    <3>2. QED  BY <2>2, <2>3, <3>1, AnsweringTyped DEF Unmoved
  <2>7. CASE ReceiveUnknown
    <3>1. clients' = [clients EXCEPT ![k] = [clients[k] EXCEPT !.age = 0, !.recvBufSize = 0]]
      BY <2>7, Zenon DEF ReceiveUnknown
    <3>2. QED  BY <1>2, <2>2, <2>3, <3>1 DEF Client, Unmoved
  <2>8. QED  BY <1>4, <2>4, <2>5, <2>6, <2>7
<1>5. CASE SendPartial \/ SendDone
  <2> DEFINE k == Head(port).key
             u == Unsent(k, Head(port).n)
             cs == [clients EXCEPT ![k].unsent = u]
  <2>1. Send /\ UNCHANGED acceptSocket
    BY <1>5 DEF SendPartial, SendDone, Send
  <2>2. k \in Keys /\ Head(port).n \in Nat /\ clients[k] \in Client
    BY <2>1, HeadOfPort DEF Send
  <2>3. cs \in [Keys -> Client] /\ \A j \in Keys : cs[j].socket = clients[j].socket
    <3>1. u \in Int
      BY <2>2 DEF Unsent, Client
    <3>2. QED  BY <1>2, <2>2, <3>1 DEF Client
  <2>4. clients' = cs \/ clients' = Emptied(cs, clients[k].id)
    BY <1>5, Zenon DEF SendPartial, SendDone
  <2>5. \A j \in Keys : Emptied(cs, clients[k].id)[j].socket = cs[j].socket
    BY <2>3, ReadAnewTyped DEF Typed
  <2>6. QED  BY <2>1, <2>3, <2>4, <2>5 DEF Unmoved
<1>6. CASE Tick
  <2>1. UNCHANGED acceptSocket
    BY <1>6 DEF Tick
  <2>2. \A k \in Keys : clients'[k].socket = clients[k].socket
    BY <1>2, <1>6 DEF Tick, Client
  <2>3. QED  BY <2>1, <2>2 DEF Unmoved
<1>7. QED  BY <1>1, <1>3, <1>4, <1>5, <1>6

\* Where CreateIoCompletionPort does not fail, no slot ever keeps a closed socket.
LEMMA NeverLeaks == Orderly => (Spec => []NoLeak)
<1> SUFFICES ASSUME Orderly PROVE Spec => []NoLeak
  OBVIOUS
<1>1. Init => NoLeak
  BY Zenon DEF Init, NoLeak
<1>2. NoLeak /\ [Next]_vars => NoLeak'
  <2> SUFFICES ASSUME NoLeak, [Next]_vars PROVE NoLeak'
    OBVIOUS
  <2>1. \A k \in Keys : ~RefuseNotAssociated(k)
    BY DEF RefuseNotAssociated, Orderly
  <2>2. UNCHANGED leaked
    BY <2>1, LeakKept
  <2>3. QED  BY <2>2 DEF NoLeak
<1>3. QED  BY <1>1, <1>2, PTL DEF Spec

\* The server keeps the promises of the pool: whoever connects while a slot is
\* free is served, in one slot only, until that slot is freed.
THEOREM PoolImplemented == Orderly => (Spec => ImplementsPool)
<1> SUFFICES ASSUME Orderly PROVE Spec => ImplementsPool
  OBVIOUS
<1> DEFINE sockets == [k \in Keys |-> clients[k].socket]
<1>1. Init => Pool!Init
  <2> SUFFICES ASSUME Init PROVE Pool!Init
    OBVIOUS
  <2>1. acceptSocket \in Handles /\ sockets = [k \in Keys |-> INVALID_SOCKET]
    BY DEF Init, FreeClient
  <2>2. QED  BY <2>1 DEF Pool!Init, Keys
<1>2. Safe /\ NoLeak /\ [Next]_vars => [Pool!Next]_<<acceptSocket, sockets>>
  <2> SUFFICES ASSUME Safe, NoLeak, [Next]_vars
               PROVE  [Pool!Next]_<<acceptSocket, sockets>>
    OBVIOUS
  <2>1. Typed /\ Belonging
    BY DEF Safe
  <2>2. Pool!Seated \subseteq open \ {acceptSocket}
    BY <2>1 DEF Pool!Seated, Keys, Belonging, Owned, FreeKeys, Occupied
  <2>3. ASSUME NEW k \in Keys, Admit(k)
        PROVE  Pool!Next
    <3>1. /\ ~Occupied(k) /\ clients' = [clients EXCEPT ![k] = Slot(k)]
          /\ \E s \in Handles \ open : acceptSocket' = s
      BY <2>3 DEF Admit, First, FreeKeys, ScheduleAccept
    <3>2. Pool!Free(k)
      BY <3>1 DEF Pool!Free, Occupied
    <3>3. sockets' = [sockets EXCEPT ![k] = acceptSocket]
      BY <2>1, <3>1 DEF Slot, Typed, TypeOK, Client
    <3>4. acceptSocket' \in Handles \ (Pool!Seated \cup {acceptSocket})
      BY <2>1, <2>2, <3>1 DEF Belonging, Owned
    <3>5. QED  BY <3>2, <3>3, <3>4 DEF Pool!Next, Pool!Seat, Keys
  <2>4. CASE RefuseFull
    <3>1. /\ FreeKeys = {} /\ UNCHANGED clients
          /\ \E s \in Handles \ (open \ {acceptSocket}) : acceptSocket' = s
      BY <2>4 DEF RefuseFull, Refuse, ScheduleAccept
    <3>2. \A k \in Keys : ~Pool!Free(k)
      BY <3>1 DEF Pool!Free, FreeKeys, Occupied
    <3>3. acceptSocket' \in Handles \ Pool!Seated
      BY <2>2, <3>1
    <3>4. QED  BY <3>1, <3>2, <3>3 DEF Pool!Next, Pool!TurnAway, Keys
  <2>5. CASE Cancelled
    <3> DEFINE k == Head(port).key
               s == clients[k].socket
    <3>1. UNCHANGED acceptSocket /\ k \in Keys
      <4>1. Gets("cancel")
        BY <2>5 DEF Cancelled
      <4>2. QED  BY <2>1, <2>5, <4>1, HeadOfPort DEF Cancelled
    <3>2. CASE s = INVALID_SOCKET
      BY <2>5, <3>1, <3>2, Zenon DEF Cancelled
    <3>3. CASE s # INVALID_SOCKET
      <4>1. clients' = [clients EXCEPT ![k] = FreeClient]
        BY <2>5, <3>3, Zenon DEF Cancelled
      <4>2. sockets' = [sockets EXCEPT ![k] = INVALID_SOCKET]
        BY <2>1, <3>1, <4>1 DEF FreeClient, Typed, TypeOK
      <4>3. ~Pool!Free(k)
        BY <3>1, <3>3 DEF Pool!Free
      <4>4. QED  BY <3>1, <4>2, <4>3 DEF Pool!Next, Pool!Leave, Keys
    <3>4. QED  BY <3>2, <3>3
  <2>6. CASE \/ WaitTimedOut \/ OperationFailed \/ AcceptCompleted
             \/ \E k \in Keys : ScheduleDisconnect(k)
             \/ ReceiveEnd \/ ReceivePartial \/ ReceiveKeyRequest \/ ReceiveRequest
             \/ ReceiveUnknown \/ SendPartial \/ SendDone \/ Tick
    BY <2>1, <2>6, HandlersUnmoved, UnmovedStutters
  <2>7. CASE UNCHANGED <<clients, acceptSocket>>
    BY <2>7
  <2>8. CASE RefuseNoAddress \/ \E k \in Keys : RefuseNotAssociated(k)
    BY <2>8 DEF RefuseNoAddress, RefuseNotAssociated, Orderly
  <2>9. QED
    BY <2>3, <2>4, <2>5, <2>6, <2>7, <2>8 DEF Next, Thread, vars, serverVars
<1>3. QED  BY <1>1, <1>2, AlwaysSafe, NeverLeaks, PTL DEF Spec, ImplementsPool, Pool!Spec
=============================================================================
