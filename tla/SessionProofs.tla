----------------------------- MODULE SessionProofs -----------------------------
(***************************************************************************)
(* Theorems about a user and the server together, for every number of      *)
(* slots, any messages, timeout and faults: what is shown of the server    *)
(* holds of a server the session talks to, both ends use the same key,     *)
(* the two timeouts agree, and a command runs at most once.                *)
(***************************************************************************)
EXTENDS Session, StreamProofs

(***************************************************************************)
(* The key comes first.                                                    *)
(***************************************************************************)
\* Before a peer has its key, nothing is sent to it and it sends no request.
PeersKeyed ==
    \A h \in Handles : peer[h].key = NoKey =>
        writes[h] = <<>> /\ peer[h].msg.kind # "request"

\* Only the buffer of a client that has its key holds a request, and only a slot
\* whose client has it, or is gone, has anything left to send.
SlotsKeyed ==
    \A k \in Keys :
        /\ recvBuf[k].head.kind = "request" =>
             Occupied(k) /\ peer[clients[k].socket].key # NoKey
        /\ ~Occupied(k) => recvBuf[k].head = NoMessage
        /\ clients[k].unsent > 0 =>
             /\ Occupied(k)
             /\ peer[clients[k].socket].key = NoKey => ~Usable(clients[k].socket)

KeyFirst == PeersKeyed /\ SlotsKeyed

\* What the steps below start from: association has not failed.
Sound == Accepts /\ Belonging /\ KeyFirst

\* Sound, one slot or one peer at a time.
LEMMA SoundMeans ==
    ASSUME Sound
    PROVE  /\ Typed /\ Belonging /\ peer \in [Handles -> Peer] /\ writes \in [Handles -> Seq(Write)]
           /\ clients \in [Keys -> Client] /\ recvBuf \in [Keys -> Buffer]
           /\ \A k \in Keys : Occupied(k) => clients[k].socket \in Handles \cap open
           /\ \A k \in Keys : clients[k].unsent \in Int
<1>1. Typed /\ Belonging
  BY DEF Sound, Accepts, Safe
<1>2. \A k \in Keys : Occupied(k) => clients[k].socket \in Handles \cap open
  BY <1>1, OwnedSockets DEF Belonging
<1>3. QED  BY <1>1, <1>2 DEF Typed, TypeOK, SockTypeOK, Client

\* A step that leaves the peers and the buffers alone and starts no write.
LEMMA KeyFirstQuiet ==
    ASSUME Sound, UNCHANGED <<peer, recvBuf, open>>,
           \A h \in Handles : writes[h] = <<>> => writes'[h] = <<>>,
           \A k \in Keys : /\ clients'[k].socket = clients[k].socket
                           /\ clients'[k].unsent \in Int
                           /\ clients'[k].unsent <= clients[k].unsent
    PROVE  KeyFirst'
<1>1. PeersKeyed'
  BY DEF Sound, KeyFirst, PeersKeyed
<1>2. \A k \in Keys : clients'[k].unsent > 0 => clients[k].unsent > 0
  BY SoundMeans
<1>3. SlotsKeyed'
  BY <1>2 DEF Sound, KeyFirst, SlotsKeyed, Occupied, Usable
<1>4. QED  BY <1>1, <1>3 DEF KeyFirst

\* The steps of the event loop that take no part in a conversation.
LEMMA IdleStepsKeyed ==
    ASSUME Sound,
           \/ WaitTimedOut \/ OperationFailed \/ AcceptCompleted \/ ReceiveEnd
           \/ ReceivePartial \/ ReceiveUnknown \/ Tick
           \/ \E k \in Keys : ScheduleDisconnect(k)
           \/ (AcceptFails \/ AbortCompletes) /\ UNCHANGED serverVars
    PROVE  KeyFirst'
<1> USE SoundMeans
<1>1. CASE WaitTimedOut \/ OperationFailed \/ AcceptCompleted
           \/ ((AcceptFails \/ AbortCompletes) /\ UNCHANGED serverVars)
  <2>1. UNCHANGED <<peer, recvBuf, open, writes, clients>>
    BY <1>1 DEF WaitTimedOut, OperationFailed, AcceptCompleted, AcceptFails,
       AbortCompletes, sockVars, serverVars
  <2>2. QED  BY <2>1, KeyFirstQuiet
<1>2. ASSUME NEW k \in Keys, ScheduleDisconnect(k) PROVE KeyFirst'
  <2>1. UNCHANGED <<peer, recvBuf, open, clients>>
    BY <1>2 DEF ScheduleDisconnect
  <2>2. \A h \in Handles : writes'[h] \in {writes[h], <<>>}
    BY <1>2 DEF ScheduleDisconnect, CancelIo
  <2>3. QED  BY <2>1, <2>2, KeyFirstQuiet
<1>3. CASE ReceiveEnd
  <2> DEFINE k == Head(port).key
  <2>1. /\ UNCHANGED <<peer, recvBuf, open>>
        /\ clients' = [clients EXCEPT ![k].age = 0]
        /\ \E p : CancelIo(clients[k].socket, Tail(port), <<p>>)
    BY <1>3, Zenon DEF ReceiveEnd
  <2>2. \A h \in Handles : writes'[h] \in {writes[h], <<>>}
    BY <2>1 DEF CancelIo
  <2>3. \A j \in Keys : /\ clients'[j].socket = clients[j].socket
                        /\ clients'[j].unsent = clients[j].unsent
    BY <2>1 DEF Client
  <2>4. QED  BY <2>1, <2>2, <2>3, KeyFirstQuiet
<1>4. CASE ReceivePartial
  <2> DEFINE k == Head(port).key
  <2>1. /\ UNCHANGED <<peer, recvBuf, open, writes>>
        /\ clients' = [clients EXCEPT ![k] = Received(k, Head(port).n)]
        /\ Receive("partial")
    BY <1>4, Zenon DEF ReceivePartial, Receive
  <2>2. k \in Keys
    BY <2>1, ReceiveTyped
  <2>3. Received(k, Head(port).n).socket = clients[k].socket
        /\ Received(k, Head(port).n).unsent = clients[k].unsent
    BY <2>2 DEF Received, Client
  <2>4. \A j \in Keys : /\ clients'[j].socket = clients[j].socket
                        /\ clients'[j].unsent = clients[j].unsent
    BY <2>1, <2>2, <2>3
  <2>5. QED  BY <2>1, <2>4, KeyFirstQuiet
<1>5. CASE ReceiveUnknown
  <2> DEFINE k == Head(port).key
  <2>1. /\ UNCHANGED <<peer, recvBuf, open, writes>>
        /\ clients' = [clients EXCEPT ![k] = [clients[k] EXCEPT !.age = 0, !.recvBufSize = 0]]
    BY <1>5, Zenon DEF ReceiveUnknown, Receive
  <2>2. \A j \in Keys : /\ clients'[j].socket = clients[j].socket
                        /\ clients'[j].unsent = clients[j].unsent
    BY <2>1 DEF Client
  <2>3. QED  BY <2>1, <2>2, KeyFirstQuiet
<1>6. CASE Tick
  <2>1. UNCHANGED <<peer, recvBuf, open, writes>>
    BY <1>6 DEF Tick, sockVars
  <2>2. \A j \in Keys : /\ clients'[j].socket = clients[j].socket
                        /\ clients'[j].unsent = clients[j].unsent
    BY <1>6 DEF Tick, Client
  <2>3. QED  BY <2>1, <2>2, KeyFirstQuiet
<1>7. QED  BY <1>1, <1>2, <1>3, <1>4, <1>5, <1>6

\* A write is started for the client of a slot, which has its key by then.
LEMMA KeyFirstWriting ==
    ASSUME Sound, NEW k \in Keys, NEW n, NEW first, WSASend(clients[k].socket, n, first), Occupied(k),
           UNCHANGED <<recvBuf, open>>,
           \A j \in Keys : clients'[j].socket = clients[j].socket,
           \A j \in Keys \ {k} : clients'[j].unsent = clients[j].unsent,
           \A h \in Handles : /\ peer'[h].st = peer[h].st /\ peer'[h].msg = peer[h].msg
                              /\ peer'[h].key = NoKey => peer[h].key = NoKey,
           peer'[clients[k].socket].key = NoKey => ~Usable(clients[k].socket)
    PROVE  KeyFirst'
<1> DEFINE s == clients[k].socket
<1>1. s \in Handles /\ \A h \in Handles : Usable(h)' <=> Usable(h)
  BY SoundMeans DEF Usable
<1>2. \A h \in Handles : peer'[h].key = NoKey => writes'[h] = writes[h]
  BY SoundMeans DEF WSASend
<1>3. PeersKeyed'
  BY <1>2 DEF Sound, KeyFirst, PeersKeyed
<1>4. \A j \in Keys : Occupied(j)' <=> Occupied(j)
  BY DEF Occupied
<1>5. SlotsKeyed'
  <2>1. ASSUME NEW j \in Keys
        PROVE  /\ recvBuf[j].head.kind = "request" =>
                    Occupied(j) /\ peer'[clients[j].socket].key # NoKey
               /\ ~Occupied(j) => recvBuf[j].head = NoMessage
               /\ clients'[j].unsent > 0 =>
                    /\ Occupied(j)
                    /\ peer'[clients[j].socket].key = NoKey => ~Usable(clients[j].socket)'
    <3>1. SlotsKeyed
      BY DEF Sound, KeyFirst
    <3>2. CASE ~Occupied(j)
      BY <3>1, <3>2 DEF SlotsKeyed
    <3>3. CASE Occupied(j)
      BY <1>1, <3>1, <3>3, SoundMeans DEF SlotsKeyed
    <3>4. QED  BY <3>2, <3>3
  <2>2. QED  BY <1>4, <2>1 DEF SlotsKeyed, Usable
<1>6. QED  BY <1>3, <1>5 DEF KeyFirst

\* The handlers that answer, and those that go on sending.
LEMMA AnswersKeyed ==
    ASSUME Sound, ReceiveKeyRequest \/ ReceiveRequest \/ SendPartial \/ SendDone
    PROVE  KeyFirst'
<1> DEFINE k == Head(port).key
           s == clients[k].socket
           m == recvBuf[k].head
<1> USE SoundMeans
<1>1. SlotsKeyed
  BY DEF Sound, KeyFirst
<1>2. \A h \in Handles : peer[h] \in Peer
  OBVIOUS
<1>3. CASE ReceiveKeyRequest
  <2> DEFINE cs == [clients EXCEPT ![k] = Answering(clients[k], m)]
  <2>1. Receive("key") /\ m.kind = "key"
    BY <1>3 DEF ReceiveKeyRequest, Receive
  <2>2. /\ k \in Keys /\ m.reply \in Nat /\ clients[k] \in Client
    BY <2>1, ReceiveTyped
  <2>3. /\ clients' = Emptied(cs, clients[k].id)
        /\ WSASend(s, m.reply, TRUE)
        /\ peer' = IF Usable(s) THEN [peer EXCEPT ![s].key = symKeys[clients[k].id]] ELSE peer
        /\ UNCHANGED <<recvBuf, open>>
    BY <1>3, Zenon DEF ReceiveKeyRequest, Receive
  <2>4. Occupied(k)
    BY <1>1, <2>1, <2>2 DEF SlotsKeyed, NoMessage
  <2>5. symKeys[clients[k].id] = s /\ s \in Handles /\ s # NoKey
    BY <2>2, <2>4, WinsockAssumption DEF Typed, Numbered, Belonging, Keyed
  <2>6. \A h \in Handles : /\ peer'[h].st = peer[h].st /\ peer'[h].msg = peer[h].msg
                           /\ peer'[h].key = NoKey => peer[h].key = NoKey
    BY <1>2, <2>3, <2>5 DEF Peer
  <2>7. peer'[s].key = NoKey => ~Usable(s)
    BY <1>2, <2>3, <2>5 DEF Peer
  <2>8. \A j \in Keys : clients'[j].socket = clients[j].socket
    <3>1. /\ cs \in [Keys -> Client]
          /\ \A j \in Keys : cs[j].socket = clients[j].socket
      BY <2>2, AnsweringTyped
    <3>2. TypeOK
      BY DEF Typed
    <3> HIDE DEF cs
    <3>3. QED  BY <2>3, <3>1, <3>2, ReadAnewTyped
  <2>9. \A j \in Keys \ {k} : clients'[j].unsent = clients[j].unsent
    <3> HIDE DEF k
    <3>1. ASSUME NEW j \in Keys, j # k PROVE clients'[j].unsent = clients[j].unsent
      <4>1. cs[j] = clients[j] /\ clients[j] \in Client
        BY <3>1
      <4>2. clients'[j] \in {clients[j], [clients[j] EXCEPT !.recvBufSize = 0]}
        BY <2>3, <4>1, Zenon DEF Emptied
      <4>3. QED  BY <4>1, <4>2 DEF Client
    <3>2. QED  BY <3>1
  <2> HIDE DEF k, s, m
  <2>10. QED  BY <2>2, <2>3, <2>4, <2>6, <2>7, <2>8, <2>9, KeyFirstWriting DEF s
<1>4. CASE ReceiveRequest
  <2>1. Receive("request") /\ m.kind = "request"
    BY <1>4 DEF ReceiveRequest, Receive
  <2>2. k \in Keys
    BY <2>1, ReceiveTyped
  <2>3. /\ clients' = [clients EXCEPT ![k] = Answering(clients[k], m)]
        /\ WSASend(s, m.reply, TRUE)
        /\ UNCHANGED <<recvBuf, open, peer>>
    BY <1>4, Zenon DEF ReceiveRequest, Receive
  <2>4. Occupied(k) /\ peer[s].key # NoKey
    BY <1>1, <2>1, <2>2 DEF SlotsKeyed
  <2>5. \A j \in Keys : /\ clients'[j].socket = clients[j].socket
                        /\ j # k => clients'[j].unsent = clients[j].unsent
    BY <2>3 DEF Answering, Client
  <2> HIDE DEF k, s, m
  <2>6. QED  BY <2>2, <2>3, <2>4, <2>5, KeyFirstWriting DEF s
<1>5. CASE SendPartial \/ SendDone
  <2> DEFINE u == Unsent(k, Head(port).n)
             cs == [clients EXCEPT ![k].unsent = u]
  <2>1. Send
    BY <1>5 DEF SendPartial, SendDone
  <2>2. k \in Keys /\ Head(port).n \in Nat /\ clients[k].unsent \in Int
    BY <2>1, HeadOfPort DEF Send
  <2>3. UNCHANGED <<recvBuf, open, peer>> /\ u \in Int /\ u <= clients[k].unsent
    BY <2>1, <2>2 DEF Send, Unsent
  <2>4. \A j \in Keys : /\ cs[j].socket = clients[j].socket
                        /\ cs[j].unsent = IF j = k THEN u ELSE clients[j].unsent
    BY <2>3 DEF Client
  <2>5. CASE SendPartial
    <3>1. u > 0 /\ clients' = cs /\ WSASend(s, u, FALSE)
      BY <2>5, Zenon DEF SendPartial
    <3>2. /\ Occupied(k)
          /\ peer[s].key = NoKey => ~Usable(s)
      BY <1>1, <2>2, <2>3, <3>1 DEF SlotsKeyed
    <3> HIDE DEF k, s, m, u, cs
    <3>3. QED  BY <2>2, <2>3, <2>4, <3>1, <3>2, KeyFirstWriting DEF s
  <2>6. CASE SendDone
    <3>1. clients' = Emptied(cs, clients[k].id) /\ UNCHANGED writes
      BY <2>6, Zenon DEF SendDone
    <3>2. \A j \in Keys : clients'[j].socket = cs[j].socket /\ clients'[j].unsent = cs[j].unsent
      <4>1. cs \in [Keys -> Client]
        BY <2>3 DEF Client
      <4> HIDE DEF cs
      <4>2. QED  BY <3>1, <4>1 DEF Emptied, Client
    <3> HIDE DEF k, s, m, u, cs
    <3>3. QED  BY <2>2, <2>3, <2>4, <3>1, <3>2, KeyFirstQuiet
  <2>7. QED  BY <1>5, <2>5, <2>6
<1>6. QED  BY <1>3, <1>4, <1>5

\* A connection is taken into a free slot, which has nothing left to send; or it
\* is turned away, and nothing was ever sent to it.
LEMMA AdmissionKeyed ==
    ASSUME Sound, (\E k \in Keys : Admit(k)) \/ RefuseFull \/ RefuseNoAddress
    PROVE  KeyFirst'
<1> DEFINE a == acceptSocket
<1> USE SoundMeans
<1>1. PeersKeyed /\ SlotsKeyed
  BY DEF Sound, KeyFirst
<1>2. \A k \in Keys : clients[k].socket # a
  BY DEF Belonging, Owned
<1>3. ASSUME NEW k \in Keys, Admit(k) PROVE KeyFirst'
  <2>1. /\ clients' = [clients EXCEPT ![k] = Slot(k)] /\ ~Occupied(k)
        /\ UNCHANGED <<writes, peer, recvBuf>>
        /\ open \subseteq open'
    BY <1>3 DEF Admit, First, FreeKeys, ScheduleAccept
  <2>2. Slot(k).socket = a /\ Slot(k).unsent = clients[k].unsent
    BY DEF Slot, Client
  <2>3. /\ \A j \in Keys : clients'[j].unsent = clients[j].unsent
        /\ \A j \in Keys \ {k} : clients'[j] = clients[j]
        /\ clients'[k].socket = a
    BY <2>1, <2>2
  <2>4. \A j \in Keys : Occupied(j) => Occupied(j)' /\ j # k
    BY <2>1, <2>3 DEF Occupied
  <2>5. \A j \in Keys : Occupied(j) => (Usable(clients[j].socket) <=> Usable(clients[j].socket)')
    BY <2>1, <2>3, <2>4 DEF Usable
  <2>6. ASSUME NEW j \in Keys
        PROVE  /\ recvBuf[j].head.kind = "request" =>
                    Occupied(j)' /\ peer[clients'[j].socket].key # NoKey
               /\ ~Occupied(j)' => recvBuf[j].head = NoMessage
               /\ clients'[j].unsent > 0 =>
                    /\ Occupied(j)'
                    /\ peer[clients'[j].socket].key = NoKey => ~Usable(clients[j].socket)'
    <3>1. CASE Occupied(j)
      BY <1>1, <2>3, <2>4, <2>5, <3>1 DEF SlotsKeyed
    <3>2. CASE ~Occupied(j)
      BY <1>1, <2>3, <2>4, <3>2 DEF SlotsKeyed, NoMessage
    <3>3. QED  BY <3>1, <3>2
  <2>7. QED  BY <1>1, <2>1, <2>6 DEF KeyFirst, PeersKeyed, SlotsKeyed
<1>4. CASE RefuseFull \/ RefuseNoAddress
  <2>1. /\ peer' = [peer EXCEPT ![a] = Nobody]
        /\ UNCHANGED <<writes, recvBuf>>
        /\ open \ {a} \subseteq open'
    BY <1>4 DEF RefuseFull, RefuseNoAddress, Refuse, ScheduleAccept
  <2>2. \A j \in Keys : clients'[j].socket = clients[j].socket /\ clients'[j].unsent = clients[j].unsent
    <3>2. CASE RefuseFull
      BY <3>2 DEF RefuseFull
    <3>3. CASE RefuseNoAddress
      <4>1. clients' = [k \in Keys |->
              IF Occupied(k) THEN clients[k]
              ELSE [clients[k] EXCEPT !.id = Number(k), !.age = 0]]
        BY <3>3, Zenon DEF RefuseNoAddress
      <4>2. ASSUME NEW j \in Keys
            PROVE  clients'[j] = clients[j] \/ clients'[j] = [clients[j] EXCEPT !.id = Number(j), !.age = 0]
        BY <4>1, Zenon
      <4>3. ASSUME NEW j \in Keys
            PROVE  clients'[j].socket = clients[j].socket /\ clients'[j].unsent = clients[j].unsent
        <5>1. clients[j] \in Client
          OBVIOUS
        <5>2. QED  BY <4>2, <5>1 DEF Client
      <4>4. QED  BY <4>3
    <3>4. QED  BY <1>4, <3>2, <3>3
  <2>3. writes[a] = <<>> /\ Nobody.msg.kind # "request"
    BY <1>2 DEF Typed, TypeOK, Belonging, Unused, Stranger, Nobody, NoMessage
  <2>4. PeersKeyed'
    BY <1>1, <2>1, <2>3 DEF PeersKeyed
  <2>5. SlotsKeyed'
    <3>1. \A j \in Keys : Occupied(j)' <=> Occupied(j)
      BY <2>2 DEF Occupied
    <3>2. ASSUME NEW j \in Keys, Occupied(j)
          PROVE  /\ peer'[clients'[j].socket] = peer[clients[j].socket]
                 /\ Usable(clients[j].socket)' <=> Usable(clients[j].socket)
      BY <1>2, <2>1, <2>2, <3>2 DEF Usable
    <3>3. ASSUME NEW j \in Keys
          PROVE  /\ recvBuf[j].head.kind = "request" =>
                      Occupied(j) /\ peer'[clients'[j].socket].key # NoKey
                 /\ ~Occupied(j) => recvBuf[j].head = NoMessage
                 /\ clients'[j].unsent > 0 =>
                      /\ Occupied(j)
                      /\ peer'[clients'[j].socket].key = NoKey => ~Usable(clients[j].socket)'
      <4>1. CASE Occupied(j)
        BY <1>1, <2>2, <3>2, <4>1 DEF SlotsKeyed
      <4>2. CASE ~Occupied(j)
        BY <1>1, <2>2, <4>2 DEF SlotsKeyed
      <4>3. QED  BY <4>1, <4>2
    <3>4. QED  BY <2>1, <3>1, <3>3 DEF SlotsKeyed
  <2>6. QED  BY <2>4, <2>5 DEF KeyFirst
<1>5. QED  BY <1>3, <1>4

\* A slot that is freed is left without a message and without an answer.
LEMMA CancelledKeyed ==
    ASSUME Sound, Cancelled
    PROVE  KeyFirst'
<1> DEFINE k == Head(port).key
           s == clients[k].socket
<1> USE SoundMeans
<1>1. PeersKeyed /\ SlotsKeyed
  BY DEF Sound, KeyFirst
<1>2. k \in Keys
  <2>1. Gets("cancel")
    BY DEF Cancelled
  <2>2. QED  BY <2>1, HeadOfPort
<1>3. CASE s = INVALID_SOCKET
  <2>1. UNCHANGED <<open, writes, peer, recvBuf, clients>>
    BY <1>3, Zenon DEF Cancelled
  <2>2. QED  BY <2>1, KeyFirstQuiet
<1>4. CASE s # INVALID_SOCKET
  <2>1. s \in open /\ s \in Handles /\ Occupied(k)
    BY <1>2, <1>4 DEF Occupied
  <2>2. /\ open' = open \ {s}
        /\ peer' = [peer EXCEPT ![s] = Nobody]
        /\ writes' = [writes EXCEPT ![s] = <<>>]
        /\ clients' = [clients EXCEPT ![k] = FreeClient]
        /\ recvBuf' = [recvBuf EXCEPT ![k] = Zeroed]
    BY <1>4, <2>1, Zenon DEF Cancelled, closesocket, Close
  <2>3. PeersKeyed'
    BY <1>1, <2>1, <2>2 DEF PeersKeyed, Nobody, NoMessage
  <2>4. \A j \in Keys \ {k} : Occupied(j) => clients[j].socket # s
    BY <1>2, <2>1 DEF Belonging, Owned
  <2>5. SlotsKeyed'
    <3>1. ASSUME NEW j \in Keys, j # k
          PROVE  /\ clients'[j] = clients[j] /\ recvBuf'[j] = recvBuf[j]
                 /\ Occupied(j)' <=> Occupied(j)
                 /\ Occupied(j) => /\ peer'[clients[j].socket] = peer[clients[j].socket]
                                   /\ Usable(clients[j].socket)' <=> Usable(clients[j].socket)
      BY <2>2, <2>4, <3>1 DEF Occupied, Usable
    <3>2. ASSUME NEW j \in Keys, j = k
          PROVE  ~Occupied(j)' /\ clients'[j].unsent = 0 /\ recvBuf'[j].head = NoMessage
      BY <2>2, <3>2 DEF FreeClient, Zeroed, Occupied
    <3>3. ASSUME NEW j \in Keys
          PROVE  /\ recvBuf'[j].head.kind = "request" =>
                      Occupied(j)' /\ peer'[clients'[j].socket].key # NoKey
                 /\ ~Occupied(j)' => recvBuf'[j].head = NoMessage
                 /\ clients'[j].unsent > 0 =>
                      /\ Occupied(j)'
                      /\ peer'[clients'[j].socket].key = NoKey => ~Usable(clients[j].socket)'
      <4>1. CASE j = k
        BY <3>2, <4>1 DEF NoMessage
      <4>2. CASE j # k
        BY <1>1, <3>1, <4>2 DEF SlotsKeyed
      <4>3. QED  BY <4>1, <4>2
    <3>4. QED  BY <3>3 DEF SlotsKeyed
  <2>6. QED  BY <2>3, <2>5 DEF KeyFirst
<1>5. QED  BY <1>3, <1>4

\* A step of the peers or of the kernel: a peer has no key after it only if it had
\* none, and then nothing is sent to it and its requests are none.
LEMMA KeyFirstWorld ==
    ASSUME Sound, UNCHANGED <<clients, open>>,
           \A h \in Handles : peer'[h].key = NoKey =>
               /\ writes'[h] = <<>> /\ peer'[h].msg.kind # "request"
               /\ ~Stranger(h) => peer[h].key = NoKey /\ (Usable(h)' => Usable(h)),
           \A k \in Keys : \/ recvBuf'[k].head \in {recvBuf[k].head, NoMessage}
                           \/ /\ Occupied(k)
                              /\ recvBuf'[k].head.kind = "request" =>
                                   peer'[clients[k].socket].key # NoKey
    PROVE  KeyFirst'
<1> USE SoundMeans
<1>1. SlotsKeyed /\ \A k \in Keys : Occupied(k)' <=> Occupied(k)
  BY DEF Sound, KeyFirst, Occupied
<1>2. PeersKeyed'
  BY DEF PeersKeyed
<1>3. \A k \in Keys : Occupied(k) => clients[k].socket \in Handles /\ ~Stranger(clients[k].socket)
  BY DEF Stranger
<1>4. ASSUME NEW k \in Keys
      PROVE  /\ recvBuf'[k].head.kind = "request" =>
                  Occupied(k) /\ peer'[clients[k].socket].key # NoKey
             /\ ~Occupied(k) => recvBuf'[k].head = NoMessage
             /\ clients[k].unsent > 0 =>
                  /\ Occupied(k)
                  /\ peer'[clients[k].socket].key = NoKey => ~Usable(clients[k].socket)'
  <2>1. CASE Occupied(k)
    BY <1>1, <1>3, <2>1 DEF SlotsKeyed, NoMessage
  <2>2. CASE ~Occupied(k)
    BY <1>1, <2>2 DEF SlotsKeyed
  <2>3. QED  BY <2>1, <2>2
<1>5. SlotsKeyed'
  BY <1>1, <1>4 DEF SlotsKeyed
<1>6. QED  BY <1>2, <1>5 DEF KeyFirst

\* A connection comes in, on a socket that is no client's.
LEMMA PeerConnectsKeyed ==
    ASSUME Sound, PeerConnects, UNCHANGED serverVars
    PROVE  KeyFirst'
<1> USE SoundMeans
<1>1. accepting = acceptSocket /\ Stranger(acceptSocket) /\ acceptSocket \in Handles
  BY DEF PeerConnects, Sound, Accepts, OneAccept, Belonging, Owned, Stranger, Typed, TypeOK
<1>2. writes[acceptSocket] = <<>>
  BY <1>1 DEF Belonging, Unused
<1>3. /\ peer' = [peer EXCEPT ![acceptSocket] = Connected]
      /\ UNCHANGED <<clients, open, writes, recvBuf>>
  BY <1>1 DEF PeerConnects, serverVars
<1>4. Connected.key = NoKey /\ Connected.msg.kind # "request"
  BY DEF Connected, Nobody, NoMessage
<1>5. \A h \in Handles : peer'[h].key = NoKey =>
         /\ writes'[h] = <<>> /\ peer'[h].msg.kind # "request"
         /\ ~Stranger(h) => peer[h].key = NoKey /\ (Usable(h)' => Usable(h))
  BY <1>1, <1>2, <1>3, <1>4 DEF Sound, KeyFirst, PeersKeyed, Usable
<1>6. QED  BY <1>3, <1>5, KeyFirstWorld

\* What a peer does: before it has its key it sends only key requests.
LEMMA PeersStayKeyed ==
    ASSUME Sound, NEW h \in Handles, Environment(h), UNCHANGED serverVars
    PROVE  KeyFirst'
<1> USE SoundMeans
<1>1. UNCHANGED <<clients, open, recvBuf>>
  BY DEF Environment, PeerSends, PeerCloses, PeerResets, serverVars
<1>2. PeersKeyed /\ peer[h] \in Peer
  BY DEF Sound, KeyFirst
<1>3. /\ writes'[h] \in {writes[h], <<>>}
      /\ \A g \in Handles \ {h} : writes'[g] = writes[g] /\ peer'[g] = peer[g]
  BY DEF Environment, PeerSends, PeerCloses, PeerResets
<1>4. /\ peer'[h].key = peer[h].key
      /\ peer'[h].st \notin {"none", "reset"} => peer[h].st \notin {"none", "reset"}
      /\ peer[h].key = NoKey => peer'[h].msg.kind # "request"
  <2>1. ASSUME NEW m \in Messages, PeerSends(h, m)
        PROVE  /\ peer'[h].key = peer[h].key
               /\ peer[h].st \notin {"none", "reset"}
               /\ peer[h].key = NoKey => peer'[h].msg.kind # "request"
    <3> DEFINE p == [peer[h] EXCEPT !.st = "sending", !.msg = m, !.next = 0, !.got = 0]
    <3>1. p.key = peer[h].key /\ p.msg = m
      BY <1>2 DEF Peer
    <3>2. peer'[h] = p /\ peer[h].st = "idle" /\ (m.kind = "key" <=> peer[h].key = NoKey)
      BY <2>1 DEF PeerSends
    <3>3. QED  BY <3>1, <3>2
  <2>2. CASE PeerCloses(h) \/ PeerResets(h)
    <3>1. PICK st \in {"fin", "reset"} : peer' = [peer EXCEPT ![h] = [Nobody EXCEPT !.st = st, !.key = peer[h].key]]
      BY <2>2, Zenon DEF PeerCloses, PeerResets
    <3>2. peer'[h].key = peer[h].key /\ peer'[h].msg = NoMessage
      BY <3>1 DEF Nobody
    <3>3. peer[h].st \notin {"none", "reset"}
      BY <2>2 DEF PeerCloses, PeerResets
    <3>4. QED  BY <3>2, <3>3 DEF NoMessage
  <2>3. QED  BY <2>1, <2>2 DEF Environment
<1>5. \A g \in Handles : peer'[g].key = NoKey =>
         /\ writes'[g] = <<>> /\ peer'[g].msg.kind # "request"
         /\ ~Stranger(g) => peer[g].key = NoKey /\ (Usable(g)' => Usable(g))
  BY <1>1, <1>2, <1>3, <1>4 DEF PeersKeyed, Usable
<1>6. QED  BY <1>1, <1>5, KeyFirstWorld

\* Whatever reaches a peer, it keeps its key, and stays.
LEMMA GivenKeeps ==
    ASSUME NEW p \in Peer, NEW w, NEW n
    PROVE  /\ Given(p, w, n).key = p.key
           /\ p.st \notin {"none", "fin", "reset"} =>
                Given(p, w, n).st \notin {"none", "fin", "reset"}
<1> DEFINE a == [p EXCEPT !.got = p.got + n]
           b == [Connected EXCEPT !.key = p.key]
           c == [p EXCEPT !.st = "garbled"]
           d == [p EXCEPT !.junk = TRUE]
<1>1. a.key = p.key /\ a.st = p.st
  BY DEF Peer
<1>2. b.key = p.key /\ b.st = "idle"
  BY DEF Connected, Nobody
<1>3. c.key = p.key /\ c.st = "garbled"
  BY DEF Peer
<1>4. d.key = p.key /\ d.st = p.st
  BY DEF Peer
<1>5. Given(p, w, n) \in {a, b, c, d, p}
  BY Zenon DEF Given
<1> HIDE DEF a, b, c, d
<1>6. QED  BY <1>1, <1>2, <1>3, <1>4, <1>5

\* What the kernel completes: what it delivers comes from the client of the slot,
\* and what it transmits goes to a peer that has its key.
LEMMA CompletionKeyed ==
    ASSUME Sound, NEW h \in Handles, Completion(h), UNCHANGED serverVars
    PROVE  KeyFirst'
<1> USE SoundMeans
<1>1. UNCHANGED clients
  BY DEF serverVars
<1>2. PeersKeyed /\ peer[h] \in Peer
  BY DEF Sound, KeyFirst
<1>3. ASSUME NEW n \in 0 .. MAX_BUF_SIZE, Deliver(h, n) PROVE KeyFirst'
  <2> DEFINE k == assoc[h]
             p == peer[h]
  <2>1. /\ k \in Keys /\ reads[h] # <<>> /\ p.st = "sending"
        /\ peer' = [peer EXCEPT ![h] = Taken(p, n)]
        /\ \/ UNCHANGED recvBuf
           \/ \E x : recvBuf' = [recvBuf EXCEPT ![k] = Written(recvBuf[k], x, p.msg, p.next, n)]
        /\ UNCHANGED <<open, writes>>
    BY <1>3, Zenon DEF Deliver
  <2>2. Occupied(k) /\ clients[k].socket = h
    BY <2>1, WinsockAssumption DEF Belonging, Unused, Stranger, Associated, Occupied
  <2>3. /\ Taken(p, n).key = p.key /\ Taken(p, n).msg = p.msg
        /\ Taken(p, n).st \in {"sending", "waiting", "garbled"}
    BY <1>2, <2>1 DEF Taken, Peer
  <2>4. \A g \in Handles : peer'[g].key = NoKey =>
           /\ writes'[g] = <<>> /\ peer'[g].msg.kind # "request"
           /\ ~Stranger(g) => peer[g].key = NoKey /\ (Usable(g)' => Usable(g))
    BY <1>2, <2>1, <2>3 DEF PeersKeyed, Usable
  <2>5. p.key = NoKey => p.msg.kind # "request"
    BY <1>2 DEF PeersKeyed
  <2>6. \A j \in Keys : \/ recvBuf'[j].head \in {recvBuf[j].head, NoMessage}
                        \/ /\ Occupied(j)
                           /\ recvBuf'[j].head.kind = "request" =>
                                peer'[clients[j].socket].key # NoKey
    <3>1. \A j \in Keys \ {k} : recvBuf'[j] = recvBuf[j]
      BY <2>1
    <3>2. recvBuf'[k].head \in {recvBuf[k].head, NoMessage, p.msg}
      <4>1. ASSUME NEW x PROVE Written(recvBuf[k], x, p.msg, p.next, n).head
                                 \in {recvBuf[k].head, NoMessage, p.msg}
        <5>1. recvBuf[k] \in Buffer
          BY <2>1
        <5>2. QED  BY <5>1 DEF Written, Zeroed, Buffer
      <4>2. QED  BY <2>1, <4>1
    <3>3. peer'[h].key = p.key
      BY <2>1, <2>3
    <3> HIDE DEF k, p
    <3>4. QED  BY <2>2, <2>5, <3>1, <3>2, <3>3
  <2>7. QED  BY <1>1, <2>1, <2>4, <2>6, KeyFirstWorld
<1>4. CASE DeliverEof(h) \/ SendCompletes(h)
  <2>1. /\ UNCHANGED <<open, peer, recvBuf>>
        /\ \A g \in Handles : writes[g] = <<>> => writes'[g] = <<>>
    BY <1>4 DEF DeliverEof, SendCompletes
  <2>2. QED  BY <1>1, <2>1, KeyFirstQuiet
<1>5. ASSUME NEW i \in DOMAIN writes[h], NEW n, Transmit(h, i, n) PROVE KeyFirst'
  <2>1. writes[h] # <<>> /\ UNCHANGED <<open, recvBuf>>
    BY <1>5 DEF Transmit
  <2>2. peer[h].key # NoKey
    BY <1>2, <2>1 DEF PeersKeyed
  <2>3. peer'[h].key = peer[h].key
    <3>1. \A w : Given(peer[h], w, n).key = peer[h].key
      BY <1>2, GivenKeeps
    <3>2. QED  BY <1>5, <3>1 DEF Transmit
  <2>4. \A g \in Handles \ {h} : writes'[g] = writes[g] /\ peer'[g] = peer[g]
    BY <1>5 DEF Transmit
  <2>5. \A g \in Handles : peer'[g].key = NoKey =>
           /\ writes'[g] = <<>> /\ peer'[g].msg.kind # "request"
           /\ ~Stranger(g) => peer[g].key = NoKey /\ (Usable(g)' => Usable(g))
    BY <1>2, <2>1, <2>2, <2>3, <2>4 DEF PeersKeyed, Usable
  <2>6. QED  BY <1>1, <2>1, <2>5, KeyFirstWorld
<1>6. QED  BY <1>3, <1>4, <1>5 DEF Completion

\* The invariant of the server that a session builds on.
ServerInv == Accepts /\ (NoLeak => KeyFirst)

\* It holds from the start, and every step of the server keeps it.
LEMMA ServerInvHolds ==
    /\ Init => ServerInv
    /\ ServerInv /\ [Next]_vars => ServerInv'
<1>1. Init => ServerInv
  <2> SUFFICES ASSUME Init PROVE ServerInv
    OBVIOUS
  <2>1. Safe /\ OneAccept
    BY InitSafe DEF Init, SockInit, OneAccept, IsAccept, Idle
  <2>2. KeyFirst
    BY DEF Init, SockInit, KeyFirst, PeersKeyed, SlotsKeyed, Nobody, NoMessage, Zeroed, FreeClient
  <2>3. QED  BY <2>1, <2>2 DEF ServerInv, Accepts
<1>2. ASSUME ServerInv, [Next]_vars PROVE ServerInv'
  <2>1. Accepts'
    BY <1>2, NextAccepts DEF ServerInv
  <2> SUFFICES ASSUME NoLeak' PROVE KeyFirst'
    BY <2>1 DEF ServerInv
  <2>2. NoLeak /\ \A k \in Keys : ~RefuseNotAssociated(k)
    BY <1>2, LeakRemembered
  <2>3. Sound
    BY <1>2, <2>2 DEF ServerInv, Sound, Accepts, Safe
  <2>4. CASE Thread
    BY <2>2, <2>3, <2>4, IdleStepsKeyed, AnswersKeyed, AdmissionKeyed, CancelledKeyed, Zenon
    DEF Thread
  <2>5. CASE Tick
    BY <2>3, <2>5, IdleStepsKeyed
  <2>6. CASE (PeerConnects \/ AcceptFails \/ AbortCompletes) /\ UNCHANGED serverVars
    BY <2>3, <2>6, IdleStepsKeyed, PeerConnectsKeyed
  <2>7. ASSUME NEW h \in Handles, (Environment(h) \/ Completion(h)) /\ UNCHANGED serverVars
        PROVE  KeyFirst'
    BY <2>3, <2>7, PeersStayKeyed, CompletionKeyed
  <2>8. CASE UNCHANGED vars
    <3>1. UNCHANGED <<peer, recvBuf, open, writes, clients>>
      BY <2>8 DEF vars, sockVars, serverVars
    <3>2. QED  BY <2>3, <3>1, KeyFirstQuiet, SoundMeans
  <2>9. QED  BY <1>2, <2>4, <2>5, <2>6, <2>7, <2>8 DEF Next
<1>3. QED  BY <1>1, <1>2

(***************************************************************************)
(* The session.                                                            *)
(***************************************************************************)
\* The client has a connection in the calls that use one, and none in connect.  In the
\* backlog it gets no further than to wait for the key.
AtHome ==
    /\ conn \in Sockets \cup {Backlog}
    /\ at = "connect" => conn = INVALID_SOCKET
    /\ at \in {"sendKey", "recvKey", "send", "recv"} => conn # INVALID_SOCKET
    /\ conn = Backlog /\ end = "up" => at \in {"sendKey", "recvKey"} /\ inbox = <<>>

\* The server has the client's connection, and the client would find it up.
InTouch == conn \in Handles /\ end = "up"

\* While it is in touch, the peer of the server's socket is the client: it is there,
\* it was given the key the client has, and the key in an answer is that of the
\* connection it arrived on.
Linked ==
    InTouch =>
        /\ peer[conn].st \notin {"none", "fin", "reset"}
        /\ at \in {"send", "recv", "prompt"} => key = conn /\ peer[conn].key = conn
        /\ inbox # <<>> => inbox = <<conn>> /\ peer[conn].key = conn

\* The inductive invariant: SameKey follows from Linked and from what the server
\* keeps of a client's slot; Linked rests on KeyFirst, for no answer but one that
\* brings the key may reach a client that waits for it.
SessionInv == ServerInv /\ AtHome /\ (NoLeak => Linked)

\* Every step of the session is one of the server and its world, or none of theirs.
LEMMA SessionSteps ==
    ASSUME SessionInv, [SessionNext]_sessionVars
    PROVE  [Next]_vars
<1>1. conn \notin {INVALID_SOCKET, Backlog} => conn \in Handles
  BY DEF SessionInv, AtHome, Sockets
<1>2. HangUp => UNCHANGED sockVars \/ (conn \in Handles /\ PeerCloses(conn))
  BY DEF HangUp
<1>3. Command \/ Disconnect => [Next]_vars
  BY <1>2 DEF Command, Disconnect, Next, Environment, vars
<1>4. Connect \/ Accepted => [Next]_vars
  BY DEF Connect, Accepted, Next
<1>5. SendKeyRequest \/ SendRequest => [Next]_vars
  BY DEF SendKeyRequest, SendRequest, Transfer, Next, Environment, vars
<1>55. Flush => [Next]_vars
  BY DEF Flush, Next, Environment
<1>6. ConnectQueued \/ ConnectFails \/ SendFails \/ ReceiveKey \/ ReceiveResponse
      \/ ReceiveFails \/ StreamEnds => [Next]_vars
  BY DEF ConnectQueued, ConnectFails, SendFails, ReceiveKey, ReceiveResponse, ReceiveFails,
     StreamEnds
<1>7. ServerStep \/ AbortStep \/ Clock => [Next]_vars
  BY DEF ServerStep, AbortStep, Clock, Next
<1>8. ConnectionLost => [Next]_vars
  BY <1>1 DEF ConnectionLost, Next, Environment, vars
<1>9. (\E h \in Handles : CompletionStep(h)) => [Next]_vars
  BY DEF CompletionStep, Next
<1>10. UNCHANGED sessionVars => [Next]_vars
  BY DEF sessionVars
<1>11. QED
  BY <1>3, <1>4, <1>5, <1>55, <1>6, <1>7, <1>8, <1>9, <1>10, Zenon DEF SessionNext, Call

\* A peer that has a key has that of its own connection.
LEMMA OwnKey ==
    ASSUME Sound, NEW h \in Handles
    PROVE  peer[h].key \in {NoKey, h}
<1>1. CASE Stranger(h)
  BY <1>1 DEF Sound, Belonging, Unused
<1>2. CASE ~Stranger(h)
  <2>1. PICK k \in Keys : clients[k].socket = h
    BY <1>2 DEF Stranger
  <2>2. Occupied(k)
    BY <2>1, WinsockAssumption DEF Occupied
  <2>3. QED  BY <2>1, <2>2 DEF Sound, Belonging, Keyed
<1>3. QED  BY <1>1, <1>2

\* What the event loop does to a peer: it closes the connection or gives the key.
LEMMA ThreadPeers ==
    ASSUME Sound, Thread, NEW h \in Handles
    PROVE  \/ peer'[h].st = "none"
           \/ peer'[h].st = peer[h].st /\ peer'[h].key \in {peer[h].key, h}
<1> USE SoundMeans
<1>1. ASSUME UNCHANGED peer \/ (\E s : peer' = [peer EXCEPT ![s] = Nobody])
      PROVE  peer'[h].st = "none" \/ peer'[h] = peer[h]
  BY <1>1 DEF Nobody
<1>2. CASE WaitTimedOut \/ OperationFailed \/ AcceptCompleted
  BY <1>1, <1>2 DEF WaitTimedOut, OperationFailed, AcceptCompleted, sockVars
<1>3. ASSUME NEW k \in Keys, ScheduleDisconnect(k) \/ Admit(k) \/ RefuseNotAssociated(k)
      PROVE  peer'[h].st = "none" \/ peer'[h] = peer[h]
  BY <1>1, <1>3 DEF ScheduleDisconnect, Admit, RefuseNotAssociated, Refuse
<1>4. CASE RefuseFull \/ RefuseNoAddress
  BY <1>1, <1>4 DEF RefuseFull, RefuseNoAddress, Refuse
<1>5. CASE ReceiveEnd \/ ReceivePartial \/ ReceiveRequest \/ ReceiveUnknown
           \/ SendPartial \/ SendDone
  <2>1. UNCHANGED peer
    BY <1>5, Zenon DEF ReceiveEnd, ReceivePartial, ReceiveRequest, ReceiveUnknown,
       SendPartial, SendDone, Send
  <2>2. QED  BY <2>1
<1>6. CASE ReceiveKeyRequest
  <2> DEFINE k == Head(port).key
             s == clients[k].socket
  <2>1. Receive("key") /\ recvBuf[k].head.kind = "key"
    BY <1>6 DEF ReceiveKeyRequest, Receive
  <2>2. k \in Keys
    BY <2>1, ReceiveTyped
  <2>3. peer' = IF Usable(s) THEN [peer EXCEPT ![s].key = symKeys[clients[k].id]] ELSE peer
    BY <1>6, Zenon DEF ReceiveKeyRequest
  <2>4. Occupied(k)
    BY <2>1, <2>2 DEF Sound, KeyFirst, SlotsKeyed, NoMessage
  <2>5. symKeys[clients[k].id] = s
    BY <2>2, <2>4 DEF Typed, Numbered, Belonging, Keyed
  <2>6. peer[h] \in Peer
    OBVIOUS
  <2>7. QED  BY <2>3, <2>5, <2>6 DEF Peer
<1>7. CASE Cancelled
  <2>1. UNCHANGED peer \/ (\E s : peer' = [peer EXCEPT ![s] = Nobody])
    BY <1>7, Zenon DEF Cancelled, closesocket, Close
  <2>2. QED  BY <1>1, <2>1
<1>8. QED  BY <1>2, <1>3, <1>4, <1>5, <1>6, <1>7, Zenon DEF Thread

\* What a completion does to a peer that is there: it stays, with its key; and an
\* answer reaches it only when it has one.
LEMMA CompletionPeers ==
    ASSUME Sound, NEW g \in Handles, Completion(g), NEW h \in Handles,
           peer[h].st \notin {"none", "fin", "reset"}
    PROVE  /\ peer'[h].st \notin {"none", "fin", "reset"} /\ peer'[h].key = peer[h].key
           /\ peer[h].st = "waiting" /\ peer'[h].st = "idle" => peer[h].key = h
<1> USE SoundMeans
<1>1. peer[h] \in Peer
  OBVIOUS
<1>2. ASSUME NEW n \in 0 .. MAX_BUF_SIZE, Deliver(g, n)
      PROVE  /\ peer'[h].st \in {peer[h].st, "waiting", "garbled"}
             /\ peer'[h].key = peer[h].key
             /\ peer'[h].st = "idle" => peer[h].st = "idle"
  <2>1. peer' = [peer EXCEPT ![g] = Taken(peer[g], n)]
    BY <1>2, Zenon DEF Deliver
  <2>2. /\ Taken(peer[h], n).key = peer[h].key
        /\ Taken(peer[h], n).st \in {peer[h].st, "waiting", "garbled"}
    BY <1>1 DEF Taken, Peer
  <2>3. QED  BY <2>1, <2>2
<1>3. CASE DeliverEof(g) \/ SendCompletes(g)
  BY <1>3 DEF DeliverEof, SendCompletes
<1>4. ASSUME NEW i \in DOMAIN writes[g], NEW n, Transmit(g, i, n)
      PROVE  /\ peer'[h].st \notin {"none", "fin", "reset"} /\ peer'[h].key = peer[h].key
             /\ peer'[h] = peer[h] \/ peer[h].key = h
  <2>1. PICK w : peer' = [peer EXCEPT ![g] = Given(peer[g], w, n)]
    BY <1>4, Zenon DEF Transmit
  <2>2. /\ Given(peer[h], w, n).key = peer[h].key
        /\ Given(peer[h], w, n).st \notin {"none", "fin", "reset"}
    BY <1>1, GivenKeeps
  <2>3. CASE g = h
    <3>1. peer[h].key # NoKey
      BY <1>4, <2>3 DEF Sound, KeyFirst, PeersKeyed
    <3>2. QED  BY <2>1, <2>2, <2>3, <3>1, OwnKey
  <2>4. CASE g # h
    BY <2>1, <2>4
  <2>5. QED  BY <2>3, <2>4
<1>5. QED  BY <1>2, <1>3, <1>4 DEF Completion

\* The client knows where it is in its calls.
LEMMA StaysAtHome ==
    ASSUME SessionInv, [SessionNext]_sessionVars
    PROVE  AtHome'
<1> USE DEF SessionInv, AtHome
<1>1. accepting \in Sockets /\ INVALID_SOCKET \in Sockets
  BY DEF ServerInv, Accepts, Safe, Typed, TypeOK, SockTypeOK, Sockets
<1>2. Command \/ Disconnect => AtHome'
  BY <1>1, SessionAssumption DEF Command, Disconnect, ContextExpired
<1>3. Connect \/ Accepted => AtHome'
  <2>1. Connect \/ Accepted => accepting \in Sockets \ {Backlog, INVALID_SOCKET} /\ conn' = accepting
    BY <1>1, SessionAssumption DEF Connect, Accepted, PeerConnects
  <2>2. QED  BY <2>1 DEF Connect, Accepted
<1>4. ConnectQueued \/ ConnectFails => AtHome'
  BY <1>1, SessionAssumption DEF ConnectQueued, ConnectFails, Fails
<1>5. SendKeyRequest \/ SendRequest \/ SendFails => AtHome'
  BY <1>1, SessionAssumption DEF SendKeyRequest, SendRequest, SendFails, Transfer, Fails
<1>6. ReceiveKey \/ ReceiveResponse \/ ReceiveFails \/ StreamEnds => AtHome'
  BY DEF ReceiveKey, ReceiveResponse, ReceiveFails, StreamEnds, Fails, Invented
<1>7. ServerStep \/ (\E h \in Handles : CompletionStep(h)) => AtHome'
  <2>1. Backlog \notin Handles
    BY SessionAssumption DEF Sockets
  <2>2. Reaches => UNCHANGED <<conn, at>> /\ (conn = Backlog => UNCHANGED <<end, inbox>>)
    BY <2>1 DEF Reaches
  <2>3. QED  BY <2>2 DEF ServerStep, CompletionStep
<1>8. AbortStep \/ Flush \/ ConnectionLost \/ Clock => AtHome'
  BY DEF AbortStep, Flush, ConnectionLost, Clock, clientVars
<1>9. UNCHANGED sessionVars => AtHome'
  BY DEF sessionVars, clientVars
<1>10. QED
  BY <1>2, <1>3, <1>4, <1>5, <1>6, <1>7, <1>8, <1>9, Zenon DEF SessionNext, Call

\* A connection reaches the server.
LEMMA ConnectedLinked ==
    ASSUME SessionInv, Sound, Connect \/ Accepted
    PROVE  Linked'
<1>1. /\ conn' = accepting /\ accepting \in Handles
      /\ at' \in {"sendKey", "recvKey"} /\ inbox' = <<>>
      /\ peer' = [peer EXCEPT ![accepting] = Connected]
  BY DEF Connect, Accepted, PeerConnects, SessionInv, AtHome, ServerInv, Accepts, Safe, Typed,
     TypeOK, SockTypeOK
<1>2. peer'[conn'].st = "idle"
  BY <1>1, SoundMeans DEF Connected, Nobody
<1>3. QED  BY <1>1, <1>2 DEF Linked

\* The client sends on its connection.
LEMMA SentLinked ==
    ASSUME Sound, Linked, conn \in Handles, NEW m \in Messages, PeerSends(conn, m),
           UNCHANGED <<conn, inbox, key, end>>,
           at' \in {"recvKey", "recv"}, at' = "recv" => at = "send"
    PROVE  Linked'
<1>1. peer'[conn].st = "sending" /\ peer'[conn].key = peer[conn].key
  BY SoundMeans DEF PeerSends, Peer
<1>2. QED  BY <1>1 DEF Linked, InTouch

\* The user and the client's calls.
LEMMA ClientLinked ==
    ASSUME SessionInv, Sound, Linked, Command \/ Disconnect \/ Call \/ Accepted \/ Flush
    PROVE  Linked'
<1> USE SoundMeans DEF InTouch
<1>1. INVALID_SOCKET \notin Handles /\ Backlog \notin Handles
  BY WinsockAssumption, SessionAssumption DEF Sockets
<1>2. CASE Command
  <2>1. CASE ContextExpired
    BY <1>1, <1>2, <2>1 DEF Command, Linked
  <2>2. CASE ~ContextExpired
    BY <1>2, <2>2 DEF Command, Linked, sockVars
  <2>3. QED  BY <2>1, <2>2
<1>3. CASE Disconnect
  BY <1>1, <1>3 DEF Disconnect, Linked
<1>4. CASE Connect \/ Accepted
  BY <1>4, ConnectedLinked
<1>5. CASE ConnectQueued \/ ConnectFails
  BY <1>1, <1>5 DEF ConnectQueued, ConnectFails, Linked, SessionInv, AtHome
<1>6. CASE SendKeyRequest \/ SendRequest
  <2>1. /\ UNCHANGED <<conn, inbox, key>>
        /\ at' \in {"recvKey", "recv"} /\ (at' = "recv" => at = "send")
        /\ Transfer
    BY <1>6 DEF SendKeyRequest, SendRequest
  <2>2. CASE conn \in Handles /\ end = "up"
    <3>1. PICK m \in Messages : PeerSends(conn, m) /\ UNCHANGED end
      BY <1>1, <2>1, <2>2 DEF Transfer
    <3>2. QED  BY <2>1, <2>2, <3>1, SentLinked
  <2>3. CASE ~(conn \in Handles /\ end = "up")
    BY <2>1, <2>3 DEF Transfer, Linked
  <2>4. QED  BY <2>2, <2>3
<1>7. CASE Flush
  <2>1. conn \in Handles /\ at = "recvKey" /\ UNCHANGED <<conn, inbox, key, end, at>>
        /\ \E m \in Messages : PeerSends(conn, m)
    BY <1>7 DEF Flush, clientVars
  <2>2. QED  BY <2>1, SentLinked
<1>8. CASE SendFails \/ ReceiveFails \/ StreamEnds
  BY <1>8 DEF SendFails, ReceiveFails, StreamEnds, Linked
<1>9. CASE ReceiveKey
  <2>1. UNCHANGED <<peer, conn, end>> /\ key' = Head(inbox) /\ inbox # <<>> /\ inbox' = <<>>
    BY <1>9 DEF ReceiveKey, vars, sockVars
  <2>2. QED  BY <2>1 DEF Linked
<1>10. CASE ReceiveResponse
  BY <1>10 DEF ReceiveResponse, vars, sockVars, Linked
<1>11. QED
  BY <1>2, <1>3, <1>4, <1>5, <1>6, <1>7, <1>8, <1>9, <1>10 DEF Call

\* The server, its kernel, the network and time.
LEMMA WorldLinked ==
    ASSUME SessionInv, Sound, Linked,
           \/ ServerStep \/ AbortStep \/ ConnectionLost \/ Clock
           \/ \E h \in Handles : CompletionStep(h)
    PROVE  Linked'
<1> USE DEF InTouch
<1>1. CASE ServerStep
  <2> SUFFICES ASSUME conn \in Handles, end = "up", peer'[conn].st # "none"
               PROVE  Linked'
    BY <1>1 DEF ServerStep, Reaches, Linked
  <2>1. peer'[conn].st = peer[conn].st /\ peer'[conn].key \in {peer[conn].key, conn}
    BY <1>1, ThreadPeers DEF ServerStep
  <2>2. UNCHANGED <<conn, key, at, end>> /\ inbox' \in {inbox, <<>>}
    BY <1>1, <2>1 DEF ServerStep, Reaches, Arrives
  <2>3. QED  BY <2>1, <2>2 DEF Linked
<1>2. ASSUME NEW g \in Handles, CompletionStep(g) PROVE Linked'
  <2>1. Completion(g) /\ Reaches
    BY <1>2 DEF CompletionStep
  <2> SUFFICES ASSUME conn \in Handles, end = "up"
               PROVE  Linked'
    BY <2>1 DEF Reaches, Linked
  <2>2. /\ peer'[conn].st \notin {"none", "fin", "reset"} /\ peer'[conn].key = peer[conn].key
        /\ peer[conn].st = "waiting" /\ peer'[conn].st = "idle" => peer[conn].key = conn
    BY <2>1, CompletionPeers DEF Linked
  <2>3. /\ UNCHANGED <<conn, key, at, end>>
        /\ inbox' \in {inbox, <<>>} \/ (inbox' = <<conn>> /\ peer[conn].key = conn)
    BY <2>1, <2>2 DEF Reaches, Arrives
  <2>4. QED  BY <2>2, <2>3 DEF Linked
<1>3. CASE AbortStep \/ Clock
  <2>1. UNCHANGED <<peer, conn, end, inbox, key, at>>
    BY <1>3 DEF AbortStep, AbortCompletes, Clock, Tick, clientVars, sockVars
  <2>2. QED  BY <2>1 DEF Linked
<1>4. CASE ConnectionLost
  BY <1>4 DEF ConnectionLost, Linked
<1>5. QED  BY <1>1, <1>2, <1>3, <1>4

\* Every step of the session keeps the invariant.
LEMMA SessionNextInv ==
    ASSUME SessionInv, [SessionNext]_sessionVars
    PROVE  SessionInv'
<1>1. [Next]_vars
  BY SessionSteps
<1>2. ServerInv' /\ AtHome'
  BY <1>1, ServerInvHolds, StaysAtHome DEF SessionInv
<1> SUFFICES ASSUME NoLeak' PROVE Linked'
  BY <1>2 DEF SessionInv
<1>3. Sound /\ Linked
  BY <1>1, LeakRemembered DEF SessionInv, ServerInv, Sound, Accepts, Safe
<1>4. CASE UNCHANGED sessionVars
  BY <1>3, <1>4 DEF sessionVars, vars, sockVars, clientVars, Linked, InTouch
<1>5. CASE SessionNext
  BY <1>3, <1>5, ClientLinked, WorldLinked DEF SessionNext
<1>6. QED  BY <1>4, <1>5

\* The server in a session is the server of module Server: all that is proved of
\* that one, by whatever peers it is used, holds of this one.
THEOREM SessionIsServed == SessionSpec => Spec
<1>1. SessionInit => SessionInv /\ Init
  BY ServerInvHolds DEF SessionInit, SessionInv, AtHome, Sockets, Linked, InTouch
<1>2. SessionInv /\ [SessionNext]_sessionVars => SessionInv' /\ [Next]_vars
  BY SessionNextInv, SessionSteps
<1>3. QED  BY <1>1, <1>2, PTL DEF SessionSpec, Spec

\* The client encrypts with the key the server decrypts with, over any number of
\* reconnections, resets and slots and handles used again, unless the association
\* of a socket has failed.
THEOREM SameKeyAtBothEnds == SessionSpec => [](NoLeak => SameKey)
<1>1. SessionInit => SessionInv
  BY ServerInvHolds DEF SessionInit, SessionInv, AtHome, Sockets, Linked, InTouch
<1>2. SessionInv /\ [SessionNext]_sessionVars => SessionInv'
  BY SessionNextInv
<1>3. SessionInv => (NoLeak => SameKey)
  <2> SUFFICES ASSUME SessionInv, NoLeak, at \in {"send", "recv", "prompt"},
                      conn # INVALID_SOCKET, end = "up"
               PROVE  \E k \in Keys : clients[k].socket = conn /\ key = symKeys[clients[k].id]
    BY DEF SameKey
  <2>1. Sound /\ key = conn /\ peer[conn].key = conn /\ conn \in Handles
    BY DEF SessionInv, ServerInv, Accepts, Safe, Sound, Linked, InTouch, AtHome, Sockets
  <2>2. ~Stranger(conn)
    BY <2>1, WinsockAssumption DEF Sound, Belonging, Unused
  <2>3. PICK k \in Keys : clients[k].socket = conn
    BY <2>2 DEF Stranger
  <2>4. Occupied(k)
    BY <2>3 DEF Occupied
  <2>5. symKeys[clients[k].id] = conn
    BY <2>1, <2>3, <2>4, SoundMeans DEF Typed, Numbered, Belonging, Keyed
  <2>6. QED  BY <2>1, <2>3, <2>5
<1>4. QED  BY <1>1, <1>2, <1>3, PTL DEF SessionSpec

\* A server whose associations never fail: then the two keys are always the same.
THEOREM SameKeyWithoutLeaks ==
    ASSUME "associate" \notin Faults
    PROVE  SessionSpec => []SameKey
<1>1. Init => NoLeak
  BY Zenon DEF Init, NoLeak
<1>2. NoLeak /\ [Next]_vars => NoLeak'
  <2>1. \A k \in Keys : ~RefuseNotAssociated(k)
    BY DEF RefuseNotAssociated
  <2>2. [Next]_vars => UNCHANGED leaked
    BY <2>1, LeakKept
  <2>3. QED  BY <2>2 DEF NoLeak
<1>3. Spec => []NoLeak
  BY <1>1, <1>2, PTL DEF Spec
<1>4. QED  BY <1>3, SessionIsServed, SameKeyAtBothEnds, PTL

(***************************************************************************)
(* What one connection sees of the server.                                 *)
(***************************************************************************)
\* Nothing of the client's data is in the buffer of slot k or waits in the port.
Unread(k) == clients[k].recvBufSize = 0 /\ \E sizes, t : InPort(port, k, 0, sizes, t)

\* The thread is about to handle a request that came on socket h.
Asks(h) ==
    \E k \in Keys : Processing(k) /\ recvBuf[k].head.kind = "request" /\ clients[k].socket = h

\* The message of the peer on h has been answered, or part of the answer may still
\* reach it.  What is left of an earlier answer is none: no write of it starts one.
Begun(h) ==
    \/ peer[h].st = "idle"
    \/ peer[h].st = "waiting" /\ (peer[h].got # 0 \/ ~Settled(writes[h]))

\* A step that says nothing to the peer on h and reads nothing of it: it may hear
\* of it, or take it in.
Calm(h) ==
    /\ peer'[h] = peer[h]
    /\ Begun(h)' => Begun(h)
    /\ \A k \in Keys : clients'[k].socket = h =>
         \/ /\ clients[k].socket = h /\ clients'[k].age \in {0, clients[k].age}
            /\ Unread(k) => Unread(k)'
         \/ Stranger(h) /\ clients'[k].age = 0

\* The key is given to the peer on h, or it is gone.
Greets(h) ==
    /\ peer[h].key = NoKey /\ peer'[h].st = peer[h].st
    /\ \A k \in Keys : clients'[k].socket = h => clients'[k].age = 0

\* The request that came on h is handled: it was there, all of it, and is no more.
Serves(h) ==
    /\ peer'[h] = peer[h] /\ peer[h].st \notin {"idle", "sending"}
    /\ \E k \in Keys : clients[k].socket = h /\ ~Unread(k)
    /\ \A k \in Keys : clients'[k].socket = h => clients'[k].age = 0 /\ Unread(k)'

LEMMA UnreadKept ==
    ASSUME NEW k, Unread(k), clients'[k].recvBufSize \in {clients[k].recvBufSize, 0},
           Kept(port, port', k)
    PROVE  Unread(k)'
<1>1. PICK sizes, t : InPort(port, k, 0, sizes, t)
  BY DEF Unread
<1>2. \E known, u : InPort(port', k, 0, known, u)
  BY <1>1 DEF Kept
<1>3. QED  BY <1>2 DEF Unread

\* A packet that brings data is at the head of the port.
LEMMA SomethingToRead ==
    ASSUME Typed, port # <<>>, NEW k \in Keys, Present(Head(port), k), Head(port).op = "recv",
           Head(port).n > 0
    PROVE  ~Unread(k)
<1> SUFFICES ASSUME Unread(k) PROVE FALSE
  OBVIOUS
<1>1. port \in Seq(Packet) /\ Head(port) \in Packet
  BY DEF Typed, TypeOK, SockTypeOK
<1>2. PICK sizes, t : InPort(port, k, 0, sizes, t)
  BY DEF Unread
<1>3. Bytes(k)[Head(port)] = Head(port).n /\ Head(port).n \in Nat
  BY <1>1 DEF Bytes, Packet
<1>4. Bytes(k)[Head(port)] \in sizes /\ sizes \subseteq 0 .. 0
  BY <1>1, <1>2, InPortTail, InPortType
<1>5. QED  BY <1>3, <1>4

\* A step in which nothing but a time is changed for the client on h.
LEMMA CalmStep ==
    ASSUME NEW h, peer'[h] = peer[h], Settled(writes[h]) => Settled(writes'[h]),
           \A k \in Keys : clients'[k].socket = h =>
               /\ clients[k].socket = h
               /\ clients'[k].age \in {0, clients[k].age}
               /\ clients'[k].recvBufSize \in {clients[k].recvBufSize, 0}
               /\ Kept(port, port', k)
    PROVE  Calm(h)
<1>1. Begun(h)' => Begun(h)
  BY DEF Begun
<1>2. QED  BY <1>1, UnreadKept DEF Calm

\* The steps of the event loop that handle no data.
LEMMA LooksCalm ==
    ASSUME Sound, Talking, NEW h \in Handles,
           \/ WaitTimedOut \/ OperationFailed \/ AcceptCompleted
           \/ \E k \in Keys : ScheduleDisconnect(k)
    PROVE  Calm(h) /\ ~Asks(h)
<1>1. Typed /\ Belonging
  BY SoundMeans
<1>2. port \in Seq(Packet)
  BY <1>1 DEF Typed, TypeOK, SockTypeOK
<1>3. CASE WaitTimedOut \/ OperationFailed \/ AcceptCompleted
  <2>1. /\ UNCHANGED <<writes, peer, clients>>
        /\ UNCHANGED port \/ (port' = Tail(port) /\ port # <<>> /\ Head(port).op # "recv")
    BY <1>3 DEF WaitTimedOut, OperationFailed, AcceptCompleted, Gets, TakePacket, sockVars
  <2>2. \A k \in Keys : Kept(port, port', k)
    BY <1>1, <1>2, <2>1, KeptSame, NoData
  <2>3. ~Asks(h)
    BY <1>3 DEF WaitTimedOut, OperationFailed, AcceptCompleted, Gets, Asks, Processing
  <2>4. QED  BY <2>1, <2>2, <2>3, CalmStep
<1>4. ASSUME NEW k \in Keys, ScheduleDisconnect(k) PROVE Calm(h) /\ ~Asks(h)
  <2> DEFINE s == clients[k].socket
             p == NewPacket("cancel", k, 0)
  <2>1. UNCHANGED <<peer, clients>> /\ k \in loop.todo
    BY <1>4 DEF ScheduleDisconnect, First
  <2>2. p \in Packet /\ p.op = "cancel"
    BY PacketsAreTyped DEF NewPacket
  <2>3. (CancelIo(s, port, <<p>>)) \/ UNCHANGED <<port, writes>>
    BY <1>4, Zenon DEF ScheduleDisconnect
  <2>4. writes'[h] \in {writes[h], <<>>}
    <3>1. writes \in [Handles -> Seq(Write)]
      BY <1>1 DEF Typed, TypeOK, SockTypeOK
    <3>2. QED  BY <2>3, <3>1 DEF CancelIo
  <2>5. Settled(writes[h]) => Settled(writes'[h])
    BY <2>4 DEF Settled
  <2> HIDE DEF p, s
  <2>6. \A j \in Keys : Kept(port, port', j)
    BY <1>1, <1>2, <2>2, <2>3, KeptSame, KeptCancel
  <2>7. ~Asks(h)
    BY <2>1 DEF Asks, Processing, Idle
  <2>8. QED  BY <2>1, <2>5, <2>6, <2>7, CalmStep
<1>5. QED  BY <1>3, <1>4

\* A connection is taken in, or turned away.
LEMMA AdmissionCalm ==
    ASSUME Sound, Talking, NEW h \in Handles,
           (\E k \in Keys : Admit(k)) \/ RefuseFull \/ RefuseNoAddress
    PROVE  (Calm(h) \/ peer'[h].st = "none") /\ ~Asks(h)
<1> DEFINE a == acceptSocket
<1>1. Typed /\ Belonging
  BY SoundMeans
<1>2. port \in Seq(Packet) /\ \A k \in Keys : Kept(port, port, k)
  BY <1>1, KeptSame DEF Typed, TypeOK, SockTypeOK
<1>3. UNCHANGED <<writes, port>> /\ loop.admit
  BY DEF Admit, RefuseFull, RefuseNoAddress, Refuse, Admission
<1>4. ~Asks(h)
  BY <1>3 DEF Asks, Processing, Idle
<1>5. ASSUME NEW k \in Keys, Admit(k) PROVE Calm(h)
  <2>1. clients' = [clients EXCEPT ![k] = Slot(k)] /\ UNCHANGED peer /\ Slot(k).age = 0
        /\ Slot(k).socket = a
    <3>1. clients' = [clients EXCEPT ![k] = Slot(k)] /\ UNCHANGED peer
      BY <1>5 DEF Admit
    <3>2. clients[k] \in Client
      BY <1>1 DEF Typed, TypeOK
    <3>3. QED  BY <3>1, <3>2 DEF Slot, Client
  <2>2. Stranger(a) /\ clients \in [Keys -> Client]
    BY <1>1 DEF Belonging, Owned, Stranger, Typed, TypeOK
  <2> HIDE DEF a
  <2>3. CASE h = a
    <3>1. \A j \in Keys : clients'[j].socket = h => clients'[j].age = 0
      BY <2>1, <2>2, <2>3 DEF Stranger
    <3>2. QED  BY <1>3, <2>1, <2>2, <2>3, <3>1 DEF Calm, Begun
  <2>4. CASE h # a
    <3>1. \A j \in Keys : clients'[j].socket = h => clients'[j] = clients[j]
      BY <2>1, <2>2, <2>4
    <3>2. QED  BY <1>2, <1>3, <2>1, <3>1, CalmStep
  <2>5. QED  BY <2>3, <2>4
<1>6. CASE RefuseFull \/ RefuseNoAddress
  <2>1. peer' = [peer EXCEPT ![acceptSocket] = Nobody]
    BY <1>6 DEF RefuseFull, RefuseNoAddress, Refuse
  <2>2. peer \in [Handles -> Peer] /\ clients \in [Keys -> Client]
    BY <1>1 DEF Typed, TypeOK, SockTypeOK
  <2>3. CASE h = acceptSocket
    <3>1. peer'[h] = Nobody
      BY <2>1, <2>2, <2>3
    <3>2. QED  BY <1>4, <3>1 DEF Nobody
  <2>4. CASE h # acceptSocket
    <3>1. peer'[h] = peer[h]
      BY <2>1, <2>2, <2>4
    <3>2. ASSUME NEW j \in Keys, clients'[j].socket = h PROVE clients'[j] = clients[j]
      <4>1. CASE RefuseFull
        BY <4>1 DEF RefuseFull
      <4>2. CASE RefuseNoAddress
        <5>1. clients'[j] = IF Occupied(j) THEN clients[j]
                            ELSE [clients[j] EXCEPT !.id = Number(j), !.age = 0]
          BY <4>2 DEF RefuseNoAddress
        <5>2. [clients[j] EXCEPT !.id = Number(j), !.age = 0].socket = clients[j].socket
          BY <2>2 DEF Client
        <5>3. CASE ~Occupied(j)
          BY <3>2, <5>1, <5>2, <5>3, WinsockAssumption DEF Occupied
        <5>4. QED  BY <5>1, <5>3
      <4>3. QED  BY <1>6, <4>1, <4>2
    <3>3. ASSUME NEW j \in Keys, clients'[j].socket = h
          PROVE  /\ clients[j].socket = h /\ clients'[j].age \in {0, clients[j].age}
                 /\ clients'[j].recvBufSize \in {clients[j].recvBufSize, 0}
                 /\ Kept(port, port', j)
      <4>1. clients'[j] = clients[j]
        BY <3>2, <3>3
      <4>2. Kept(port, port, j) /\ port' = port
        BY <1>2, <1>3
      <4>3. QED  BY <3>3, <4>1, <4>2
    <3>4. Settled(writes[h]) => Settled(writes'[h])
      BY <1>3
    <3>5. Calm(h)
      BY <3>1, <3>3, <3>4, CalmStep, Zenon
    <3>6. QED  BY <1>4, <3>5
  <2>5. QED  BY <2>3, <2>4
<1>7. QED  BY <1>4, <1>5, <1>6

\* A handler of data does nothing to the peers of the other slots.
LEMMA OthersCalm ==
    ASSUME Sound, Talking, NEW h \in Handles, hit' = {},
           Gets("recv"), Touch(Head(port)), port' = Tail(port),
           NEW k \in Keys, k = Head(port).key, h # clients[k].socket,
           \A j \in Keys : clients'[j].socket = clients[j].socket,
           \A j \in Keys : j # k => /\ clients'[j].recvBufSize = clients[j].recvBufSize
                                   /\ clients'[j].age = clients[j].age,
           \A g \in Handles : Elsewhere(g) => writes'[g] = writes[g] /\ peer'[g] = peer[g]
    PROVE  Calm(h) /\ ~Asks(h)
<1>1. Typed /\ Belonging
  BY SoundMeans
<1>2. /\ k \in Handled /\ \A j \in Keys : j # k => j \notin Handled
      /\ port \in Seq(Packet) /\ port # <<>> /\ Head(port) \in Packet
  <2>1. port \in Seq(Packet) /\ port # <<>>
    BY <1>1 DEF Gets, Typed, TypeOK, SockTypeOK
  <2>2. Head(port) \in Packet
    BY <2>1
  <2>3. QED  BY <1>1, <2>1, <2>2, HandledSlots
<1>3. writes'[h] = writes[h] /\ peer'[h] = peer[h]
  BY <1>2 DEF Elsewhere, Handled
<1>4. ASSUME NEW j \in Keys, clients'[j].socket = h
      PROVE  /\ clients[j].socket = h /\ clients'[j].age \in {0, clients[j].age}
             /\ clients'[j].recvBufSize \in {clients[j].recvBufSize, 0}
             /\ Kept(port, port', j)
  <2>1. j # k
    BY <1>4
  <2>2. Bytes(j)[Head(port)] = 0
    BY <1>2, <2>1 DEF Bytes, Present
  <2>3. Kept(port, port', j)
    BY <1>2, <2>2, KeptTail
  <2>4. QED  BY <1>4, <2>1, <2>3
<1>5. Calm(h)
  BY <1>3, <1>4, CalmStep, Zenon
<1>6. ~Asks(h)
  BY DEF Asks, Processing
<1>7. QED  BY <1>5, <1>6

\* What the data at the head of the port belongs to.
LEMMA DataOf ==
    ASSUME Sound, Talking, hit' = {}, Gets("recv"), Head(port).n > 0, Touch(Head(port)),
           NEW k \in Keys, k = Head(port).key
    PROVE  /\ ~Unread(k) /\ Occupied(k) /\ clients[k].id = k /\ clients[k].socket \in Handles
           /\ \A j \in Keys : clients[j].socket = clients[k].socket => j = k
<1>1. Typed /\ Belonging
  BY SoundMeans
<1>2. ~Head(port).stale /\ Occupied(k) /\ clients[k].id = k
  BY <1>1, HandledSlots
<1>3. clients[k].socket \in Handles
  BY <1>1, <1>2, OwnedSockets DEF Belonging
<1>4. port # <<>> /\ Present(Head(port), k) /\ Head(port).op = "recv"
  BY <1>2 DEF Present, Gets
<1>5. ~Unread(k)
  BY <1>1, <1>4, SomethingToRead
<1>6. \A j \in Keys : clients[j].socket = clients[k].socket => j = k
  BY <1>1, <1>2 DEF Belonging, Owned
<1>7. QED  BY <1>2, <1>3, <1>5, <1>6

\* Part of a message, or one that nobody answers.
LEMMA UnansweredCalm ==
    ASSUME Sound, Talking, NEW h \in Handles, hit' = {}, ReceivePartial \/ ReceiveUnknown
    PROVE  Calm(h) /\ ~Asks(h)
<1>1. PICK k \in Keys : k = Head(port).key
  BY SoundMeans, ReceiveTyped DEF ReceivePartial, ReceiveUnknown
<1> DEFINE n == Head(port).n
           e == [clients[k] EXCEPT !.age = 0, !.recvBufSize = 0]
           d == Received(k, n)
<1>2. /\ Gets("recv") /\ n > 0 /\ port' = Tail(port) /\ Touch(Head(port))
      /\ UNCHANGED <<writes, peer>>
      /\ clients' = [clients EXCEPT ![k] = d] \/ clients' = [clients EXCEPT ![k] = e]
  <2>1. CASE ReceivePartial
    <3>1. clients' = [clients EXCEPT ![k] = d]
      BY <1>1, <2>1, Zenon DEF ReceivePartial
    <3>2. QED  BY <2>1, <3>1 DEF ReceivePartial, Receive, TakePacket
  <2>2. CASE ReceiveUnknown
    <3>1. clients' = [clients EXCEPT ![k] = e]
      BY <1>1, <2>2, Zenon DEF ReceiveUnknown
    <3>2. QED  BY <2>2, <3>1 DEF ReceiveUnknown, Receive, TakePacket
  <2>3. QED  BY <2>1, <2>2
<1>3. clients \in [Keys -> Client] /\ Sound /\ Typed
  BY SoundMeans
<1>4. \A c \in {d, e} : c.socket = clients[k].socket /\ c.age = 0
  BY <1>3 DEF Received, Client
<1>5. /\ \A j \in Keys : clients'[j].socket = clients[j].socket
      /\ \A j \in Keys : j # k => clients'[j] = clients[j]
      /\ clients'[k].age = 0
  <2> HIDE DEF d, e, n
  <2>1. QED  BY <1>2, <1>3, <1>4
<1>6. CASE h # clients[k].socket
  BY <1>1, <1>2, <1>5, <1>6, OthersCalm
<1>7. CASE h = clients[k].socket
  <2>1. ~Unread(k) /\ \A j \in Keys : clients[j].socket = h => j = k
    BY <1>1, <1>2, <1>7, DataOf
  <2>2. \A j \in Keys : clients'[j].socket = h => j = k
    BY <1>5, <2>1
  <2>3. Calm(h)
    BY <1>2, <1>5, <1>7, <2>1, <2>2 DEF Calm, Begun
  <2>4. ~Asks(h)
    <3>1. CASE ReceivePartial
      BY <1>1, <3>1 DEF ReceivePartial, Receive, Asks, Processing
    <3>2. CASE ReceiveUnknown
      BY <1>1, <3>2 DEF ReceiveUnknown, Receive, Asks, Processing
    <3>3. QED  BY <3>1, <3>2
  <2>5. QED  BY <2>3, <2>4
<1>8. QED  BY <1>6, <1>7

\* The request of one client is handled.
LEMMA RequestServed ==
    ASSUME Sound, Talking, NEW h \in Handles, hit' = {}, ReceiveRequest
    PROVE  (Calm(h) /\ ~Asks(h)) \/ (Asks(h) /\ Serves(h))
<1>1. PICK k \in Keys : k = Head(port).key
  BY SoundMeans, ReceiveTyped DEF ReceiveRequest
<1> DEFINE m == recvBuf[k].head
           c == Answering(clients[k], m)
           s == clients[k].socket
<1>2. /\ Receive("request") /\ Gets("recv") /\ port' = Tail(port) /\ Touch(Head(port))
      /\ Head(port).n > 0 /\ UNCHANGED peer
  BY DEF ReceiveRequest, Receive, TakePacket
<1>3. clients' = [clients EXCEPT ![k] = c] /\ WSASend(s, m.reply, TRUE)
  BY <1>1, Zenon DEF ReceiveRequest
<1>4. clients \in [Keys -> Client] /\ Sound /\ Typed /\ Belonging
  BY SoundMeans
<1>5. c.socket = s /\ c.age = 0 /\ c.recvBufSize = 0
  BY <1>4 DEF Client, Answering
<1> HIDE DEF c
<1>6. /\ \A j \in Keys : clients'[j].socket = clients[j].socket
      /\ \A j \in Keys : j # k => clients'[j] = clients[j]
      /\ clients'[k].age = 0 /\ clients'[k].recvBufSize = 0
  BY <1>3, <1>4, <1>5
<1>7. CASE h # s
  <2>1. \A g \in Handles : Elsewhere(g) => writes'[g] = writes[g] /\ peer'[g] = peer[g]
    BY <1>1, <1>2, <1>3, <1>4, HandledElsewhere
  <2>2. QED  BY <1>1, <1>2, <1>6, <1>7, <2>1, OthersCalm
<1>8. CASE h = s
  <2>1. ~Unread(k) /\ \A j \in Keys : clients[j].socket = h => j = k
    BY <1>1, <1>2, <1>8, DataOf
  <2>2. Asks(h)
    BY <1>1, <1>2, <1>8 DEF Receive, Gets, Asks, Processing
  <2>3. PICK b, sizes, t, known : Complete(k, b, sizes, t, known)
    BY <1>1, <1>2, <1>4, MessageCompletes DEF Kinds
  <2>4. peer[h].st \notin {"idle", "sending"}
    BY <1>8, <2>3 DEF Complete, Arrived
  <2>5. Unread(k)'
    <3>1. InPort(port', k, 0, known, t - 1)
      BY <1>2, <2>3 DEF Complete
    <3>2. QED  BY <1>6, <3>1 DEF Unread
  <2>6. \A j \in Keys : clients'[j].socket = h => clients'[j].age = 0 /\ Unread(j)'
    BY <1>6, <2>1, <2>5
  <2>7. Serves(h)
    BY <1>2, <1>8, <2>1, <2>4, <2>6 DEF Serves
  <2>8. QED  BY <2>2, <2>7
<1>9. QED  BY <1>7, <1>8

\* The key is exported to one client.
LEMMA KeyGreets ==
    ASSUME Sound, Talking, NEW h \in Handles, hit' = {}, ReceiveKeyRequest
    PROVE  (Calm(h) \/ Greets(h)) /\ ~Asks(h)
<1>1. PICK k \in Keys : k = Head(port).key
  BY SoundMeans, ReceiveTyped DEF ReceiveKeyRequest
<1> DEFINE m == recvBuf[k].head
           c == Answering(clients[k], m)
           s == clients[k].socket
<1>2. /\ Receive("key") /\ Gets("recv") /\ port' = Tail(port) /\ Touch(Head(port))
      /\ Head(port).n > 0 /\ m.kind = "key"
  BY <1>1 DEF ReceiveKeyRequest, Receive, TakePacket
<1>3. clients[k].id = k /\ s \in Handles /\ \A j \in Keys : clients[j].socket = s => j = k
  BY <1>1, <1>2, DataOf
<1>4. /\ clients' = Emptied([clients EXCEPT ![k] = c], k) /\ WSASend(s, m.reply, TRUE)
      /\ peer' = IF Usable(s) THEN [peer EXCEPT ![s].key = symKeys[k]] ELSE peer
  BY <1>1, <1>3, Zenon DEF ReceiveKeyRequest
<1>5. clients \in [Keys -> Client] /\ Sound /\ Typed /\ Belonging /\ peer \in [Handles -> Peer]
  BY SoundMeans
<1>6. c.socket = s /\ c.age = 0
  BY <1>5 DEF Client, Answering
<1>7. /\ \A j \in Keys : j # k => clients'[j] = clients[j]
      /\ clients'[k] = [c EXCEPT !.recvBufSize = 0]
  BY <1>4, <1>5 DEF Emptied
<1>8. [c EXCEPT !.recvBufSize = 0].socket = s /\ [c EXCEPT !.recvBufSize = 0].age = 0
  BY <1>5, <1>6 DEF Client, Answering
<1> HIDE DEF c, m
<1>9. /\ \A j \in Keys : clients'[j].socket = clients[j].socket
      /\ clients'[k].age = 0
  BY <1>7, <1>8
<1>10. CASE h # s
  <2>1. \A g \in Handles : Elsewhere(g) => writes'[g] = writes[g] /\ g # s
    BY <1>1, <1>4, <1>5, HandledElsewhere
  <2>2. \A g \in Handles : g # s => peer'[g] = peer[g]
    BY <1>4, <1>5
  <2>3. QED  BY <1>1, <1>2, <1>7, <1>9, <1>10, <2>1, <2>2, OthersCalm
<1>11. CASE h = s
  <2>1. PICK b, sizes, t, known : Complete(k, b, sizes, t, known)
    BY <1>1, <1>2, <1>5, MessageCompletes DEF Kinds
  <2>2. peer[h].key = NoKey
    BY <1>2, <1>11, <2>1 DEF Complete, Arrived, m
  <2>3. peer'[h].st = peer[h].st
    <3>1. [peer[h] EXCEPT !.key = symKeys[k]].st = peer[h].st
      BY <1>5 DEF Peer
    <3>2. peer'[h] \in {peer[h], [peer[h] EXCEPT !.key = symKeys[k]]}
      BY <1>4, <1>5, <1>11
    <3>3. QED  BY <3>1, <3>2
  <2>4. \A j \in Keys : clients'[j].socket = h => clients'[j].age = 0
    BY <1>3, <1>9, <1>11
  <2>5. ~Asks(h)
    BY <1>1, <1>2 DEF Asks, Processing, m
  <2>6. QED  BY <2>2, <2>3, <2>4, <2>5 DEF Greets
<1>12. QED  BY <1>10, <1>11

\* An answer has been written, or a peer has closed.
LEMMA WrittenCalm ==
    ASSUME Sound, Talking, NEW h \in Handles, SendDone \/ SendPartial \/ ReceiveEnd
    PROVE  Calm(h) /\ ~Asks(h)
<1>1. Typed /\ Belonging /\ clients \in [Keys -> Client]
  BY SoundMeans
<1>2. CASE SendDone \/ SendPartial
  <2>1. PICK k \in Keys : k = Head(port).key
    BY <1>1, <1>2, HeadOfPort DEF SendDone, SendPartial, Send, Gets
  <2> DEFINE u == Unsent(k, Head(port).n)
             c == [clients[k] EXCEPT !.unsent = u]
             cs == [clients EXCEPT ![k] = c]
  <2>2. /\ Gets("send") /\ port # <<>> /\ Head(port).op = "send" /\ port' = Tail(port) /\ UNCHANGED peer
        /\ Touch(Head(port))
    BY <1>2 DEF SendDone, SendPartial, Send, TakePacket, Gets
  <2>3. /\ clients' = cs \/ clients' = Emptied(cs, clients[k].id)
        /\ UNCHANGED writes \/ (WSASend(clients[k].socket, u, FALSE) /\ u > 0)
    BY <1>2, <2>1, Zenon DEF SendDone, SendPartial
  <2>4. u \in Int
    <3>1. Head(port).n \in Nat /\ clients[k].unsent \in Int
      BY <1>1, <2>1, <2>2, HandledSlots DEF Client
    <3>2. QED  BY <3>1 DEF Unsent
  <2>5. /\ c \in Client /\ c.socket = clients[k].socket /\ c.age = clients[k].age
        /\ c.recvBufSize = clients[k].recvBufSize
    <3> HIDE DEF u
    <3>1. QED  BY <1>1, <2>4 DEF Client
  <2>6. \A j \in Keys : /\ cs[j].socket = clients[j].socket /\ cs[j].age = clients[j].age
                        /\ cs[j].recvBufSize = clients[j].recvBufSize
    <3> HIDE DEF c
    <3>1. QED  BY <1>1, <2>5
  <2>7. \A j \in Keys : /\ clients'[j].socket = clients[j].socket /\ clients'[j].age = clients[j].age
                        /\ clients'[j].recvBufSize \in {clients[j].recvBufSize, 0}
    <3> DEFINE e(j) == [cs[j] EXCEPT !.recvBufSize = 0]
    <3>1. ASSUME NEW j \in Keys
          PROVE  e(j).socket = cs[j].socket /\ e(j).age = cs[j].age /\ e(j).recvBufSize = 0
      <4>1. cs[j] \in Client
        <5> HIDE DEF c
        <5>1. QED  BY <1>1, <2>5
      <4> HIDE DEF c, cs
      <4>2. QED  BY <4>1 DEF Client
    <3>2. \A j \in Keys : clients'[j] \in {e(j), cs[j]}
      <4> HIDE DEF cs
      <4>1. QED  BY <2>3 DEF Emptied
    <3> HIDE DEF cs, e
    <3>3. QED  BY <2>6, <3>1, <3>2
  <2> HIDE DEF cs, c
  <2>8. \A j \in Keys : Kept(port, port', j)
    BY <1>1, <2>2, NoData
  <2>9. Calm(h)
    <3>1. Settled(writes[h]) => Settled(writes'[h])
      <4>1. CASE UNCHANGED writes
        BY <4>1
      <4>2. CASE WSASend(clients[k].socket, u, FALSE) /\ u > 0
        <5> DEFINE wr == writes[h]
        <5>1. wr \in Seq(Write) /\ u \in Nat
          BY <1>1, <2>4, <4>2 DEF Typed, TypeOK, SockTypeOK
        <5>2. writes'[h] \in {wr, Append(wr, NewWrite(u, FALSE))}
          <6> DEFINE s == clients[k].socket
          <6> HIDE DEF s, u
          <6>1. WSASend(s, u, FALSE) =>
                  /\ \A g \in Handles : g # s => writes'[g] = writes[g]
                  /\ s \in Handles => writes'[s] = IF Usable(s) THEN Append(writes[s], NewWrite(u, FALSE))
                                                  ELSE writes[s]
            BY <1>1, CallsOn, Zenon
          <6>2. QED  BY <4>2, <6>1 DEF s
        <5> HIDE DEF wr, u
        <5>3. Settled(wr) => Settled(Append(wr, NewWrite(u, FALSE)))
          BY <5>1, OneMoreWrite
        <5>4. Settled(wr) => Settled(writes'[h])
          BY <5>2, <5>3
        <5>5. QED  BY <5>4 DEF wr
      <4>3. QED  BY <2>3, <4>1, <4>2
    <3>2. QED  BY <2>2, <2>7, <2>8, <3>1, CalmStep
  <2>10. ~Asks(h)
    BY <2>2 DEF Asks, Processing
  <2>11. QED  BY <2>9, <2>10
<1>3. CASE ReceiveEnd
  <2>1. PICK k \in Keys : k = Head(port).key
    BY <1>1, <1>3, HeadOfPort DEF ReceiveEnd
  <2> DEFINE p == [NewPacket("cancel", k, 0) EXCEPT !.stale = Head(port).stale]
             d == [clients[k] EXCEPT !.age = 0]
  <2>2. Gets("recv") /\ port # <<>> /\ Head(port).op = "recv" /\ Head(port).n = 0
    BY <1>3 DEF ReceiveEnd, Gets
  <2>3. p \in Packet /\ p.op = "cancel"
    <3>1. Head(port).stale \in BOOLEAN
      BY <1>1, <2>2, HeadOfPort
    <3>2. QED  BY <2>1, <3>1 DEF NewPacket, Packet
  <2>4. /\ UNCHANGED peer /\ clients' = [clients EXCEPT ![k] = d]
        /\ CancelIo(clients[k].socket, Tail(port), <<p>>)
    BY <1>3, <2>1, Zenon DEF ReceiveEnd
  <2>5. d.socket = clients[k].socket /\ d.recvBufSize = clients[k].recvBufSize /\ d.age = 0
    BY <1>1 DEF Client
  <2>6. writes'[h] \in {writes[h], <<>>}
    <3>1. writes \in [Handles -> Seq(Write)]
      BY <1>1 DEF Typed, TypeOK, SockTypeOK
    <3>2. QED  BY <2>4, <3>1 DEF CancelIo
  <2>7. Settled(writes[h]) => Settled(writes'[h])
    BY <2>6 DEF Settled
  <2> HIDE DEF p, d
  <2>8. \A j \in Keys : Kept(port, port', j)
    <3>1. Tail(port) \in Seq(Packet) /\ \A j \in Keys : Kept(port, Tail(port), j)
      BY <1>1, <2>2, NoData
    <3>2. port \in Seq(Packet)
      BY <1>1 DEF Typed, TypeOK, SockTypeOK
    <3>3. QED  BY <1>1, <2>3, <2>4, <3>1, <3>2, KeptCancel
  <2>9. \A j \in Keys : /\ clients'[j].socket = clients[j].socket /\ clients'[j].age \in {0, clients[j].age}
                        /\ clients'[j].recvBufSize = clients[j].recvBufSize
    BY <1>1, <2>4, <2>5
  <2>10. Calm(h)
    BY <2>4, <2>7, <2>8, <2>9, CalmStep
  <2>11. ~Asks(h)
    BY <2>2 DEF Asks, Processing
  <2>12. QED  BY <2>10, <2>11
<1>4. QED  BY <1>2, <1>3

\* A slot is freed: its peer is gone, and nobody else notices.
LEMMA FreedCalm ==
    ASSUME Sound, Talking, NEW h \in Handles, Cancelled
    PROVE  (Calm(h) \/ peer'[h].st = "none") /\ ~Asks(h)
<1>1. Typed /\ Belonging /\ clients \in [Keys -> Client] /\ peer \in [Handles -> Peer]
      /\ writes \in [Handles -> Seq(Write)]
  BY SoundMeans
<1>2. PICK k \in Keys : k = Head(port).key
  BY <1>1, HeadOfPort DEF Cancelled, Gets
<1> DEFINE s == clients[k].socket
<1>3. port # <<>> /\ port \in Seq(Packet) /\ Head(port).op = "cancel"
  BY <1>1 DEF Cancelled, Gets, Typed, TypeOK, SockTypeOK
<1>4. ~Asks(h)
  BY <1>3 DEF Asks, Processing
<1>5. CASE s = INVALID_SOCKET
  <2>1. port' = Tail(port) /\ UNCHANGED <<writes, peer, clients>>
    BY <1>2, <1>5, Zenon DEF Cancelled
  <2>2. \A j \in Keys : Kept(port, port', j)
    BY <1>1, <1>3, <2>1, NoData
  <2>3. Calm(h)
    BY <2>1, <2>2, CalmStep
  <2>4. QED  BY <1>4, <2>3
<1>6. CASE s # INVALID_SOCKET
  <2>1. s \in open /\ s \in Handles
    BY <1>1, <1>2, <1>6, OwnedSockets DEF Belonging, Occupied
  <2>2. /\ Close(s)
        /\ clients' = [clients EXCEPT ![k] = FreeClient]
        /\ port' = [i \in 1 .. Len(port) - 1 |->
                     [port[i + 1] EXCEPT !.stale = @ \/ port[i + 1].key = k]]
    BY <1>2, <1>6, <2>1, Zenon DEF Cancelled, closesocket
  <2>3. peer' = [peer EXCEPT ![s] = Nobody] /\ writes' = [writes EXCEPT ![s] = <<>>]
    BY <2>2 DEF Close
  <2>4. CASE h = s
    BY <1>1, <1>4, <2>1, <2>3, <2>4 DEF Nobody
  <2>5. CASE h # s
    <3>1. peer'[h] = peer[h] /\ writes'[h] = writes[h]
      BY <1>1, <2>3, <2>5
    <3>2. ASSUME NEW j \in Keys, clients'[j].socket = h
          PROVE  /\ clients[j].socket = h /\ clients'[j].age \in {0, clients[j].age}
                 /\ clients'[j].recvBufSize \in {clients[j].recvBufSize, 0}
                 /\ Kept(port, port', j)
      <4>1. j # k
        BY <1>1, <2>2, <3>2, WinsockAssumption DEF FreeClient
      <4>2. clients'[j] = clients[j]
        BY <1>1, <2>2, <4>1
      <4>3. Kept(port, port', j)
        BY <1>3, <2>2, <4>1, KeptMarked
      <4>4. QED  BY <3>2, <4>2, <4>3
    <3>3. Calm(h)
      BY <3>1, <3>2, CalmStep, Zenon
    <3>4. QED  BY <1>4, <3>3
  <2>6. QED  BY <2>4, <2>5
<1>7. QED  BY <1>5, <1>6

\* What a step of the event loop is to the peer on h.
Overlooks(h) == (Calm(h) \/ peer'[h].st = "none" \/ Greets(h)) /\ ~Asks(h)

LEMMA ThreadCalm ==
    ASSUME Sound, Talking, NEW h \in Handles, hit' = {}, Thread, NoLeak'
    PROVE  Overlooks(h) \/ (Asks(h) /\ Serves(h))
<1>1. ~\E k \in Keys : RefuseNotAssociated(k)
  BY DEF RefuseNotAssociated, NoLeak
<1>2. ASSUME NEW k \in Keys, ScheduleDisconnect(k) \/ Admit(k) PROVE Overlooks(h)
  BY <1>2, LooksCalm, AdmissionCalm DEF Overlooks
<1>3. CASE WaitTimedOut \/ OperationFailed \/ AcceptCompleted
  BY <1>3, LooksCalm DEF Overlooks
<1>4. CASE RefuseFull \/ RefuseNoAddress
  BY <1>4, AdmissionCalm DEF Overlooks
<1>5. CASE ReceivePartial \/ ReceiveUnknown
  BY <1>5, UnansweredCalm DEF Overlooks
<1>6. CASE ReceiveKeyRequest
  BY <1>6, KeyGreets DEF Overlooks
<1>7. CASE ReceiveRequest
  BY <1>7, RequestServed DEF Overlooks
<1>8. CASE SendDone \/ SendPartial \/ ReceiveEnd
  BY <1>8, WrittenCalm DEF Overlooks
<1>9. CASE Cancelled
  BY <1>9, FreedCalm DEF Overlooks
<1>10. QED  BY <1>1, <1>2, <1>3, <1>4, <1>5, <1>6, <1>7, <1>8, <1>9, Zenon DEF Thread

\* What a completion is to the peer on h: it starts no answer, the peer starts no
\* message, and nothing is read of one that is not sending.
Hears(h) ==
    /\ peer'[h].key = peer[h].key /\ (peer[h].st # "none" => peer'[h].st # "none")
    /\ peer[h].st = "idle" => peer'[h].st = "idle"
    /\ peer'[h].st = "sending" => peer[h].st = "sending"
    /\ Begun(h)' => Begun(h)
    /\ peer[h].st # "sending" => \A k \in Keys : clients[k].socket = h /\ Unread(k) => Unread(k)'

\* What of a write reaches a peer begins no answer but one that the write starts.
LEMMA GivenIs ==
    ASSUME NEW p \in Peer, NEW wr \in Seq(Write), NEW i \in DOMAIN wr, ~wr[i].sent, NEW n \in Nat
    PROVE  LET q == Given(p, wr[i], n) IN
           /\ q.key = p.key /\ (p.st # "none" => q.st # "none")
           /\ p.st = "idle" => q.st = "idle"
           /\ q.st = "sending" => p.st = "sending"
           /\ q.st = "idle" => p.st = "idle" \/ (p.st = "waiting" /\ (p.got # 0 \/ ~Settled(wr)))
           /\ q.st = "waiting" => /\ p.st = "waiting"
                                  /\ q.got # 0 => p.got # 0 \/ ~Settled(wr)
<1> DEFINE w == wr[i]
           q == Given(p, w, n)
           a == [p EXCEPT !.got = p.got + n]
           b == [Connected EXCEPT !.key = p.key]
           c == [p EXCEPT !.st = "garbled"]
           d == [p EXCEPT !.junk = TRUE]
<1>1. a.key = p.key /\ a.st = p.st
  BY DEF Peer
<1>2. b.key = p.key /\ b.st = "idle"
  BY DEF Connected, Nobody
<1>3. c.key = p.key /\ c.st = "garbled"
  BY DEF Peer
<1>4. d.key = p.key /\ d.st = p.st /\ d.got = p.got
  BY DEF Peer
<1>5. Wanted(p, w) => p.st = "waiting" /\ (p.got # 0 \/ ~Settled(wr))
  <2>1. Wanted(p, w) /\ p.got = 0 => w.first
    BY DEF Wanted
  <2>2. w.first => ~Settled(wr)
    BY DEF Settled, Starting
  <2>3. QED  BY <2>1, <2>2 DEF Wanted
<1> DEFINE A == Wanted(p, w) /\ n < w.n
           B == Wanted(p, w) /\ n = w.n
           C == p.st = "waiting" /\ ~Wanted(p, w)
           D == p.st \in {"idle", "sending"}
<1>6. /\ A /\ ~B /\ ~C /\ ~D => q = a
      /\ ~A /\ B /\ ~C /\ ~D => q = b
      /\ ~A /\ ~B /\ C /\ ~D => q = c
      /\ ~A /\ ~B /\ ~C /\ D => q = d
      /\ ~A /\ ~B /\ ~C /\ ~D => q = p
  <2>1. A /\ ~B /\ ~C /\ ~D => q = a
    BY Zenon DEF Given
  <2>2. ~A /\ B /\ ~C /\ ~D => q = b
    BY Zenon DEF Given
  <2>3. ~A /\ ~B /\ C /\ ~D => q = c
    BY Zenon DEF Given
  <2>4. ~A /\ ~B /\ ~C /\ D => q = d
    BY Zenon DEF Given
  <2>5. ~A /\ ~B /\ ~C /\ ~D => q = p
    BY Zenon DEF Given
  <2>6. QED  BY <2>1, <2>2, <2>3, <2>4, <2>5
<1>7. /\ Wanted(p, w) => p.st = "waiting"
      /\ w.n \in Nat
  <2>1. w \in Write
    OBVIOUS
  <2>2. QED  BY <2>1 DEF Wanted, Write
<1> HIDE DEF a, b, c, d, w, q
<1>8. /\ q.key = p.key /\ (p.st # "none" => q.st # "none")
      /\ p.st = "idle" => q.st = "idle"
      /\ q.st = "sending" => p.st = "sending"
      /\ q.st = "idle" => p.st = "idle" \/ (p.st = "waiting" /\ (p.got # 0 \/ ~Settled(wr)))
      /\ q.st = "waiting" => /\ p.st = "waiting"
                             /\ q.got # 0 => p.got # 0 \/ ~Settled(wr)
  BY <1>1, <1>2, <1>3, <1>4, <1>5, <1>6, <1>7
<1>9. QED  BY <1>8 DEF w, q

\* A packet without data of a slot is queued.
LEMMA UnreadQueued ==
    ASSUME Typed, NEW k \in Keys, Unread(k), NEW op \in {"recv", "send"}, NEW n \in Nat,
           op = "recv" => n = 0, port' = Append(port, NewPacket(op, k, n)), UNCHANGED clients
    PROVE  Unread(k)'
<1>1. PICK sizes, t : InPort(port, k, 0, sizes, t)
  BY DEF Unread
<1>2. port \in Seq(Packet)
  BY DEF Typed, TypeOK, SockTypeOK
<1>3. 0 = IF op = "recv" THEN n ELSE 0
  OBVIOUS
<1>4. \E known : InPort(port', k, 0 + 0, known, t + 1)
  BY <1>1, <1>2, <1>3, PacketQueued
<1>5. clients'[k].recvBufSize = 0
  BY DEF Unread
<1>6. QED  BY <1>4, <1>5 DEF Unread

LEMMA CompletionHears ==
    ASSUME Sound, Talking, hit = {}, UNCHANGED serverVars, NEW h \in Handles,
           NEW g \in Handles, Completion(g)
    PROVE  Hears(h)
<1>1. /\ Typed /\ Belonging /\ UNCHANGED clients /\ port \in Seq(Packet)
      /\ peer \in [Handles -> Peer] /\ writes \in [Handles -> Seq(Write)]
  BY SoundMeans DEF serverVars, Typed, TypeOK, SockTypeOK
<1>2. reads[g] # <<>> \/ writes[g] # <<>>
  <2> DEFINE wr == writes[g]
  <2>1. \A i, n : Transmit(g, i, n) => i \in DOMAIN wr
    BY DEF Transmit
  <2>2. \A i \in DOMAIN wr : wr # <<>>
    BY <1>1
  <2> HIDE DEF wr
  <2>3. QED  BY <2>1, <2>2 DEF Completion, Deliver, DeliverEof, SendCompletes, wr
<1>3. PICK k \in Keys : clients[k].socket = g /\ Occupied(k) /\ assoc[g] = k
  BY <1>1, <1>2, OwnerOf
<1>4. \A j \in Keys : clients[j].socket = g => j = k
  BY <1>1, <1>3 DEF Belonging, Owned
<1>5. PICK b, sizes, t : Speaks(k, b, sizes, t)
  BY <1>1, <1>3, ClientSpeaks
<1>6. /\ StreamType(peer[g], reads[g], writes[g], clients[k].recvBufSize, recvBuf[k], b, sizes, t)
      /\ Stream(peer[g], reads[g], writes[g], clients[k].recvBufSize, recvBuf[k], b, sizes, t)
  BY <1>3, <1>5 DEF Speaks
<1>7. writes[g] # <<>> => Head(writes[g]).n \in Nat
  <2> DEFINE wr == writes[g]
  <2>1. wr \in Seq(Write)
    BY <1>1
  <2> HIDE DEF wr
  <2>2. wr # <<>> => Head(wr) \in Write
    BY <2>1
  <2>3. wr # <<>> => Head(wr).n \in Nat
    BY <2>2 DEF Write
  <2>4. QED  BY <2>3 DEF wr
<1>8. CASE h # g
  <2>1. peer'[h] = peer[h] /\ writes'[h] = writes[h]
    BY <1>1, <1>8 DEF Completion, Deliver, DeliverEof, Transmit, SendCompletes
  <2>2. port' = port \/ \E p \in Packet : p.key = k /\ port' = Append(port, p)
    <3>1. ASSUME NEW n \in Nat, NEW op \in {"recv", "send"}, port' = Append(port, NewPacket(op, k, n))
          PROVE  \E p \in Packet : p.key = k /\ port' = Append(port, p)
      BY <3>1, PacketsAreTyped DEF NewPacket
    <3>2. ASSUME NEW n \in 0 .. MAX_BUF_SIZE, Deliver(g, n) PROVE port' = Append(port, NewPacket("recv", k, n))
      BY <1>3, <3>2, Zenon DEF Deliver
    <3>3. CASE DeliverEof(g)
      <4>1. port' = Append(port, NewPacket("recv", k, 0))
        BY <1>3, <3>3, Zenon DEF DeliverEof
      <4>2. QED  BY <3>1, <4>1
    <3>4. CASE SendCompletes(g)
      <4>1. port' = Append(port, NewPacket("send", k, Head(writes[g]).n)) /\ writes[g] # <<>>
        BY <1>3, <3>4, Zenon DEF SendCompletes
      <4>2. Head(writes[g]).n \in Nat
        BY <1>7, <4>1
      <4>3. QED  BY <3>1, <4>1, <4>2
    <3>5. ASSUME NEW i, NEW n, Transmit(g, i, n) PROVE port' = port
      BY <3>5 DEF Transmit
    <3>6. \A n \in 0 .. MAX_BUF_SIZE : n \in Nat
      BY WinsockAssumption
    <3>7. QED  BY <3>1, <3>2, <3>3, <3>4, <3>5, <3>6 DEF Completion
  <2>3. \A j \in Keys : j # k => Kept(port, port', j)
    BY <1>1, <2>2, KeptSame, KeptOther
  <2>4. \A j \in Keys : clients[j].socket = h /\ Unread(j) => Unread(j)'
    BY <1>1, <1>3, <1>8, <2>3, UnreadKept
  <2>5. QED  BY <1>1, <2>1, <2>4 DEF Hears, Begun
<1>9. CASE h = g
  <2>1. ASSUME NEW n \in 0 .. MAX_BUF_SIZE, Deliver(g, n) PROVE Hears(h)
    <3> DEFINE q == Taken(peer[g], n)
    <3>1. peer' = [peer EXCEPT ![g] = q] /\ peer[g].st = "sending" /\ UNCHANGED writes
      BY <2>1, Zenon DEF Deliver
    <3>2. q.st \in {"sending", "waiting", "garbled"} /\ q.key = peer[g].key /\ q.got = peer[g].got
      BY <1>1, <3>1 DEF Taken, Peer
    <3>3. peer[g].got = 0 /\ Settled(writes[g])
      BY <1>6, <3>1 DEF Stream, InOrder, SendingStream, WaitingStream
    <3> HIDE DEF q
    <3>4. peer'[g] = q
      BY <1>1, <3>1
    <3>5. ~Begun(g)'
      BY <3>1, <3>2, <3>3, <3>4 DEF Begun
    <3>6. QED  BY <1>9, <3>1, <3>2, <3>4, <3>5 DEF Hears
  <2>2. CASE DeliverEof(g)
    <3>1. UNCHANGED <<peer, writes>> /\ port' = Append(port, NewPacket("recv", k, 0))
      BY <1>3, <2>2, Zenon DEF DeliverEof
    <3>2. Unread(k) => Unread(k)'
      BY <1>1, <3>1, UnreadQueued
    <3>3. QED  BY <1>4, <1>9, <3>1, <3>2 DEF Hears, Begun
  <2>3. CASE SendCompletes(g)
    <3>1. /\ UNCHANGED peer /\ port' = Append(port, NewPacket("send", k, Head(writes[g]).n))
          /\ writes[g] # <<>> /\ writes' = [writes EXCEPT ![g] = Tail(writes[g])]
      BY <1>3, <2>3, Zenon DEF SendCompletes
    <3>2. Head(writes[g]).n \in Nat
      BY <1>7, <3>1
    <3>3. Unread(k) => Unread(k)'
      BY <1>1, <3>1, <3>2, UnreadQueued
    <3>4. Settled(writes[g]) => Settled(writes'[g])
      <4>1. writes'[g] = Tail(writes[g])
        BY <1>1, <3>1
      <4> DEFINE wr == writes[g]
      <4>2. wr \in Seq(Write) /\ wr # <<>>
        BY <1>1, <3>1
      <4> HIDE DEF wr
      <4>3. \A i \in DOMAIN Tail(wr) : i + 1 \in DOMAIN wr /\ Tail(wr)[i] = wr[i + 1]
        BY <4>2
      <4>4. Settled(wr) => Settled(Tail(wr))
        BY <4>3 DEF Settled, Starting
      <4>5. QED  BY <4>1, <4>4 DEF wr
    <3>5. QED  BY <1>4, <1>9, <3>1, <3>3, <3>4 DEF Hears, Begun
  <2>4. ASSUME NEW i \in DOMAIN writes[g], NEW n \in 1 .. writes[g][i].n, Transmit(g, i, n)
        PROVE  Hears(h)
    <3> DEFINE p == peer[g]
               wr == writes[g]
               q == Given(p, wr[i], n)
               r == [wr EXCEPT ![i] = [wr[i] EXCEPT !.n = n, !.sent = TRUE]]
    <3>1. /\ UNCHANGED port /\ ~wr[i].sent
          /\ writes' = [writes EXCEPT ![g] = r]
          /\ peer' = [peer EXCEPT ![g] = q]
      BY <2>4 DEF Transmit
    <3>2. p \in Peer /\ wr \in Seq(Write) /\ i \in DOMAIN wr /\ n \in Nat
      <4>1. wr[i] \in Write
        BY <1>1
      <4>2. QED  BY <1>1, <4>1 DEF Write
    <3>3. peer'[g] = q /\ writes'[g] = r
      <4> HIDE DEF q, r
      <4>1. QED  BY <1>1, <3>1
    <3>4. Settled(wr) => Settled(r)
      <4> HIDE DEF wr, p
      <4>1. QED  BY <3>2, WriteSent
    <3>5. /\ q.key = p.key /\ (p.st # "none" => q.st # "none")
          /\ p.st = "idle" => q.st = "idle"
          /\ q.st = "sending" => p.st = "sending"
          /\ q.st = "idle" => p.st = "idle" \/ (p.st = "waiting" /\ (p.got # 0 \/ ~Settled(wr)))
          /\ q.st = "waiting" => /\ p.st = "waiting"
                                 /\ q.got # 0 => p.got # 0 \/ ~Settled(wr)
      <4> HIDE DEF wr, p
      <4>1. QED  BY <3>1, <3>2, GivenIs
    <3> HIDE DEF r, q
    <3>6. \A j \in Keys : Unread(j) => Unread(j)'
      BY <1>1, <3>1, KeptSame, UnreadKept
    <3>7. Begun(g)' => Begun(g)
      BY <3>3, <3>4, <3>5 DEF Begun
    <3>8. QED  BY <1>9, <3>3, <3>5, <3>6, <3>7 DEF Hears
  <2>5. QED  BY <2>1, <2>2, <2>3, <2>4 DEF Completion
<1>10. QED  BY <1>8, <1>9

(***************************************************************************)
(* A command runs once.                                                    *)
(***************************************************************************)
\* What is left of the request sent on h when the server has handled it r times: no
\* answer to it is on its way before it runs, and nothing is left to read after.
Stands(h, r) ==
    /\ r = 0 => ~Begun(h)
    /\ r = 1 => /\ peer[h].st # "sending"
                /\ \A k \in Keys : clients[k].socket = h => Unread(k)

Counted ==
    asked # INVALID_SOCKET =>
        /\ asked \in Handles /\ peer[asked].key # NoKey /\ peer[asked].st # "none"
        /\ Stands(asked, runs)

\* Where the client is in its calls.
InCall ==
    /\ at \in Calls /\ runs \in {0, 1} /\ since \in 0 .. TIMEOUT + 1
    /\ end \in {"up", "closed", "reset"} /\ key \in Handles \cup {NoKey}
    /\ inbox = <<>> \/ \E x \in Handles \cup {NoKey} : inbox = <<x>>
    /\ outcome \in Remote!Outcomes
    /\ outcome = "pending" <=> at # "prompt"
    /\ outcome = "none" => asked = INVALID_SOCKET
    /\ outcome = "answered" => runs = 1
    /\ at \notin {"prompt", "recv", "abort"} => asked = INVALID_SOCKET /\ runs = 0
    /\ at \notin {"recvKey", "recv"} /\ end # "reset" => inbox = <<>>
    /\ at = "recv" /\ inbox # <<>> => runs = 1
    /\ at = "abort" => end = "closed"

\* While it is in touch, its turns are those of its peer; and the server has not
\* waited longer for it than it has for the server.
Turns ==
    InTouch =>
        /\ at \in {"prompt", "sendKey", "send"} => peer[conn].st = "idle"
        /\ inbox # <<>> => peer[conn].st = "idle"
        /\ at = "recv" => asked = conn
        /\ \A k \in Keys : clients[k].socket = conn /\ Begun(conn) => clients[k].age <= since

Todo == \A k \in loop.todo : k \in Keys /\ clients[k].age > TIMEOUT

Calling == Counted /\ InCall /\ Turns /\ Todo

\* The inductive invariant.
Served == SessionInv /\ Streaming /\ (NoLeak /\ hit = {} => Calling)

\* What the steps below start from.
Ready ==
    Sound /\ Talking /\ AtHome /\ Linked /\ Calling /\ hit = {}

LEMMA ReadyMeans ==
    ASSUME Ready
    PROVE  /\ Sound /\ Talking /\ Typed /\ Belonging /\ hit = {}
           /\ Counted /\ InCall /\ Turns /\ Todo /\ Linked
           /\ conn \notin {INVALID_SOCKET, Backlog} => conn \in Handles
           /\ conn = Backlog /\ end = "up" => at \in {"sendKey", "recvKey"} /\ inbox = <<>>
           /\ INVALID_SOCKET \notin Handles /\ Backlog \notin Handles /\ Backlog # INVALID_SOCKET
           /\ at = "connect" => conn = INVALID_SOCKET
           /\ at \in {"sendKey", "recvKey", "send", "recv"} => conn # INVALID_SOCKET
           /\ peer \in [Handles -> Peer] /\ clients \in [Keys -> Client]
           /\ writes \in [Handles -> Seq(Write)]
  BY SoundMeans, WinsockAssumption, SessionAssumption DEF Ready, Calling, AtHome, Sockets

\* A connection whose peer closes or is reset.
LEMMA CountedGone ==
    ASSUME Counted, peer \in [Handles -> Peer], writes \in [Handles -> Seq(Write)],
           NEW h \in Handles, NEW st \in {"fin", "reset"},
           peer' = [peer EXCEPT ![h] = [Nobody EXCEPT !.st = st, !.key = peer[h].key]],
           writes' \in {writes, [writes EXCEPT ![h] = <<>>]},
           UNCHANGED <<port, clients, asked, runs>>
    PROVE  Counted'
<1> SUFFICES ASSUME asked # INVALID_SOCKET
             PROVE  peer'[asked].key # NoKey /\ peer'[asked].st # "none" /\ Stands(asked, runs)'
  BY DEF Counted
<1>1. asked \in Handles /\ peer[asked].key # NoKey /\ peer[asked].st # "none" /\ Stands(asked, runs)
  BY DEF Counted
<1>2. \A k : Unread(k)' <=> Unread(k)
  BY DEF Unread
<1>3. CASE asked # h
  <2>1. peer'[asked] = peer[asked] /\ writes'[asked] = writes[asked]
    BY <1>1, <1>3
  <2>2. QED  BY <1>1, <1>2, <2>1 DEF Stands, Begun
<1>4. CASE asked = h
  <2>1. peer'[asked].st = st /\ peer'[asked].key = peer[asked].key
    BY <1>1, <1>4 DEF Nobody
  <2>2. QED  BY <1>1, <1>2, <2>1 DEF Stands, Begun
<1>5. QED  BY <1>3, <1>4

LEMMA CountedSame ==
    ASSUME Counted, UNCHANGED <<peer, writes, port, clients, runs>>, asked' \in {asked, INVALID_SOCKET}
    PROVE  Counted'
<1>1. \A k : Unread(k)' <=> Unread(k)
  BY DEF Unread
<1>2. QED  BY <1>1 DEF Counted, Stands, Begun

\* The user's commands.
LEMMA UserCalling ==
    ASSUME Ready, Command \/ Disconnect
    PROVE  Calling'
<1> USE ReadyMeans
<1>1. UNCHANGED <<serverVars, end, since, key, port>> /\ at = "prompt"
  BY DEF Command, Disconnect, HangUp, PeerCloses, sockVars
<1>2. Todo'
  BY <1>1 DEF Todo, serverVars
<1>3. CASE Disconnect
  <2>1. HangUp /\ conn' = INVALID_SOCKET /\ inbox' = <<>> /\ UNCHANGED <<at, outcome, asked, runs>>
    BY <1>3 DEF Disconnect
  <2>2. Counted'
    <3>1. CASE conn \in Handles /\ end = "up"
      <4>1. PeerCloses(conn)
        BY <2>1, <3>1 DEF HangUp
      <4>2. QED  BY <1>1, <2>1, <3>1, <4>1, CountedGone DEF PeerCloses, serverVars
    <3>2. CASE ~(conn \in Handles /\ end = "up")
      <4>1. UNCHANGED <<peer, writes>>
        BY <2>1, <3>2 DEF HangUp, sockVars
      <4>2. QED  BY <1>1, <2>1, <4>1, CountedSame DEF serverVars
    <3>3. QED  BY <3>1, <3>2
  <2>3. InCall'
    BY <1>1, <2>1 DEF InCall
  <2>4. QED  BY <1>2, <2>1, <2>2, <2>3 DEF Calling, Turns, InTouch
<1>4. CASE Command
  <2>1. outcome' = "pending" /\ runs' = 0 /\ asked' = INVALID_SOCKET
    BY <1>4 DEF Command
  <2>2. Counted'
    BY <2>1 DEF Counted
  <2>3. CASE ContextExpired
    <3>1. conn' = INVALID_SOCKET /\ inbox' = <<>> /\ at' = "connect"
      BY <1>4, <2>3 DEF Command
    <3>2. InCall'
      BY <1>1, <2>1, <3>1 DEF InCall, Calls, Remote!Outcomes
    <3>3. QED  BY <1>2, <2>2, <3>1, <3>2 DEF Calling, Turns, InTouch
  <2>4. CASE ~ContextExpired
    <3>1. at' = "send" /\ UNCHANGED <<peer, writes, conn, inbox>>
      BY <1>4, <2>4 DEF Command, sockVars
    <3>2. InCall'
      BY <1>1, <2>1, <3>1 DEF InCall, Calls, Remote!Outcomes
    <3>3. Turns'
      BY <1>1, <3>1 DEF Turns, InTouch, Begun, serverVars
    <3>4. QED  BY <1>2, <2>2, <3>2, <3>3 DEF Calling
  <2>5. QED  BY <2>3, <2>4
<1>5. QED  BY <1>3, <1>4

\* A connection reaches the server.
LEMMA ConnectedCalling ==
    ASSUME Ready, Connect \/ Accepted
    PROVE  Calling'
<1> USE ReadyMeans
<1>1. /\ UNCHANGED <<serverVars, key, outcome, asked, runs>>
      /\ conn' = accepting /\ end' = "up" /\ inbox' = <<>>
      /\ since' \in {0, since} /\ at' \in {"sendKey", "recvKey"}
      /\ accepting # INVALID_SOCKET
      /\ peer' = [peer EXCEPT ![accepting] = Connected]
  BY DEF Connect, Accepted, PeerConnects
<1>2. asked = INVALID_SOCKET /\ runs = 0 /\ at \notin {"prompt", "abort"}
  BY DEF Connect, Accepted, InCall
<1>3. accepting = acceptSocket /\ acceptSocket \in Handles
  BY <1>1 DEF Sound, Accepts, OneAccept, Typed, TypeOK
<1>4. \A k \in Keys : clients[k].socket # accepting
  BY <1>3 DEF Belonging, Owned
<1>5. peer'[conn'].st = "idle"
  BY <1>1, <1>3 DEF Connected, Nobody
<1>6. Turns'
  BY <1>1, <1>4, <1>5 DEF Turns, InTouch, serverVars
<1>7. InCall'
  BY <1>1, <1>2, ServerAssumption DEF InCall, Calls
<1>8. Counted' /\ Todo'
  BY <1>1, <1>2 DEF Counted, Todo, serverVars
<1>9. QED  BY <1>6, <1>7, <1>8 DEF Calling

\* The client sends on a connection that is there.
LEMMA SentCalling ==
    ASSUME Ready, conn \in Handles, end = "up", NEW m \in Messages, PeerSends(conn, m),
           inbox = <<>>, UNCHANGED <<serverVars, conn, inbox, end, runs>>, runs = 0,
           \/ at' = "recvKey" /\ asked' = INVALID_SOCKET
           \/ at' = "recv" /\ asked' = conn /\ peer[conn].key = conn
    PROVE  Turns' /\ Counted'
<1> USE ReadyMeans
<1>1. /\ peer[conn].st = "idle" /\ UNCHANGED <<writes, port>>
      /\ peer' = [peer EXCEPT ![conn] = [@ EXCEPT !.st = "sending", !.msg = m, !.next = 0, !.got = 0]]
  BY DEF PeerSends
<1>2. peer'[conn].st = "sending" /\ peer'[conn].key = peer[conn].key
  BY <1>1 DEF Peer
<1>3. ~Begun(conn)'
  BY <1>2 DEF Begun
<1>4. Turns'
  BY <1>2, <1>3 DEF Turns, InTouch
<1>5. Counted'
  <2>1. CASE asked' = INVALID_SOCKET
    BY <2>1 DEF Counted
  <2>2. CASE asked' = conn /\ peer[conn].key = conn
    BY <1>2, <1>3, <2>2, WinsockAssumption DEF Counted, Stands
  <2>3. QED  BY <2>1, <2>2
<1>6. QED  BY <1>4, <1>5

\* The client sends.
LEMMA SendingCalling ==
    ASSUME Ready, SendKeyRequest \/ SendRequest \/ Flush
    PROVE  Calling'
<1> USE ReadyMeans
<1>1. /\ UNCHANGED <<serverVars, conn, inbox, key, outcome, runs>>
      /\ at \in {"sendKey", "send", "recvKey"} /\ asked = INVALID_SOCKET /\ runs = 0
      /\ since' \in {0, since}
      /\ \/ at' = "recvKey" /\ asked' = INVALID_SOCKET
         \/ at = "send" /\ at' = "recv" /\ asked' = IF end = "up" THEN conn ELSE INVALID_SOCKET
  BY DEF SendKeyRequest, SendRequest, Flush, InCall, clientVars
<1>2. Todo'
  BY <1>1 DEF Todo, serverVars
<1>3. inbox = <<>> /\ end' \in {"up", "closed", "reset"} /\ (end = "reset" => end' = "reset") => InCall'
  BY <1>1, ServerAssumption DEF InCall, Calls
<1>4. CASE conn \in Handles /\ end = "up"
  <2>1. PICK m \in Messages : PeerSends(conn, m) /\ UNCHANGED end
    BY <1>4 DEF SendKeyRequest, SendRequest, Flush, Transfer, clientVars
  <2>2. inbox = <<>>
    <3>1. CASE at = "recvKey"
      <4>1. peer[conn].key = NoKey /\ conn # NoKey
        BY <3>1, <1>4, WinsockAssumption DEF SendKeyRequest, SendRequest, Flush
      <4>2. QED  BY <1>4, <4>1 DEF Linked, InTouch
    <3>2. CASE at # "recvKey"
      BY <1>1, <1>4, <3>2 DEF InCall
    <3>3. QED  BY <3>1, <3>2
  <2>3. at = "send" => peer[conn].key = conn
    BY <1>4 DEF Linked, InTouch
  <2>4. Turns' /\ Counted'
    BY <1>1, <1>4, <2>1, <2>2, <2>3, SentCalling
  <2>5. QED  BY <1>2, <1>3, <1>4, <2>1, <2>2, <2>4 DEF Calling
<1>5. CASE ~(conn \in Handles /\ end = "up")
  <2>1. Transfer /\ at # "recvKey"
    BY <1>5 DEF SendKeyRequest, SendRequest, Flush
  <2>2. \/ conn = Backlog /\ end = "up" /\ UNCHANGED end
        \/ end = "closed" /\ end' \in {"closed", "reset"}
    BY <1>5, <2>1 DEF Transfer
  <2>3. asked' = INVALID_SOCKET /\ inbox = <<>>
    BY <1>1, <2>1, <2>2 DEF InCall
  <2>4. InCall'
    BY <1>3, <2>2, <2>3
  <2>5. ~InTouch'
    BY <1>1, <2>2 DEF InTouch
  <2>6. QED  BY <1>2, <2>3, <2>4, <2>5 DEF Calling, Counted, Turns
<1>6. QED  BY <1>4, <1>5

\* The client's calls fail, or return.
LEMMA ReceivingCalling ==
    ASSUME Ready, \/ ConnectQueued \/ ConnectFails \/ SendFails
                  \/ ReceiveKey \/ ReceiveResponse \/ ReceiveFails \/ StreamEnds
    PROVE  Calling'
<1> USE ReadyMeans
<1>1. /\ UNCHANGED <<vars, asked, runs>>
      /\ (conn' = conn /\ end' = end) \/ conn' = Backlog
  BY DEF ConnectQueued, ConnectFails, SendFails, ReceiveKey, ReceiveResponse, ReceiveFails,
         StreamEnds
<1>2. UNCHANGED <<peer, writes, port, clients, loop>> /\ \A h \in Handles : Begun(h)' <=> Begun(h)
  BY <1>1 DEF vars, sockVars, serverVars, Begun
<1>3. Todo' /\ Counted'
  BY <1>1, <1>2, CountedSame DEF Todo
<1>4. InCall'
  <2>1. CASE ConnectFails \/ SendFails \/ ReceiveFails
    BY <1>1, <2>1, ServerAssumption
    DEF ConnectFails, SendFails, ReceiveFails, Fails, InCall, Calls, Remote!Outcomes
  <2>11. CASE ConnectQueued
    BY <1>1, <2>11, ServerAssumption DEF ConnectQueued, InCall, Calls
  <2>2. CASE ReceiveKey
    <3>1. Head(inbox) \in Handles \cup {NoKey}
      BY <2>2 DEF ReceiveKey, InCall
    <3>2. QED  BY <1>1, <2>2, <3>1 DEF ReceiveKey, InCall, Calls
  <2>3. CASE ReceiveResponse
    BY <1>1, <2>3 DEF ReceiveResponse, InCall, Calls, Remote!Outcomes
  <2>4. CASE StreamEnds
    BY <1>1, <2>4 DEF StreamEnds, Fails, Invented, InCall, Calls, Remote!Outcomes
  <2>5. QED  BY <2>1, <2>11, <2>2, <2>3, <2>4
<1>5. Turns'
  <2>1. CASE ConnectQueued \/ ConnectFails \/ SendFails \/ ReceiveFails \/ StreamEnds
    BY <2>1 DEF ConnectQueued, ConnectFails, SendFails, ReceiveFails, StreamEnds, Turns, InTouch
  <2>2. CASE ReceiveKey
    BY <1>2, <2>2 DEF ReceiveKey, Turns, InTouch
  <2>3. CASE ReceiveResponse
    BY <1>2, <2>3 DEF ReceiveResponse, Turns, InTouch
  <2>4. QED  BY <2>1, <2>2, <2>3
<1>6. QED  BY <1>3, <1>4, <1>5 DEF Calling

\* A client is disconnected because it was silent.
LEMMA TodoKept ==
    ASSUME Typed, Todo, Thread
    PROVE  Todo'
<1>1. ASSUME loop' = Idle \/ (loop' = loop /\ loop = Idle) PROVE Todo'
  BY <1>1 DEF Todo, Idle
<1>2. CASE WaitTimedOut \/ OperationFailed \/ AcceptCompleted
  <2>1. UNCHANGED clients /\ loop'.todo = {clients[k].id : k \in Expired}
    BY <1>2 DEF WaitTimedOut, OperationFailed, AcceptCompleted, TimeoutCheck
  <2>2. \A k \in Expired : k \in Keys /\ clients[k].id = k /\ clients[k].age > TIMEOUT
    BY DEF Expired, Typed, Numbered
  <2>3. QED  BY <2>1, <2>2 DEF Todo
<1>3. ASSUME NEW k \in Keys, ScheduleDisconnect(k) PROVE Todo'
  BY <1>3 DEF ScheduleDisconnect, Todo
<1>4. CASE (\E k \in Keys : Admit(k) \/ RefuseNotAssociated(k)) \/ RefuseFull \/ RefuseNoAddress
  BY <1>1, <1>4 DEF Admit, RefuseNotAssociated, RefuseFull, RefuseNoAddress, Refuse, Admission
<1>5. CASE \/ ReceiveEnd \/ ReceivePartial \/ ReceiveKeyRequest \/ ReceiveRequest
           \/ ReceiveUnknown \/ SendPartial \/ SendDone \/ Cancelled
  <2>1. loop' = loop /\ loop = Idle
    BY <1>5, Zenon DEF ReceiveEnd, ReceivePartial, ReceiveKeyRequest, ReceiveRequest,
       ReceiveUnknown, Receive, SendPartial, SendDone, Send, Cancelled, Gets
  <2>2. QED  BY <1>1, <2>1
<1>6. QED  BY <1>2, <1>3, <1>4, <1>5, Zenon DEF Thread

\* A request is handled only where it is one that has not been handled yet.
LEMMA RunsOnce ==
    ASSUME Ready, hit' = {}, NoLeak', Thread, Handling
    PROVE  asked \in Handles /\ Serves(asked) /\ runs = 0
<1> USE ReadyMeans
<1>1. Asks(asked)
  BY DEF Handling, Asks
<1>2. PICK k \in Keys : recvBuf[k].head.kind = "request" /\ clients[k].socket = asked
  BY <1>1 DEF Asks
<1>3. asked # INVALID_SOCKET
  BY <1>2 DEF Sound, KeyFirst, SlotsKeyed, Occupied
<1>4. asked \in Handles /\ Stands(asked, runs) /\ runs \in {0, 1}
  BY <1>3 DEF Counted, InCall
<1>5. Serves(asked)
  BY <1>1, <1>4, ThreadCalm DEF Overlooks
<1>6. runs # 1
  BY <1>4, <1>5 DEF Stands, Serves
<1>7. QED  BY <1>4, <1>5, <1>6

LEMMA ServerCalling ==
    ASSUME Ready, hit' = {}, NoLeak', ServerStep
    PROVE  Calling'
<1> USE ReadyMeans
<1>1. Thread /\ Reaches /\ runs' = IF Handling THEN runs + 1 ELSE runs
  BY DEF ServerStep
<1>2. Todo'
  BY <1>1, TodoKept
<1>3. UNCHANGED <<conn, since, key, at, outcome>>
  BY <1>1 DEF Reaches
<1>4. asked' = IF asked # INVALID_SOCKET /\ peer'[asked].st = "none" THEN INVALID_SOCKET ELSE asked
  BY <1>1 DEF Reaches
<1>5. \/ Handling /\ asked \in Handles /\ Serves(asked) /\ runs = 0 /\ runs' = 1
      \/ ~Handling /\ runs' = runs
  BY <1>1, RunsOnce
<1>6. ASSUME NEW h \in Handles, peer'[h].st # "none"
      PROVE  \/ Calm(h) /\ peer'[h] = peer[h]
             \/ Greets(h)
             \/ Serves(h) /\ peer'[h] = peer[h]
  BY <1>1, <1>6, ThreadCalm DEF Overlooks, Calm, Serves
<1>7. Counted'
  <2> SUFFICES ASSUME asked # INVALID_SOCKET, peer'[asked].st # "none"
               PROVE  asked \in Handles /\ peer'[asked].key # NoKey /\ Stands(asked, runs)' /\ asked' = asked
    BY <1>4 DEF Counted
  <2>1. asked \in Handles /\ peer[asked].key # NoKey /\ Stands(asked, runs) /\ asked' = asked
    BY <1>4 DEF Counted
  <2>2. ~Greets(asked)
    BY <2>1 DEF Greets
  <2>3. ~Stranger(asked)
    BY <2>1 DEF Belonging, Unused
  <2>4. CASE Handling
    BY <1>5, <2>1, <2>4 DEF Stands, Serves
  <2>5. CASE ~Handling
    <3>1. ~Asks(asked)
      BY <2>5 DEF Handling, Asks
    <3>2. Calm(asked) /\ runs' = runs
      BY <1>1, <1>5, <2>1, <2>2, <2>5, <3>1, ThreadCalm DEF Overlooks
    <3>3. peer'[asked] = peer[asked] /\ (Begun(asked)' => Begun(asked))
          /\ \A k \in Keys : clients'[k].socket = asked =>
                clients[k].socket = asked /\ (Unread(k) => Unread(k)')
      BY <2>3, <3>2 DEF Calm
    <3>4. QED  BY <2>1, <3>2, <3>3 DEF Stands
  <2>6. QED  BY <2>4, <2>5
<1>8. /\ inbox' \in {inbox, <<>>}
      /\ InTouch' => InTouch /\ peer'[conn].st # "none"
      /\ end' = end \/ (InTouch /\ end' \in {"closed", "reset"})
  <2>1. CASE ~InTouch
    BY <1>1, <1>3, <2>1 DEF Reaches, InTouch
  <2>2. CASE InTouch
    <3>1. ~(peer[conn].st = "waiting" /\ peer'[conn].st = "idle")
      BY <1>6, <2>2 DEF InTouch, Greets
    <3>2. inbox' \in {inbox, <<>>}
      BY <1>1, <2>2, <3>1 DEF Reaches, InTouch, Arrives
    <3>3. end' = end \/ (end' \in {"closed", "reset"} /\ peer'[conn].st = "none")
      BY <1>1, <2>2 DEF Reaches, InTouch
    <3>4. end' = end => peer'[conn].st # "none"
      BY <1>1, <2>2 DEF Reaches, InTouch
    <3>5. QED  BY <1>3, <2>2, <3>2, <3>3, <3>4 DEF InTouch
  <2>3. QED  BY <2>1, <2>2
<1>9. InCall'
  <2>1. asked' \in {asked, INVALID_SOCKET} /\ runs' \in {0, 1} /\ (runs = 1 => runs' = 1)
    BY <1>4, <1>5 DEF InCall
  <2>2. at \notin {"prompt", "recv", "abort"} => asked' = INVALID_SOCKET /\ runs' = 0
    BY <1>4, <1>5, WinsockAssumption DEF InCall
  <2>3. end' \in {"up", "closed", "reset"} /\ (end' # "reset" => end # "reset")
        /\ (end = "closed" => end' = "closed")
    BY <1>8 DEF InCall, InTouch
  <2>4. QED  BY <1>3, <1>8, <2>1, <2>2, <2>3 DEF InCall
<1>10. Turns'
  <2> SUFFICES ASSUME InTouch' PROVE Turns'
    BY DEF Turns
  <2>1. InTouch /\ peer'[conn].st # "none" /\ conn \in Handles
    BY <1>8 DEF InTouch
  <2>2. peer'[conn].st = peer[conn].st
    BY <1>6, <2>1 DEF Greets
  <2>3. at = "recv" => asked' = conn
    BY <1>4, <2>1 DEF Turns
  <2>4. ASSUME NEW k \in Keys, clients'[k].socket = conn,
               Begun(conn)'
        PROVE  clients'[k].age <= since
    <3>1. 0 <= since
      BY DEF InCall
    <3>2. CASE Calm(conn)
      <4>1. Begun(conn)
        BY <2>4, <3>2 DEF Calm
      <4>2. clients[k].socket = conn => clients[k].age <= since
        BY <2>1, <4>1 DEF Turns
      <4>3. QED  BY <2>4, <3>1, <3>2, <4>2 DEF Calm
    <3>3. CASE Greets(conn) \/ Serves(conn)
      BY <2>4, <3>1, <3>3 DEF Greets, Serves
    <3>4. QED  BY <1>6, <2>1, <3>2, <3>3
  <2>5. QED  BY <1>3, <1>8, <2>1, <2>2, <2>3, <2>4 DEF Turns
<1>11. QED  BY <1>2, <1>7, <1>9, <1>10 DEF Calling

LEMMA CompletionCalling ==
    ASSUME Ready, NEW g \in Handles, CompletionStep(g)
    PROVE  Calling'
<1> USE ReadyMeans
<1>1. Completion(g) /\ UNCHANGED <<serverVars, runs>> /\ Reaches
  BY DEF CompletionStep
<1>2. Todo'
  BY <1>1 DEF Todo, serverVars
<1>3. UNCHANGED <<conn, since, key, at, outcome, clients>>
  BY <1>1 DEF Reaches, serverVars
<1>4. asked' = IF asked # INVALID_SOCKET /\ peer'[asked].st = "none" THEN INVALID_SOCKET ELSE asked
  BY <1>1 DEF Reaches
<1>5. \A h \in Handles : Hears(h)
  BY <1>1, CompletionHears
<1>6. Counted'
  <2> SUFFICES ASSUME asked # INVALID_SOCKET, peer'[asked].st # "none"
               PROVE  asked \in Handles /\ peer'[asked].key # NoKey /\ Stands(asked, runs)' /\ asked' = asked
    BY <1>4 DEF Counted
  <2>1. asked \in Handles /\ peer[asked].key # NoKey /\ Stands(asked, runs) /\ asked' = asked
    BY <1>4 DEF Counted
  <2>2. Hears(asked) /\ runs' = runs
    BY <1>1, <1>5, <2>1
  <2>3. QED  BY <1>3, <2>1, <2>2 DEF Stands, Hears
<1>7. CASE ~InTouch
  <2>1. UNCHANGED <<end, inbox>> /\ asked' \in {asked, INVALID_SOCKET}
    BY <1>1, <1>4, <1>7 DEF Reaches, InTouch
  <2>2. InCall'
    BY <1>1, <1>3, <2>1 DEF InCall
  <2>3. Turns'
    BY <1>3, <1>7, <2>1 DEF Turns, InTouch
  <2>4. QED  BY <1>2, <1>6, <2>2, <2>3 DEF Calling
<1>8. CASE InTouch
  <2>1. conn \in Handles /\ Hears(conn) /\ end = "up" /\ conn # INVALID_SOCKET
    BY <1>5, <1>8 DEF InTouch
  <2>2. peer'[conn].st # "none"
    BY <1>8, <2>1 DEF Hears, Linked
  <2>3. /\ UNCHANGED end
        /\ \/ inbox' \in {inbox, <<>>}
           \/ /\ inbox' = <<peer[conn].key>>
              /\ peer[conn].st = "waiting" /\ peer'[conn].st = "idle"
    BY <1>1, <2>1, <2>2 DEF Reaches, Arrives
  <2>4. asked' \in {asked, INVALID_SOCKET} /\ (asked = conn => asked' = conn)
    BY <1>4, <2>2
  <2>5. Begun(conn)' => Begun(conn)
    BY <2>1 DEF Hears
  <2>6. inbox' # <<>> => peer'[conn].st = "idle"
    BY <1>8, <2>1, <2>3 DEF Turns, Hears
  <2>7. Turns'
    BY <1>3, <1>8, <2>1, <2>4, <2>5, <2>6 DEF Turns, InTouch, Hears
  <2>8. InCall'
    <3>1. CASE inbox' \in {inbox, <<>>}
      BY <1>1, <1>3, <2>3, <2>4, <3>1 DEF InCall
    <3>2. CASE /\ inbox' = <<peer[conn].key>>
               /\ peer[conn].st = "waiting" /\ peer'[conn].st = "idle"
      <4>1. peer[conn].key \in Handles \cup {NoKey}
        BY <2>1 DEF Peer
      <4>2. Begun(conn)
        BY <1>3, <2>1, <2>5, <3>2 DEF Begun
      <4>3. at \in {"recvKey", "recv"}
        BY <1>8, <2>1, <3>2 DEF Turns, InCall, Calls
      <4>4. at = "recv" => runs = 1
        <5>1. at = "recv" => asked = conn /\ Stands(conn, runs)
          BY <1>8, <2>1 DEF Turns, Counted
        <5>2. QED  BY <4>2, <5>1 DEF Stands, InCall
      <4>5. QED  BY <1>1, <1>3, <2>3, <2>4, <3>2, <4>1, <4>3, <4>4 DEF InCall
    <3>3. QED  BY <2>3, <3>1, <3>2
  <2>9. QED  BY <1>2, <1>6, <2>7, <2>8 DEF Calling
<1>9. QED  BY <1>7, <1>8

\* The network and time.
LEMMA WorldCalling ==
    ASSUME Ready, AbortStep \/ ConnectionLost \/ Clock
    PROVE  Calling'
<1> USE ReadyMeans
<1>1. UNCHANGED <<conn, inbox, key, at, outcome, asked, runs>>
  BY DEF AbortStep, ConnectionLost, Clock, clientVars
<1>2. CASE AbortStep
  <2>1. UNCHANGED <<serverVars, clients, peer, writes, loop, end, since>>
    BY <1>2 DEF AbortStep, AbortCompletes, serverVars, clientVars
  <2>2. port' = port \o FailedPackets(1) /\ port \in Seq(Packet)
    BY <1>2 DEF AbortStep, AbortCompletes, Typed, TypeOK, SockTypeOK
  <2>3. \A k : Kept(port, port', k)
    BY <2>2, KeptSame, KeptMore, FailedAbsent
  <2>4. \A k \in Keys : Unread(k) => Unread(k)'
    BY <2>1, <2>3, UnreadKept
  <2>5. Counted'
    BY <1>1, <2>1, <2>4 DEF Counted, Stands, Begun
  <2>6. QED  BY <1>1, <2>1, <2>5 DEF Calling, InCall, Turns, InTouch, Begun, Todo
<1>3. CASE ConnectionLost
  <2>1. /\ end' = "reset" /\ end = "up"
        /\ UNCHANGED <<serverVars, clients, loop, since>>
        /\ \/ conn = Backlog /\ UNCHANGED <<peer, writes, port>>
           \/ conn \in Handles /\ PeerResets(conn)
    BY <1>3 DEF ConnectionLost, serverVars, sockVars
  <2>2. Counted'
    <3>1. CASE conn = Backlog /\ UNCHANGED <<peer, writes, port>>
      BY <1>1, <2>1, <3>1, CountedSame
    <3>2. CASE conn \in Handles /\ PeerResets(conn)
      BY <1>1, <2>1, <3>2, CountedGone DEF PeerResets
    <3>3. QED  BY <2>1, <3>1, <3>2
  <2>3. InCall'
    BY <1>1, <2>1 DEF InCall
  <2>4. QED  BY <2>1, <2>2, <2>3 DEF Calling, Turns, InTouch, Todo
<1>4. CASE Clock
  <2>1. /\ UNCHANGED <<peer, writes, port, loop, end>>
        /\ clients' = [k \in Keys |->
             IF Occupied(k) /\ clients[k].age <= TIMEOUT
             THEN [clients[k] EXCEPT !.age = @ + 1] ELSE clients[k]]
        /\ since' = IF conn # INVALID_SOCKET /\ since <= TIMEOUT THEN since + 1 ELSE since
    BY <1>4 DEF Clock, Tick, sockVars
  <2>2. \A k \in Keys :
          /\ clients'[k].socket = clients[k].socket /\ clients'[k].recvBufSize = clients[k].recvBufSize
          /\ clients[k].age \in 0 .. TIMEOUT + 1
          /\ clients'[k].age \in {clients[k].age, clients[k].age + 1}
          /\ clients'[k].age = clients[k].age + 1 => clients[k].age <= TIMEOUT
    <3> SUFFICES ASSUME NEW k \in Keys
                 PROVE  /\ clients'[k].socket = clients[k].socket /\ clients'[k].recvBufSize = clients[k].recvBufSize
                        /\ clients[k].age \in 0 .. TIMEOUT + 1
                        /\ clients'[k].age \in {clients[k].age, clients[k].age + 1}
                        /\ clients'[k].age = clients[k].age + 1 => clients[k].age <= TIMEOUT
      OBVIOUS
    <3> DEFINE d == [clients[k] EXCEPT !.age = @ + 1]
    <3>1. d.socket = clients[k].socket /\ d.recvBufSize = clients[k].recvBufSize /\ d.age = clients[k].age + 1
          /\ clients[k].age \in 0 .. TIMEOUT + 1
      BY DEF Client
    <3>2. clients'[k] = IF Occupied(k) /\ clients[k].age <= TIMEOUT THEN d ELSE clients[k]
      BY <2>1
    <3> HIDE DEF d
    <3>3. QED  BY <3>1, <3>2, ServerAssumption
  <2>3. \A k \in Keys : Unread(k) => Unread(k)'
    BY <2>1, <2>2 DEF Unread
  <2>4. Counted'
    BY <1>1, <2>1, <2>2, <2>3 DEF Counted, Stands, Begun
  <2>5. since \in 0 .. TIMEOUT + 1 /\ since' \in 0 .. TIMEOUT + 1
    BY <2>1, ServerAssumption DEF InCall
  <2>6. InCall'
    BY <1>1, <2>1, <2>5 DEF InCall
  <2>7. Turns'
    <3>1. ASSUME NEW k \in Keys, clients[k].age <= since, conn # INVALID_SOCKET
          PROVE  clients'[k].age <= since'
      BY <2>1, <2>2, <2>5, <3>1, ServerAssumption
    <3>2. QED  BY <1>1, <2>1, <2>2, <3>1 DEF Turns, InTouch, Begun
  <2>8. Todo'
    BY <2>1, <2>2, ServerAssumption DEF Todo
  <2>9. QED  BY <2>4, <2>6, <2>7, <2>8 DEF Calling
<1>5. QED  BY <1>2, <1>3, <1>4

\* Every step of the session keeps the invariant.
LEMMA SessionNextServed ==
    ASSUME Served, [SessionNext]_sessionVars
    PROVE  Served'
<1>1. [Next]_vars
  BY SessionSteps DEF Served
<1>2. SessionInv' /\ Streaming'
  BY <1>1, SessionNextInv, NextTalks DEF Served
<1> SUFFICES ASSUME NoLeak', hit' = {} PROVE Calling'
  BY <1>2 DEF Served
<1>3. NoLeak /\ hit = {}
  BY <1>1, LeakRemembered, HistoryKept
<1>4. Ready
  BY <1>3 DEF Served, SessionInv, ServerInv, Streaming, Accepts, Safe, Sound, Ready
<1>5. CASE UNCHANGED sessionVars
  <2>1. UNCHANGED <<peer, writes, port, clients, runs, asked, loop, at, since, end, key, inbox, outcome, conn>>
    BY <1>5 DEF sessionVars, vars, sockVars, serverVars, clientVars
  <2>2. QED  BY <1>4, <2>1, ReadyMeans, CountedSame DEF Calling, InCall, Turns, InTouch, Begun, Todo
<1>6. CASE SessionNext
  BY <1>4, <1>6, UserCalling, ConnectedCalling, SendingCalling, ReceivingCalling, ServerCalling,
     CompletionCalling, WorldCalling DEF SessionNext, Call
<1>7. QED  BY <1>5, <1>6

LEMMA InitServed ==
    ASSUME SessionInit
    PROVE  Served
<1>1. SessionInv
  BY ServerInvHolds DEF SessionInit, SessionInv, AtHome, Sockets, Linked, InTouch
<1>2. Streaming
  <2>1. OneAccept
    BY DEF SessionInit, Init, SockInit, OneAccept, IsAccept, Idle
  <2>2. QED  BY <2>1, InitSafe, InitTalks DEF SessionInit, Streaming, Accepts
<1>3. Todo
  BY DEF SessionInit, Init, Todo, Idle
<1>4. InCall
  BY ServerAssumption DEF SessionInit, InCall, Calls, Remote!Outcomes
<1>5. Counted /\ Turns
  BY DEF SessionInit, Counted, Turns, InTouch
<1>6. QED  BY <1>1, <1>2, <1>3, <1>4, <1>5 DEF Served, Calling

LEMMA ServedAlways == SessionSpec => []Served
<1>1. SessionInit => Served
  BY InitServed
<1>2. Served /\ [SessionNext]_sessionVars => Served'
  BY SessionNextServed
<1>3. QED  BY <1>1, <1>2, PTL DEF SessionSpec

\* Where no stale packet was handled, every variable of the session has its type: the
\* server handles no request of the client twice (runs).
THEOREM SessionTypeCorrect ==
    SessionSpec => [](NoLeak /\ hit = {} => SessionTypeOK)
<1>1. Served => (NoLeak /\ hit = {} => SessionTypeOK)
  <2> SUFFICES ASSUME Served, NoLeak, hit = {} PROVE SessionTypeOK
    OBVIOUS
  <2>1. TypeOK /\ conn \in Sockets \cup {Backlog}
    BY DEF Served, Streaming, Accepts, Safe, Typed, SessionInv, AtHome
  <2>2. InCall /\ asked \in Sockets
    BY DEF Served, Calling, Counted, Sockets
  <2>3. QED  BY <2>1, <2>2 DEF InCall, SessionTypeOK
<1>2. SessionSpec => []Served
  BY ServedAlways
<1>3. QED  BY <1>1, <1>2, PTL

\* Where no stale packet was handled, the server takes a user's connection for expired
\* (Expired, and the list TimeoutCheck works through) only when the client would not
\* use it any more (Context::Expired), however the two clocks were started.
THEOREM TimeoutsAlwaysAgree ==
    SessionSpec => [](NoLeak /\ hit = {} => TimeoutsAgree)
<1>1. Served => (NoLeak /\ hit = {} => TimeoutsAgree)
  <2> SUFFICES ASSUME Served, NoLeak, hit = {}, at = "prompt", conn # INVALID_SOCKET, end = "up",
                      NEW k \in Expired \cup loop.todo, clients[k].socket = conn
               PROVE  since > TIMEOUT
    BY DEF TimeoutsAgree
  <2>1. Typed /\ Turns /\ Todo /\ InCall
    BY DEF Served, Streaming, Accepts, Safe, Calling
  <2>2. k \in Keys /\ clients[k].age > TIMEOUT
    BY <2>1 DEF Expired, Todo
  <2>22. conn \in Handles
    BY DEF Served, SessionInv, AtHome, Sockets
  <2>3. clients[k].age <= since
    BY <2>1, <2>2, <2>22 DEF Turns, InTouch, Begun
  <2>4. clients[k].age \in Int /\ since \in Int
    BY <2>1, <2>2, ServerAssumption DEF Typed, TypeOK, Client, InCall
  <2>5. QED  BY <2>2, <2>3, <2>4, ServerAssumption
<1>2. SessionSpec => []Served
  BY ServedAlways
<1>3. QED  BY <1>1, <1>2, PTL

\* A step of the session is one of RemoteCall or none of its.
CallStep == NoLeak' /\ hit' = {} => [Remote!Next]_<<outcome, runs>>

LEMMA StepsAreCalls ==
    ASSUME Served, [SessionNext]_sessionVars
    PROVE  CallStep
<1> SUFFICES ASSUME NoLeak', hit' = {} PROVE Remote!Next \/ UNCHANGED <<outcome, runs>>
  BY DEF CallStep
<1>1. [Next]_vars
  BY SessionSteps DEF Served
<1>2. NoLeak /\ hit = {}
  BY <1>1, LeakRemembered, HistoryKept
<1>3. Ready
  BY <1>2 DEF Served, SessionInv, ServerInv, Streaming, Accepts, Safe, Sound, Ready
<1>4. InCall
  BY <1>3, ReadyMeans
<1>5. CASE Command
  <2>1. Remote!Issue
    BY <1>4, <1>5 DEF Command, InCall, Remote!Issue
  <2>2. QED  BY <2>1 DEF Remote!Next
<1>6. CASE ConnectFails \/ SendFails \/ ReceiveFails
  <2>1. Remote!Lost
    BY <1>4, <1>6 DEF ConnectFails, SendFails, ReceiveFails, Fails, InCall, Remote!Lost
  <2>2. QED  BY <2>1 DEF Remote!Next
<1>7. CASE StreamEnds
  <2>1. Remote!Lost \/ Remote!Invented \/ UNCHANGED <<outcome, runs>>
    BY <1>4, <1>7 DEF StreamEnds, Fails, Invented, InCall, Remote!Lost, Remote!Invented
  <2>2. QED  BY <2>1 DEF Remote!Next
<1>8. CASE ReceiveResponse
  <2>1. Remote!Answered
    BY <1>4, <1>8 DEF ReceiveResponse, InCall, Remote!Answered
  <2>2. QED  BY <2>1 DEF Remote!Next
<1>9. CASE \/ Disconnect \/ Connect \/ ConnectQueued \/ Accepted
           \/ SendKeyRequest \/ SendRequest \/ Flush \/ ReceiveKey
  BY <1>9 DEF Disconnect, Connect, ConnectQueued, Accepted, SendKeyRequest, SendRequest, Flush,
     ReceiveKey, clientVars
<1>10. CASE ServerStep
  <2>1. CASE Handling
    <3>1. asked \in Handles /\ runs = 0
      BY <1>3, <1>10, <2>1, RunsOnce DEF ServerStep
    <3>2. outcome \in {"pending", "invented", "lost"}
      BY <1>4, <3>1, WinsockAssumption DEF InCall, Remote!Outcomes
    <3>3. runs' = 1 /\ outcome' = outcome
      BY <1>10, <2>1, <3>1 DEF ServerStep, Reaches
    <3>4. Remote!Run
      BY <3>1, <3>2, <3>3 DEF Remote!Run
    <3>5. QED  BY <3>4 DEF Remote!Next
  <2>2. CASE ~Handling
    BY <1>10, <2>2 DEF ServerStep, Reaches
  <2>3. QED  BY <2>1, <2>2
<1>11. CASE AbortStep \/ ConnectionLost \/ Clock
  BY <1>11 DEF AbortStep, ConnectionLost, Clock, clientVars
<1>12. ASSUME NEW g \in Handles, CompletionStep(g) PROVE UNCHANGED <<outcome, runs>>
  BY <1>12 DEF CompletionStep, Reaches
<1>13. CASE UNCHANGED sessionVars
  BY <1>13 DEF sessionVars, clientVars
<1>14. QED  BY <1>5, <1>6, <1>7, <1>8, <1>9, <1>10, <1>11, <1>12, <1>13 DEF SessionNext, Call

\* Until a stale packet is handled, every step of the session is one that RemoteCall
\* allows: a command is not run twice, nor answered without having run, over any
\* number of timeouts, reconnections and lost connections.
THEOREM CommandsRunOnce ==
    SessionSpec =>
        [][NoLeak' /\ hit' = {} => [Remote!Next]_<<outcome, runs>>]_sessionVars
<1>1. Served /\ [SessionNext]_sessionVars => [CallStep]_sessionVars
  BY StepsAreCalls
<1>2. SessionSpec => []Served
  BY ServedAlways
<1>3. SessionSpec => [][CallStep]_sessionVars
  BY <1>1, <1>2, PTL DEF SessionSpec
<1>4. QED  BY <1>3 DEF CallStep

\* A server that is not led to a stale packet, and whose associations never fail,
\* implements RemoteCall for its users.
THEOREM CallImplemented ==
    ASSUME StaleSlots = {}, "associate" \notin Faults
    PROVE  SessionSpec => ImplementsCall
<1> DEFINE Unhit == NoLeak /\ hit = {}
<1>1. SessionInit => Served /\ Unhit /\ Remote!Init
  BY InitServed DEF SessionInit, Init, NoLeak, Remote!Init
<1>2. Unhit /\ [Next]_vars => Unhit'
  <2> SUFFICES ASSUME NoLeak, hit = {}, [Next]_vars PROVE NoLeak' /\ hit' = {}
    OBVIOUS
  <2>1. NoLeak'
    BY LeakKept DEF RefuseNotAssociated, NoLeak
  <2>2. ASSUME Thread PROVE UNCHANGED hit \/ Touch(Head(port))
    BY <2>2, Zenon DEF Thread, WaitTimedOut, OperationFailed, AcceptCompleted, ScheduleDisconnect,
       Admit, RefuseNotAssociated, RefuseFull, RefuseNoAddress, Refuse, ReceiveEnd, ReceivePartial,
       ReceiveKeyRequest, ReceiveRequest, ReceiveUnknown, Receive, SendPartial, SendDone, Send,
       Cancelled
  <2>3. ASSUME ~Thread PROVE UNCHANGED hit
    BY <2>3 DEF Next, Tick, serverVars, vars
  <2>4. ASSUME Touch(Head(port)) PROVE UNCHANGED hit
    BY <2>4 DEF Touch
  <2>5. QED  BY <2>1, <2>2, <2>3, <2>4
<1>3. Served /\ Unhit /\ [SessionNext]_sessionVars =>
         Served' /\ Unhit' /\ [Remote!Next]_<<outcome, runs>>
  BY <1>2, SessionNextServed, SessionSteps, StepsAreCalls DEF Served, CallStep
<1> HIDE DEF Unhit
<1>4. SessionSpec => Remote!Spec
  BY <1>1, <1>3, PTL DEF SessionSpec, Remote!Spec
<1>5. QED  BY <1>4 DEF ImplementsCall
=============================================================================
