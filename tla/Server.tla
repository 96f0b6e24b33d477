------------------------------- MODULE Server -------------------------------
(***************************************************************************)
(* The event loop of src/server/server/tcp.cpp: one thread that takes      *)
(* packets off an I/O completion port and serves up to MAX_CLIENTS peers,  *)
(* each in a slot of m_clients.  One action per handler of a packet; the   *)
(* loop of TimeoutCheck, which posts one cancellation per expired client,  *)
(* takes one step per client, as the kernel may complete I/O in between.   *)
(***************************************************************************)
EXTENDS Winsock

CONSTANTS
    TIMEOUT,     \* clock ticks of silence a client, or the port, is allowed
    MaxAborted,  \* bound: aborted operations still without a packet when the
                 \* thread takes the next one
    StaleSlots   \* bound: slots in which a stale recv or send packet is looked
                 \* into, once each; the runs end where another one is due

ASSUME ServerAssumption ==
    /\ TIMEOUT \in Nat \ {0}
    /\ MaxAborted \in Nat
    /\ StaleSlots \subseteq Keys

VARIABLES
    clients,       \* m_clients[1 .. MAX_CLIENTS]
    acceptSocket,  \* m_acceptSocket
    symKeys,       \* EncryptionManager::m_keys: the socket a key was made for
    loop,          \* where the thread is: clients TimeoutCheck has still to
                   \* disconnect, and whether AddAcceptedConnection comes next
    quiet,         \* ticks GetQueuedCompletionStatus has waited
    hit,           \* history: slots a stale recv or send packet was taken for, and
                   \* those whose numbers were found there
    late,          \* history: an answer was written while the completion of a shorter
                   \* one was still due
    leaked         \* history: CreateIoCompletionPort has failed for a client

serverVars == <<clients, acceptSocket, symKeys, loop, quiet, hit, late, leaked>>
vars == <<sockVars, serverVars>>

Sockets == Handles \cup {INVALID_SOCKET}

\* age is now - last_activity, up to the first tick past TIMEOUT, and unsent is
\* sendBufSize - sentSize.
Client == [socket: Sockets, id: 0 .. MAX_CLIENTS, age: 0 .. TIMEOUT + 1,
           recvBufSize: Nat, unsent: Int]

\* ZeroClient is FreeClient without the assignment that follows the memset.
ZeroClient == [socket |-> 0, id |-> 0, age |-> 0, recvBufSize |-> 0, unsent |-> 0]
FreeClient == [socket |-> INVALID_SOCKET, id |-> 0, age |-> 0,
               recvBufSize |-> 0, unsent |-> 0]

Idle == [todo |-> {}, admit |-> FALSE]

Occupied(k) == clients[k].socket # INVALID_SOCKET

\* FreeKeysButLast never looks into the last slot.
FreeKeysButLast == {k \in 1 .. MAX_CLIENTS - 1 : ~Occupied(k)}
FreeKeys == {k \in Keys : ~Occupied(k)}
First(k, S) == k \in S /\ \A j \in S : k <= j

Init ==
    /\ SockInit
    /\ clients = [k \in Keys |-> FreeClient]
    /\ acceptSocket \in Handles
    /\ open = {acceptSocket}
    /\ accepting = acceptSocket
    /\ symKeys = [k \in Keys |-> NoKey]
    /\ loop = Idle
    /\ quiet = 0
    /\ hit = {}
    /\ late = FALSE
    /\ leaked = FALSE
-----------------------------------------------------------------------------
\* ExpiredInverted skips the clients and keeps the accept socket.
ExpiredInverted == {k \in Keys : clients[k].id = 0 /\ Occupied(k) /\ clients[k].age > TIMEOUT}

\* The clients TimeoutCheck finds expired, all at the one time it reads first.
Expired == {k \in Keys : clients[k].id # 0 /\ Occupied(k) /\ clients[k].age > TIMEOUT}

\* It disconnects them by the id kept in the slot.
TimeoutCheck(admit) ==
    loop' = [todo |-> {clients[k].id : k \in Expired}, admit |-> admit]

\* GetQueuedCompletionStatus returns the packet at the head of the port.
Gets(op) == loop = Idle /\ aborted <= MaxAborted /\ port # <<>> /\ Head(port).op = op
TakePacket == port' = Tail(port) /\ quiet' = 0

\* It gave up, or returned the packet of a failed operation: the code does not
\* tell them apart.
WaitTimedOut ==
    /\ loop = Idle /\ aborted <= MaxAborted /\ port = <<>> /\ quiet = TIMEOUT
    /\ TimeoutCheck(FALSE)
    /\ quiet' = 0
    /\ UNCHANGED <<sockVars, clients, acceptSocket, symKeys, hit, late, leaked>>

OperationFailed ==
    /\ Gets("failed") /\ TakePacket
    /\ TimeoutCheck(FALSE)
    /\ UNCHANGED <<open, assoc, accepting, deaf, reads, writes, aborted, peer, recvBuf,
                   clients, acceptSocket, symKeys, hit, late, leaked>>

AcceptCompleted ==
    /\ Gets("accept") /\ TakePacket
    /\ TimeoutCheck(TRUE)
    /\ UNCHANGED <<open, assoc, accepting, deaf, reads, writes, aborted, peer, recvBuf,
                   clients, acceptSocket, symKeys, hit, late, leaked>>

\* DisconnectUnposted relies on the completions of what it cancels.
DisconnectUnposted(k) ==
    /\ First(k, loop.todo)
    /\ loop' = [loop EXCEPT !.todo = @ \ {k}]
    /\ CancelIo(clients[k].socket, port, <<>>)
    /\ UNCHANGED <<open, assoc, accepting, deaf, peer, recvBuf, clients, acceptSocket,
                   symKeys, quiet, hit, late, leaked>>

\* On a socket that is not open CancelIo fails, and nothing is posted.
ScheduleDisconnect(k) ==
    /\ First(k, loop.todo)
    /\ loop' = [loop EXCEPT !.todo = @ \ {k}]
    /\ LET s == clients[k].socket IN
       IF s \in open
       THEN CancelIo(s, port, <<NewPacket("cancel", k, 0)>>)
       ELSE UNCHANGED <<port, aborted, reads, writes>>
    /\ UNCHANGED <<open, assoc, accepting, deaf, peer, recvBuf, clients, acceptSocket,
                   symKeys, quiet, hit, late, leaked>>
-----------------------------------------------------------------------------
\* AddAcceptedConnection after its TimeoutCheck, and the ScheduleAccept that
\* follows: kept is what remains open of the sockets before the new one.
Admission == loop.todo = {} /\ loop.admit /\ loop' = Idle

\* AcceptWhenRoom stops accepting while the pool is full, and AcceptUnstored does
\* not keep the socket it accepts on.
AcceptWhenRoom(kept) ==
    IF FreeKeys = {} THEN open' = kept /\ UNCHANGED <<acceptSocket, accepting>>
    ELSE \E s \in Handles \ kept :
             open' = kept \cup {s} /\ acceptSocket' = s /\ accepting' = s
AcceptUnstored(kept) ==
    \E s \in Handles \ kept :
        open' = kept \cup {s} /\ accepting' = s /\ UNCHANGED acceptSocket
ScheduleAccept(kept) ==
    \E s \in Handles \ kept :
        /\ open' = kept \cup {s}
        /\ acceptSocket' = s
        /\ accepting' = s

\* key when the loop over m_clients is at slot k: the occupied slots before it,
\* with the listening socket's.
Number(k) == 1 + Cardinality({j \in 1 .. k - 1 : Occupied(j)})

\* SlotCounted numbers a client without counting the accept socket's slot, and
\* KeyKept makes a key only for a slot that never had one.
SlotCounted(k) == [clients[k] EXCEPT !.socket = acceptSocket, !.age = 0,
                                     !.id = Number(k) - 1]
Slot(k) == [clients[k] EXCEPT !.socket = acceptSocket, !.id = Number(k), !.age = 0]

KeyKept(k) == symKeys' = IF symKeys[k] = NoKey THEN [symKeys EXCEPT ![k] = acceptSocket]
                         ELSE symKeys
CreateSymmetricKey(k) == symKeys' = [symKeys EXCEPT ![k] = acceptSocket]

\* The first free slot takes the connection, gets a new key and a first read.
Admit(k) ==
    /\ Admission
    /\ First(k, FreeKeys)
    /\ acceptSocket \in open
    /\ clients' = [clients EXCEPT ![k] = Slot(k)]
    /\ LET n == Number(k)
       IN  /\ assoc' = [assoc EXCEPT ![acceptSocket] = n]
           /\ CreateSymmetricKey(n)
           /\ WSARecv(clients'[n].socket, clients'[n].recvBufSize)
    /\ ScheduleAccept(open)
    /\ UNCHANGED <<deaf, writes, aborted, port, peer, recvBuf, quiet, hit, late, leaked>>

\* Otherwise the new socket is closed.
Refuse ==
    /\ Admission
    /\ peer' = [peer EXCEPT ![acceptSocket] = Nobody]
    /\ ScheduleAccept(open \ {acceptSocket})
    /\ UNCHANGED <<assoc, deaf, reads, writes, aborted, port, recvBuf, symKeys, quiet, hit,
                   late>>

RefuseFull == FreeKeys = {} /\ Refuse /\ UNCHANGED <<clients, leaked>>

\* No remote address: every free slot was given an id on the way.
RefuseNoAddress ==
    /\ "sockaddr" \in Faults
    /\ FreeKeys # {}
    /\ Refuse
    /\ clients' = [k \in Keys |->
         IF Occupied(k) THEN clients[k]
         ELSE [clients[k] EXCEPT !.id = Number(k), !.age = 0]]
    /\ UNCHANGED leaked

\* CreateIoCompletionPort failed: the slot keeps the socket that is closed.
RefuseNotAssociated(k) ==
    /\ "associate" \in Faults
    /\ First(k, FreeKeys)
    /\ Refuse
    /\ clients' = [clients EXCEPT ![k] = Slot(k)]
    /\ leaked' = TRUE
-----------------------------------------------------------------------------
\* ProcessEvent, by the packet at the head of the port.  A free slot that was passed
\* over by RefuseNoAddress may have the number of another, which is read for then.
Touch(p) ==
    /\ p.stale => p.key \in StaleSlots \ hit
    /\ hit' = IF p.stale THEN hit \cup (Keys \cap {p.key, clients[p.key].id}) ELSE hit

\* The peer closed: whatever else is in flight is cancelled, and the packet
\* that frees the slot is posted, on behalf of the client the packet was for.
ReceiveEnd ==
    /\ Gets("recv") /\ Head(port).n = 0
    /\ quiet' = 0
    /\ LET k == Head(port).key IN
       /\ clients' = [clients EXCEPT ![k].age = 0]
       /\ CancelIo(clients[k].socket, Tail(port),
                   <<[NewPacket("cancel", k, 0) EXCEPT !.stale = Head(port).stale]>>)
    /\ Touch(Head(port))
    /\ UNCHANGED <<open, assoc, accepting, deaf, peer, recvBuf, acceptSocket, symKeys, loop,
                   late, leaked>>

\* ScheduleRead(t, true) for the slot t that client.id names: the bytes counted
\* in cs are dropped and a read at the start of the buffer is posted.  A freed
\* slot has id 0, the listening socket, on which the read fails.
Emptied(cs, t) ==
    [k \in Keys |-> IF k = t THEN [cs[k] EXCEPT !.recvBufSize = 0] ELSE cs[k]]
ReadAnew(t) ==
    IF t \in Keys THEN WSARecv(clients[t].socket, 0) ELSE UNCHANGED reads

\* ValidateStart takes the first part of a message for the whole.
ValidateStart(k, n) == recvBuf[k].head.len >= clients[k].recvBufSize + n

\* Message::ValidateBuff, once n more units have arrived.
ValidateBuff(k, n) == recvBuf[k].head.len = clients[k].recvBufSize + n

Received(k, n) == [clients[k] EXCEPT !.age = 0, !.recvBufSize = @ + n]

\* sendBuf is overwritten with the answer to m.
Answering(c, m) == [c EXCEPT !.age = 0, !.recvBufSize = 0, !.unsent = m.reply]

\* The completion of an answer shorter than m's is due on slot k; its bytes will be
\* counted as bytes of m's.
ShorterDue(k, m) ==
    LET s == clients[k].socket
    IN  \/ \E i \in DOMAIN port : port[i].op = "send" /\ port[i].key = k /\ port[i].n < m.reply
        \/ s \in Handles /\ \E i \in DOMAIN writes[s] : writes[s][i].n < m.reply
Answers(k, m) == late' = (late \/ ShorterDue(k, m))

Receive(kind) ==
    /\ Gets("recv") /\ Head(port).n > 0 /\ TakePacket
    /\ Touch(Head(port))
    /\ LET k == Head(port).key
       IN  IF kind = "partial" THEN ~ValidateBuff(k, Head(port).n)
           ELSE ValidateBuff(k, Head(port).n) /\ recvBuf[k].head.kind = kind
    /\ UNCHANGED <<open, assoc, accepting, deaf, aborted, recvBuf, acceptSocket, symKeys, loop,
                   leaked>>

ReceivePartial ==
    /\ Receive("partial")
    /\ LET k == Head(port).key
           c == Received(k, Head(port).n)
       IN  /\ clients' = [clients EXCEPT ![k] = c]
           /\ WSARecv(c.socket, c.recvBufSize)
    /\ UNCHANGED <<writes, peer, late>>

\* ExportSymmetricKey hands the peer the key of client.id; the answer is written
\* and the next message read for at once.
ReceiveKeyRequest ==
    /\ Receive("key")
    /\ LET k == Head(port).key
           c == clients[k]
           m == recvBuf[k].head
       IN  /\ clients' = Emptied([clients EXCEPT ![k] = Answering(c, m)], c.id)
           /\ WSASend(c.socket, m.reply, TRUE)
           /\ Answers(k, m)
           /\ ReadAnew(c.id)
           /\ peer' = IF Usable(c.socket) THEN [peer EXCEPT ![c.socket].key = symKeys[c.id]]
                      ELSE peer

\* RequestReadAnew reads on at once, as after a key request.
RequestReadAnew ==
    /\ Receive("request")
    /\ LET k == Head(port).key
           m == recvBuf[k].head
       IN  /\ clients' = [clients EXCEPT ![k] = Answering(@, m)]
           /\ WSASend(clients[k].socket, m.reply, TRUE)
           /\ Answers(k, m)
    /\ ReadAnew(clients[Head(port).key].id)
    /\ UNCHANGED peer

\* A request: the handler's response is written, over what sendBuf held.
ReceiveRequest ==
    /\ Receive("request")
    /\ LET k == Head(port).key
           m == recvBuf[k].head
       IN  /\ clients' = [clients EXCEPT ![k] = Answering(@, m)]
           /\ WSASend(clients[k].socket, m.reply, TRUE)
           /\ Answers(k, m)
    /\ UNCHANGED <<reads, peer>>

\* A request no handler is registered for: nothing more is read from the peer.
ReceiveUnknown ==
    /\ Receive("unknown")
    /\ LET k == Head(port).key
       IN  clients' = [clients EXCEPT ![k] = [@ EXCEPT !.age = 0, !.recvBufSize = 0]]
    /\ UNCHANGED <<reads, writes, peer, late>>

\* What sendBuf still holds to send, and the slip of not advancing sentSize.
UnsentStuck(k, n) == clients[k].unsent
Unsent(k, n) == clients[k].unsent - n

Send ==
    /\ Gets("send") /\ TakePacket
    /\ Touch(Head(port))
    /\ UNCHANGED <<open, assoc, accepting, deaf, aborted, peer, recvBuf, acceptSocket,
                   symKeys, loop, late, leaked>>

SendPartial ==
    /\ Send
    /\ LET k == Head(port).key
           u == Unsent(k, Head(port).n)
       IN  /\ u > 0 /\ Head(port).n > 0
           /\ clients' = [clients EXCEPT ![k].unsent = u]
           /\ WSASend(clients[k].socket, u, FALSE)
    /\ UNCHANGED reads

\* All is written: read the next message.
SendDone ==
    /\ Send
    /\ LET k == Head(port).key
           u == Unsent(k, Head(port).n)
       IN  /\ ~(u > 0 /\ Head(port).n > 0)
           /\ clients' = Emptied([clients EXCEPT ![k].unsent = u], clients[k].id)
           /\ ReadAnew(clients[k].id)
    /\ UNCHANGED writes

\* CancelledUnclosed frees the slot and leaves its socket open.
CancelledUnclosed ==
    /\ Gets("cancel") /\ TakePacket
    /\ LET k == Head(port).key IN
       /\ clients' = [clients EXCEPT ![k] = FreeClient]
       /\ recvBuf' = [recvBuf EXCEPT ![k] = Zeroed]
    /\ UNCHANGED <<open, assoc, accepting, deaf, reads, writes, aborted, peer, acceptSocket,
                   symKeys, loop, hit, late, leaked>>

\* A cancel packet frees the slot, whoever holds it, unless it is free already.
Cancelled ==
    /\ Gets("cancel") /\ quiet' = 0
    /\ LET k == Head(port).key
           s == clients[k].socket
       IN  IF s = INVALID_SOCKET
           THEN /\ port' = Tail(port)
                /\ UNCHANGED <<open, assoc, accepting, deaf, reads, writes, aborted, peer,
                               recvBuf, clients>>
           ELSE /\ closesocket(s)
                /\ clients' = [clients EXCEPT ![k] = FreeClient]
                /\ recvBuf' = [recvBuf EXCEPT ![k] = Zeroed]
                /\ port' = [i \in 1 .. Len(port) - 1 |->
                     [port[i + 1] EXCEPT !.stale = @ \/ port[i + 1].key = k]]
    /\ UNCHANGED <<acceptSocket, symKeys, loop, hit, late, leaked>>

\* steady_clock, as far as the code looks at it.
Tick ==
    /\ clients' = [k \in Keys |->
         IF Occupied(k) /\ clients[k].age <= TIMEOUT
         THEN [clients[k] EXCEPT !.age = @ + 1] ELSE clients[k]]
    /\ quiet' = IF loop = Idle /\ port = <<>> /\ quiet < TIMEOUT THEN quiet + 1 ELSE quiet
    /\ UNCHANGED <<sockVars, acceptSocket, symKeys, loop, hit, late, leaked>>
-----------------------------------------------------------------------------
Thread ==
    \/ WaitTimedOut \/ OperationFailed \/ AcceptCompleted
    \/ \E k \in Keys : ScheduleDisconnect(k) \/ Admit(k) \/ RefuseNotAssociated(k)
    \/ RefuseFull \/ RefuseNoAddress
    \/ ReceiveEnd \/ ReceivePartial \/ ReceiveKeyRequest \/ ReceiveRequest
    \/ ReceiveUnknown \/ SendPartial \/ SendDone \/ Cancelled

Environment(h) ==
    \/ \E m \in Messages : PeerSends(h, m)
    \/ PeerCloses(h) \/ PeerResets(h)

Completion(h) ==
    \/ \E n \in 0 .. MAX_BUF_SIZE : Deliver(h, n)
    \/ DeliverEof(h)
    \/ \E i \in DOMAIN writes[h] : \E n \in 1 .. writes[h][i].n : Transmit(h, i, n)
    \/ SendCompletes(h)

Next ==
    \/ Thread
    \/ Tick
    \/ (PeerConnects \/ AcceptFails \/ AbortCompletes) /\ UNCHANGED serverVars
    \/ \E h \in Handles : (Environment(h) \/ Completion(h)) /\ UNCHANGED serverVars

Spec == Init /\ [][Next]_vars
-----------------------------------------------------------------------------
\* Every variable has its type.
TypeOK ==
    /\ SockTypeOK
    /\ clients \in [Keys -> Client]
    /\ acceptSocket \in Handles
    /\ symKeys \in [Keys -> Handles \cup {NoKey}]
    /\ loop \in [todo: SUBSET Keys, admit: BOOLEAN]
    /\ quiet \in 0 .. TIMEOUT
    /\ hit \subseteq Keys
    /\ late \in BOOLEAN
    /\ leaked \in BOOLEAN

\* CreateIoCompletionPort has not failed on an accepted socket so far.
NoLeak == ~leaked

\* A client is served under its own number: the id kept in the slot (which picks
\* its symmetric key and the slot of its next read) and the completion key of its
\* socket are both the slot's index, whatever was refused or freed before.
SlotIdentity ==
    \A k \in Keys : Occupied(k) =>
        /\ clients[k].id = k
        /\ NoLeak => assoc[clients[k].socket] = k

\* No socket is leaked, closed twice or held by two slots: the open sockets are
\* those of the occupied slots and the one waiting to be accepted.
SocketsOwned == NoLeak =>
    /\ open = {acceptSocket} \cup {clients[k].socket : k \in Keys \ FreeKeys}
    /\ \A j, k \in Keys : Occupied(j) /\ clients[j].socket = clients[k].socket => j = k
    /\ \A k \in Keys : clients[k].socket # acceptSocket

IsAccept(i) == port[i].op = "accept"

\* The server keeps exactly one AcceptEx going, in flight, completed in the port
\* or being handled, until one ends without a connection: from then on, and only
\* then, there is none any more.
OneAccept ==
    /\ accepting \in {INVALID_SOCKET, acceptSocket}
    /\ \A i, j \in DOMAIN port : IsAccept(i) /\ IsAccept(j) => i = j
    /\ \A i \in DOMAIN port : IsAccept(i) => accepting = INVALID_SOCKET /\ ~loop.admit
    /\ loop.admit => accepting = INVALID_SOCKET
    /\ ~deaf <=>
         accepting = acceptSocket \/ loop.admit \/ \E i \in DOMAIN port : IsAccept(i)

\* I/O is in flight only on the sockets of occupied slots, and a packet of I/O or
\* of a cancellation is that of the slot's present occupant unless it is stale.
IoBelongs == NoLeak =>
    /\ \A h \in Handles : reads[h] # <<>> \/ writes[h] # <<>> =>
         \E k \in Keys : clients[k].socket = h
    /\ \A i \in DOMAIN port : port[i].op \in {"recv", "send", "cancel"} /\ ~port[i].stale =>
         port[i].key \in Keys /\ Occupied(port[i].key)

\* Two clients never share a symmetric key: what a peer was given is the key its
\* slot decrypts with now, and the key was made for that very connection.
KeyAgreement == NoLeak =>
    \A k \in Keys : Occupied(k) =>
        /\ symKeys[k] = clients[k].socket
        /\ peer[clients[k].socket].key \in {NoKey, symKeys[k]}

Processing(k) ==
    /\ loop = Idle /\ port # <<>> /\ Head(port).op = "recv"
    /\ Head(port).key = k /\ Head(port).n > 0 /\ ValidateBuff(k, Head(port).n)

\* Unless a stale packet came in between, a message is handled only when all of
\* it is in the buffer in its place, however it was split and although a key
\* exchange leaves two reads in flight on the same buffer.
WholeMessages ==
    \A k \in Keys \ hit : Processing(k) /\ ~Head(port).stale =>
        recvBuf[k].fill = recvBuf[k].head.len

\* Unless a stale packet came in between, a slot has at most the two reads of a
\* key exchange in flight and never counts more bytes than its buffer holds: so it is
\* where no message is longer than the buffer, as in the run that checks it.  Each
\* of the two reads may take as much of a longer one as fits.
BufferBounded ==
    \A k \in Keys \ hit : Occupied(k) =>
        /\ clients[k].socket \in open => Len(reads[clients[k].socket]) <= 2
        /\ clients[k].recvBufSize <= MAX_BUF_SIZE

\* Bytes that answer nothing have reached a peer.
Garbled(h) == peer[h].junk \/ peer[h].st = "garbled"

\* Unless a stale packet came in between, a peer never receives bytes that answer
\* nothing it asked: what "more to be sent" says of the answer in sendBuf.
NeverGarbled == hit = {} => \A h \in Handles : ~Garbled(h)

\* That is so as long as no answer is written while the completion of a shorter one
\* is due, however the answers differ in length and the completions are delayed.
AnswersNotGarbled == ~late => NeverGarbled

\* A client is disconnected by a packet posted for it, not for a client that had
\* the slot before: what "Disconnect scheduled for client" says.
OwnDisconnect ==
    [][\A k \in Keys : Occupied(k) /\ ~Occupied(k)' => ~Head(port).stale]_vars
-----------------------------------------------------------------------------
\* The thread, the kernel and the clock keep going; peers need not do anything.
Fairness ==
    /\ WF_vars(Thread)
    /\ WF_vars(Tick)
    /\ WF_vars(AbortCompletes /\ UNCHANGED serverVars)
    /\ \A h \in Handles : WF_vars(Completion(h) /\ UNCHANGED serverVars)

FairSpec == Spec /\ Fairness

\* The run ends here: a stale packet beyond the bound StaleSlots is next.
BoundReached ==
    /\ loop = Idle /\ port # <<>> /\ Head(port).op \in {"recv", "send"}
    /\ Head(port).stale /\ Head(port).key \notin StaleSlots \ hit

\* A peer that got what answers nothing, before its answer or for it, still waits.
Pending(h) == peer[h].st \in {"sending", "waiting", "garbled"}

\* TimeoutCheck runs when the port was silent, an operation failed or a connection
\* came: a client that keeps talking can keep all three from ever happening.
Checked == WaitTimedOut \/ OperationFailed \/ AcceptCompleted
KeepsChecking == []<><<Checked>>_vars

\* While TimeoutCheck keeps running, a peer that sends a message and waits for the
\* answer is answered or disconnected in the end, whatever the others do.
NoPeerHangs == KeepsChecking =>
    \A h \in Handles : Pending(h) ~> ~Pending(h) \/ BoundReached

\* A client that has been silent for longer than TIMEOUT is disconnected or heard again.
SilentReclaimed ==
    \A k \in Keys : k \in Expired ~> k \notin Expired \/ BoundReached

\* So it is while TimeoutCheck keeps running.
ExpiredReclaimed == KeepsChecking => SilentReclaimed

\* The server never stops accepting connections.
KeepsAccepting == []<>(accepting # INVALID_SOCKET \/ BoundReached)
-----------------------------------------------------------------------------
\* The slots are the seats of the abstract pool and m_acceptSocket the connection
\* offered.
Pool == INSTANCE ClientPool WITH
    Capacity <- MAX_CLIENTS, Connections <- Handles, Nobody <- INVALID_SOCKET,
    offered <- acceptSocket, seats <- [k \in Keys |-> clients[k].socket]

\* The server keeps the promises of the pool: a connection is refused only when
\* every slot is occupied, and is never served in two slots or moved.
ImplementsPool == Pool!Spec
=============================================================================
