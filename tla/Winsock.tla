------------------------------ MODULE Winsock ------------------------------
(***************************************************************************)
(* What the server of src/server/server/tcp.cpp assumes of the world: the  *)
(* sockets and the I/O completion port of Windows, and the remote peers.   *)
(* None of it is code of the repository.  It is modelled from the way      *)
(* tcp.cpp uses the calls, and the peers from the way the repository's     *)
(* client talks: a key request first, then one request at a time.          *)
(*                                                                         *)
(* Bytes are counted in units; the first unit of a message carries its     *)
(* whole header, and no unit of a payload reads as a valid header.         *)
(***************************************************************************)
EXTENDS Integers, Sequences, FiniteSets

CONSTANTS
    Handles,         \* the socket handles WSASocketW can return
    INVALID_SOCKET,  \* the handle of no socket
    NoKey,           \* stands for no symmetric key
    MAX_CLIENTS,     \* slots for clients; slot 0 is the listening socket
    MAX_BUF_SIZE,    \* units of a receive buffer
    Messages,        \* the messages peers send
    MaxPort,         \* bound: the kernel queues a completion behind fewer packets
    Faults           \* the rare failures that may happen, of AllFaults

Kinds == {"key", "request", "unknown"}
AllFaults == {"accept", "sockaddr", "associate", "reset", "partial"}

ASSUME WinsockAssumption ==
    /\ INVALID_SOCKET \notin Handles
    /\ NoKey \notin Handles
    /\ MAX_CLIENTS \in Nat \ {0}
    /\ MAX_BUF_SIZE \in Nat \ {0}
    /\ MaxPort \in Nat \ {0}
    /\ Messages \subseteq [kind: Kinds, len: Nat \ {0}, reply: Nat \ {0}]
    /\ Faults \subseteq AllFaults

Keys == 1 .. MAX_CLIENTS

\* Zeroed or meaningless memory: no size equals the size it announces.
NoMessage == [kind |-> "unknown", len |-> 0, reply |-> 0]

VARIABLES
    open,       \* sockets returned by WSASocketW and not closed since
    assoc,      \* completion key a socket was associated with, 0 for none
    accepting,  \* socket of the AcceptEx in flight, INVALID_SOCKET for none
    deaf,       \* history: an AcceptEx has ended without a connection
    reads,      \* WSARecv calls in flight per socket: offsets into the buffer
    writes,     \* WSASend calls in flight per socket: size, whether it starts with
                \* the start of sendBuf, and whether it is transmitted
    aborted,    \* cancelled operations whose packet is not queued yet
    port,       \* the completion port: a queue of packets
    peer,       \* the remote end of each socket
    recvBuf     \* memory of each slot's recvBuf: the message whose header is
                \* at the start, and how much of that message follows in place

sockVars == <<open, assoc, accepting, deaf, reads, writes, aborted, port, peer, recvBuf>>

Packet == [op: {"accept", "failed"}, key: {0}, n: {0}, stale: BOOLEAN]
          \cup [op: {"recv", "send", "cancel"}, key: Keys, n: Nat, stale: BOOLEAN]

\* stale is a history mark: the slot was freed after the packet was queued.
NewPacket(op, key, n) == [op |-> op, key |-> key, n |-> n, stale |-> FALSE]
FailedPackets(n) == [i \in 1 .. n |-> NewPacket("failed", 0, 0)]

Write == [n: Nat, first: BOOLEAN, sent: BOOLEAN]

PeerStates == {"none", "idle", "sending", "waiting", "fin", "reset", "garbled"}
\* junk: bytes that answer nothing are in the stream to the peer, behind its answers.
Peer == [st: PeerStates, msg: Messages \cup {NoMessage}, next: Nat, got: Nat,
         key: Handles \cup {NoKey}, junk: BOOLEAN]
Nobody == [st |-> "none", msg |-> NoMessage, next |-> 0, got |-> 0, key |-> NoKey,
           junk |-> FALSE]
Connected == [Nobody EXCEPT !.st = "idle"]
Buffer == [head: Messages \cup {NoMessage}, fill: Nat]
Zeroed == [head |-> NoMessage, fill |-> 0]

InFlight(h) == Len(reads[h]) + Len(writes[h])
Usable(h) == h \in open /\ peer[h].st \notin {"none", "reset"}

\* Every variable of this module has its type.
SockTypeOK ==
    /\ open \in SUBSET Handles
    /\ assoc \in [Handles -> 0 .. MAX_CLIENTS]
    /\ accepting \in Handles \cup {INVALID_SOCKET}
    /\ deaf \in BOOLEAN
    /\ reads \in [Handles -> Seq(Nat)]
    /\ writes \in [Handles -> Seq(Write)]
    /\ aborted \in Nat
    /\ port \in Seq(Packet)
    /\ peer \in [Handles -> Peer]
    /\ recvBuf \in [Keys -> Buffer]

SockInit ==
    /\ assoc = [h \in Handles |-> 0]
    /\ deaf = FALSE
    /\ reads = [h \in Handles |-> <<>>]
    /\ writes = [h \in Handles |-> <<>>]
    /\ aborted = 0
    /\ port = <<>>
    /\ peer = [h \in Handles |-> Nobody]
    /\ recvBuf = [k \in Keys |-> Zeroed]
-----------------------------------------------------------------------------
(***************************************************************************)
(* The peers.                                                              *)
(***************************************************************************)
PeerConnects ==
    /\ Len(port) < MaxPort
    /\ accepting # INVALID_SOCKET
    /\ peer' = [peer EXCEPT ![accepting] = Connected]
    /\ port' = Append(port, NewPacket("accept", 0, 0))
    /\ accepting' = INVALID_SOCKET
    /\ UNCHANGED <<open, assoc, deaf, reads, writes, aborted, recvBuf>>

\* The key request comes first, the next message after a complete answer.
PeerSends(h, m) ==
    /\ peer[h].st = "idle"
    /\ m.kind = "key" <=> peer[h].key = NoKey
    /\ peer' = [peer EXCEPT ![h] = [@ EXCEPT !.st = "sending", !.msg = m,
                                             !.next = 0, !.got = 0]]
    /\ UNCHANGED <<open, assoc, accepting, deaf, reads, writes, aborted, port, recvBuf>>

PeerCloses(h) ==
    /\ peer[h].st \in {"idle", "waiting", "garbled"}
    /\ peer' = [peer EXCEPT ![h] = [Nobody EXCEPT !.st = "fin", !.key = peer[h].key]]
    /\ UNCHANGED <<open, assoc, accepting, deaf, reads, writes, aborted, port, recvBuf>>

\* A reset aborts whatever is in flight on the socket.
PeerResets(h) ==
    /\ "reset" \in Faults
    /\ peer[h].st \notin {"none", "reset"}
    /\ peer' = [peer EXCEPT ![h] = [Nobody EXCEPT !.st = "reset", !.key = peer[h].key]]
    /\ aborted' = aborted + InFlight(h)
    /\ reads' = [reads EXCEPT ![h] = <<>>]
    /\ writes' = [writes EXCEPT ![h] = <<>>]
    /\ UNCHANGED <<open, assoc, accepting, deaf, port, recvBuf>>
-----------------------------------------------------------------------------
(***************************************************************************)
(* The kernel completes what the server started, and queues a packet if    *)
(* the socket is associated with the port.                                 *)
(***************************************************************************)
AcceptFails ==
    /\ "accept" \in Faults
    /\ accepting # INVALID_SOCKET
    /\ port' = port \o FailedPackets(1)
    /\ accepting' = INVALID_SOCKET
    /\ deaf' = TRUE
    /\ UNCHANGED <<open, assoc, reads, writes, aborted, peer, recvBuf>>

\* The buffer b after units next+1 .. next+n of message m arrived at offset at.
Written(b, at, m, next, n) ==
    CASE at = 0 /\ next = 0      -> [head |-> m, fill |-> n]
      [] at = 0 /\ next # 0      -> Zeroed
      [] at # 0 /\ next = 0      -> [b EXCEPT !.fill = 0]
      [] at # 0 /\ next # 0 /\ b.fill = at /\ at = next -> [b EXCEPT !.fill = at + n]
      [] OTHER                   -> [b EXCEPT !.fill = IF at < @ THEN at ELSE @]

\* Peer p after n more of its units were taken.  With its whole message sent it reads,
\* and what it reads first is the junk, if there is any.
Taken(p, n) ==
    [p EXCEPT !.next = p.next + n,
              !.st = IF p.next + n < p.msg.len THEN p.st
                     ELSE IF p.junk THEN "garbled" ELSE "waiting"]

\* Write w holds what peer p lacks of its answer: all, or the rest behind what it got.
Wanted(p, w) ==
    /\ p.st = "waiting"
    /\ w.first <=> p.got = 0
    /\ p.got + w.n = p.msg.reply

\* Peer p after n units of write w reached it.  One that is not reading keeps what
\* answers nothing for later.
Given(p, w, n) ==
    CASE Wanted(p, w) /\ n < w.n -> [p EXCEPT !.got = p.got + n]
      [] Wanted(p, w) /\ n = w.n -> [Connected EXCEPT !.key = p.key]
      [] p.st = "waiting" /\ ~Wanted(p, w) -> [p EXCEPT !.st = "garbled"]
      [] p.st \in {"idle", "sending"} -> [p EXCEPT !.junk = TRUE]
      [] OTHER -> p

\* The oldest read takes n units, in the order they were sent; a read that was
\* posted with no room left takes none.  (Behind the end of the buffer the length of
\* the read would wrap around; no run has messages long enough to fill that one.)
Deliver(h, n) ==
    /\ Len(port) < MaxPort /\ assoc[h] \in Keys
    /\ peer[h].st = "sending"
    /\ reads[h] # <<>>
    /\ LET at == Head(reads[h])
           p  == peer[h]
           k  == assoc[h]
       IN  /\ IF at < MAX_BUF_SIZE THEN n \in 1 .. (MAX_BUF_SIZE - at) ELSE n = 0
           /\ n <= p.msg.len - p.next
           /\ peer' = [peer EXCEPT ![h] = Taken(p, n)]
           /\ recvBuf' = IF n = 0 THEN recvBuf
                         ELSE [recvBuf EXCEPT ![k] = Written(@, at, p.msg, p.next, n)]
           /\ port' = Append(port, NewPacket("recv", k, n))
    /\ reads' = [reads EXCEPT ![h] = Tail(@)]
    /\ UNCHANGED <<open, assoc, accepting, deaf, writes, aborted>>

\* After the peer's FIN a read completes with no data.
DeliverEof(h) ==
    /\ Len(port) < MaxPort /\ assoc[h] \in Keys
    /\ peer[h].st = "fin"
    /\ reads[h] # <<>>
    /\ port' = Append(port, NewPacket("recv", assoc[h], 0))
    /\ reads' = [reads EXCEPT ![h] = Tail(@)]
    /\ UNCHANGED <<open, assoc, accepting, deaf, writes, aborted, peer, recvBuf>>

\* n units of the i-th write reach the peer: all of them, as overlapped sends promise,
\* or the part that the completion will report.
Transmit(h, i, n) ==
    /\ i \in DOMAIN writes[h]
    /\ ~writes[h][i].sent
    /\ \A j \in 1 .. i - 1 : writes[h][j].sent
    /\ n \in 1 .. writes[h][i].n
    /\ n = writes[h][i].n \/ "partial" \in Faults
    /\ writes' = [writes EXCEPT ![h][i] = [@ EXCEPT !.n = n, !.sent = TRUE]]
    /\ peer' = [peer EXCEPT ![h] = Given(peer[h], writes[h][i], n)]
    /\ UNCHANGED <<open, assoc, accepting, deaf, reads, aborted, port, recvBuf>>

SendCompletes(h) ==
    /\ Len(port) < MaxPort /\ assoc[h] \in Keys
    /\ writes[h] # <<>>
    /\ Head(writes[h]).sent
    /\ port' = Append(port, NewPacket("send", assoc[h], Head(writes[h]).n))
    /\ writes' = [writes EXCEPT ![h] = Tail(@)]
    /\ UNCHANGED <<open, assoc, accepting, deaf, reads, aborted, peer, recvBuf>>

AbortCompletes ==
    /\ aborted > 0
    /\ aborted' = aborted - 1
    /\ port' = port \o FailedPackets(1)
    /\ UNCHANGED <<open, assoc, accepting, deaf, reads, writes, peer, recvBuf>>
-----------------------------------------------------------------------------
(***************************************************************************)
(* Calls of the server.  Each is the effect of one Winsock call on the     *)
(* variables it names; the actions of module Server are made of them.      *)
(***************************************************************************)
\* WSARecv and WSASend fail at once, with nothing in flight, on a socket that
\* is closed or was reset.
WSARecv(h, at) ==
    reads' = IF Usable(h) THEN [reads EXCEPT ![h] = Append(@, at)] ELSE reads

WSASend(h, n, first) ==
    writes' = IF Usable(h)
              THEN [writes EXCEPT ![h] = Append(@, [n |-> n, first |-> first, sent |-> FALSE])]
              ELSE writes

\* CancelIo aborts what is in flight on h.  The packets of the first n aborted
\* operations are queued at once, before more is posted, the others later.
CancelIo(h, q, more) ==
    IF h \in open
    THEN /\ \E n \in 0 .. InFlight(h) :
              /\ port' = q \o FailedPackets(n) \o more
              /\ aborted' = aborted + InFlight(h) - n
         /\ reads' = [reads EXCEPT ![h] = <<>>]
         /\ writes' = [writes EXCEPT ![h] = <<>>]
    ELSE port' = q \o more /\ UNCHANGED <<aborted, reads, writes>>

\* closesocket on h; what is in flight on it is aborted, an AcceptEx included.
AbortedByClose(h) == InFlight(h) + (IF accepting = h THEN 1 ELSE 0)
Close(h) ==
    /\ open' = open \ {h}
    /\ assoc' = [assoc EXCEPT ![h] = 0]
    /\ accepting' = IF accepting = h THEN INVALID_SOCKET ELSE accepting
    /\ deaf' = (deaf \/ accepting = h)
    /\ peer' = [peer EXCEPT ![h] = Nobody]
    /\ aborted' = aborted + AbortedByClose(h)
    /\ reads' = [reads EXCEPT ![h] = <<>>]
    /\ writes' = [writes EXCEPT ![h] = <<>>]
closesocket(h) ==
    IF h \in open THEN Close(h)
    ELSE UNCHANGED <<open, assoc, accepting, deaf, peer, aborted, reads, writes>>
=============================================================================
