------------------------------ MODULE Session ------------------------------
(***************************************************************************)
(* One user of the client and the server's event loop together: the        *)
(* Connector and Context of src/client/connector, which block in connect,  *)
(* send and recv, at the other end of a socket of module Server, with      *)
(* nothing assumed of the server but what its code does.  The client's     *)
(* earlier connections compete with its present one for the slots.         *)
(***************************************************************************)
EXTENDS Server

CONSTANT
    Backlog    \* the connection in the backlog of listen, which has no handle yet

ASSUME SessionAssumption == Backlog \notin Sockets

VARIABLES
    conn,     \* the socket of m_ctx, by the server's handle for it; Backlog or none
    end,      \* that connection, as the client would find it
    inbox,    \* an answer that has arrived and the key it could bring, or <<>>
    since,    \* ticks since m_lastConnTime, up to the first past TIMEOUT
    key,      \* EncryptionManager::m_keys of the connector's id
    at,       \* the call the client is in
    outcome,  \* of the last command
    asked,    \* history: the socket its request was sent on
    runs      \* history: how often the server has handled it

clientVars == <<conn, end, inbox, since, key, at, outcome, asked, runs>>
sessionVars == <<vars, clientVars>>

Calls == {"prompt", "connect", "sendKey", "recvKey", "send", "recv", "abort"}

SessionInit ==
    /\ Init
    /\ conn = INVALID_SOCKET /\ end = "closed" /\ inbox = <<>> /\ since = 0
    /\ key = NoKey
    /\ at = "prompt" /\ outcome = "none"
    /\ asked = INVALID_SOCKET /\ runs = 0

\* closesocket at the client's end.
HangUp == IF conn \in Handles /\ end = "up" THEN PeerCloses(conn) ELSE UNCHANGED sockVars

\* Context::Expired, or no Context.
ContextExpired == conn = INVALID_SOCKET \/ since > TIMEOUT

\* exec: a connection that is not usable is replaced first.
Command ==
    /\ at = "prompt"
    /\ outcome' = "pending" /\ runs' = 0 /\ asked' = INVALID_SOCKET
    /\ IF ContextExpired
       THEN /\ HangUp /\ conn' = INVALID_SOCKET /\ inbox' = <<>> /\ at' = "connect"
       ELSE at' = "send" /\ UNCHANGED <<sockVars, conn, inbox>>
    /\ UNCHANGED <<serverVars, end, since, key>>

Disconnect ==
    /\ at = "prompt" /\ conn # INVALID_SOCKET
    /\ HangUp /\ conn' = INVALID_SOCKET /\ inbox' = <<>>
    /\ UNCHANGED <<serverVars, end, since, key, at, outcome, asked, runs>>

Fails == at' = "prompt" /\ outcome' = "lost"

Connect ==
    /\ at = "connect"
    /\ PeerConnects
    /\ conn' = accepting /\ end' = "up" /\ inbox' = <<>> /\ since' = 0
    /\ at' = "sendKey"
    /\ UNCHANGED <<serverVars, key, outcome, asked, runs>>

\* While no AcceptEx is posted the connection waits in the backlog, which the client
\* does not notice.
ConnectQueued ==
    /\ at = "connect" /\ accepting = INVALID_SOCKET
    /\ conn' = Backlog /\ end' = "up" /\ inbox' = <<>> /\ since' = 0
    /\ at' = "sendKey"
    /\ UNCHANGED <<vars, key, outcome, asked, runs>>

\* The backlog is full, or nobody listens: m_socket stays INVALID_SOCKET.
ConnectFails ==
    /\ at = "connect"
    /\ Fails
    /\ UNCHANGED <<vars, conn, end, inbox, since, key, asked, runs>>

\* What send does: on a closed connection nobody reads it, and in the backlog it is
\* kept until the connection is accepted.
Transfer ==
    \/ conn \in Handles /\ end = "up" /\ (\E m \in Messages : PeerSends(conn, m)) /\ UNCHANGED end
    \/ conn = Backlog /\ end = "up" /\ UNCHANGED <<sockVars, end>>
    \/ end = "closed" /\ end' \in {"closed", "reset"} /\ UNCHANGED sockVars

SendKeyRequest ==
    /\ at = "sendKey" /\ Transfer
    /\ since' = 0 /\ at' = "recvKey"
    /\ UNCHANGED <<serverVars, conn, inbox, key, outcome, asked, runs>>

SendRequest ==
    /\ at = "send" /\ Transfer
    /\ since' = 0 /\ at' = "recv"
    /\ asked' = IF end = "up" THEN conn ELSE INVALID_SOCKET
    /\ UNCHANGED <<serverVars, conn, inbox, key, outcome, runs>>

\* m_lastConnTime is set before the result of send is looked at.
SendFails ==
    /\ at \in {"sendKey", "send"} /\ end = "reset"
    /\ Fails /\ since' = 0
    /\ UNCHANGED <<vars, conn, end, inbox, key, asked, runs>>

\* ReceiveKeyOnce does not replace a key.
ReceiveKeyOnce ==
    /\ at = "recvKey" /\ inbox # <<>>
    /\ key' = (IF key = NoKey THEN Head(inbox) ELSE key)
    /\ inbox' = <<>> /\ at' = "send"
    /\ UNCHANGED <<vars, conn, end, since, outcome, asked, runs>>
ReceiveKey ==
    /\ at = "recvKey" /\ inbox # <<>>
    /\ key' = Head(inbox) /\ inbox' = <<>> /\ at' = "send"
    /\ UNCHANGED <<vars, conn, end, since, outcome, asked, runs>>

\* ReceiveTouching counts the client's timeout from the answer on.
ReceiveTouching ==
    /\ at = "recv" /\ inbox # <<>>
    /\ inbox' = <<>> /\ at' = "prompt" /\ outcome' = "answered" /\ since' = 0
    /\ UNCHANGED <<vars, conn, end, key, asked, runs>>
ReceiveResponse ==
    /\ at = "recv" /\ inbox # <<>>
    /\ inbox' = <<>> /\ at' = "prompt" /\ outcome' = "answered"
    /\ UNCHANGED <<vars, conn, end, since, key, asked, runs>>

\* ReceiveRetries sends a request again whose connection was lost.
ReceiveRetries ==
    /\ at \in {"recvKey", "recv"} /\ end = "reset"
    /\ conn' = INVALID_SOCKET /\ inbox' = <<>> /\ at' = "connect"
    /\ UNCHANGED <<vars, end, since, key, outcome, asked, runs>>
ReceiveFails ==
    /\ at \in {"recvKey", "recv"} /\ end = "reset"
    /\ Fails
    /\ UNCHANGED <<vars, conn, end, inbox, since, key, asked, runs>>

\* The server closed, which is no error: a message is made of what the stack holds, of
\* the parts of an answer or of nothing.  It ends the program, or is an unusable key,
\* or is parsed as a response: as none that there is, or as one that no server gave.
Invented == at' = "prompt" /\ outcome' = "invented"
StreamEnds ==
    /\ at \in {"recvKey", "recv"} /\ end = "closed" /\ inbox = <<>>
    /\ \/ at' = "abort" /\ UNCHANGED <<key, outcome>>
       \/ at = "recvKey" /\ at' = "send" /\ key' = NoKey /\ UNCHANGED outcome
       \/ at = "recv" /\ (Fails \/ Invented) /\ UNCHANGED key
    /\ UNCHANGED <<vars, conn, end, inbox, since, asked, runs>>
-----------------------------------------------------------------------------
\* An AcceptEx is posted, or was, and takes the connection out of the backlog.
Accepted ==
    /\ conn = Backlog /\ end = "up"
    /\ PeerConnects
    /\ conn' = accepting
    /\ UNCHANGED <<serverVars, end, inbox, since, key, at, outcome, asked, runs>>

\* The key request that was sent meanwhile follows.
Flush ==
    /\ at = "recvKey" /\ conn \in Handles /\ end = "up" /\ peer[conn].key = NoKey
    /\ \E m \in Messages : PeerSends(conn, m)
    /\ UNCHANGED <<serverVars, clientVars>>

\* What an answer leaves to be read: it arrives whole, or in parts that are read one
\* over the other; and with junk behind it, it is not taken for an answer either.
Arrives ==
    IF peer[conn].st = "waiting" /\ peer'[conn].st = "idle" THEN {<<peer[conn].key>>, <<>>}
    ELSE IF peer'[conn].junk THEN {inbox, <<>>} ELSE {inbox}

\* What reaches the client of a step of the server or of its kernel.
Reaches ==
    /\ IF conn \notin Handles \/ end # "up" THEN UNCHANGED <<end, inbox>>
       ELSE /\ inbox' \in Arrives
            /\ IF peer'[conn].st # "none" THEN UNCHANGED end
               ELSE end' \in IF peer[conn].st = "sending" THEN {"closed", "reset"} ELSE {"closed"}
    /\ asked' = IF asked # INVALID_SOCKET /\ peer'[asked].st = "none" THEN INVALID_SOCKET ELSE asked
    /\ UNCHANGED <<conn, since, key, at, outcome>>

\* The thread is about to handle the request of the last command.
Handling ==
    \E k \in Keys : Processing(k) /\ recvBuf[k].head.kind = "request" /\ clients[k].socket = asked

ServerStep ==
    /\ Thread
    /\ Reaches
    /\ runs' = IF Handling THEN runs + 1 ELSE runs

CompletionStep(h) == Completion(h) /\ UNCHANGED <<serverVars, runs>> /\ Reaches
AbortStep == AbortCompletes /\ UNCHANGED <<serverVars, clientVars>>

\* The network loses the connection: both ends find it reset.
ConnectionLost ==
    /\ conn # INVALID_SOCKET /\ end = "up"
    /\ IF conn = Backlog THEN UNCHANGED sockVars ELSE PeerResets(conn)
    /\ end' = "reset"
    /\ UNCHANGED <<serverVars, conn, inbox, since, key, at, outcome, asked, runs>>

Clock ==
    /\ Tick
    /\ since' = IF conn # INVALID_SOCKET /\ since <= TIMEOUT THEN since + 1 ELSE since
    /\ UNCHANGED <<conn, end, inbox, key, at, outcome, asked, runs>>

Call ==
    \/ Connect \/ ConnectQueued \/ ConnectFails \/ SendKeyRequest \/ SendRequest \/ SendFails
    \/ ReceiveKey \/ ReceiveResponse \/ ReceiveFails \/ StreamEnds

SessionNext ==
    \/ Command \/ Disconnect \/ Call
    \/ ServerStep \/ AbortStep \/ Accepted \/ Flush \/ ConnectionLost \/ Clock
    \/ \E h \in Handles : CompletionStep(h)

SessionSpec == SessionInit /\ [][SessionNext]_sessionVars

\* As in Server, and the client's calls return when they can.
FairSessionSpec ==
    /\ SessionSpec
    /\ WF_sessionVars(Call) /\ WF_sessionVars(ServerStep) /\ WF_sessionVars(AbortStep)
    /\ WF_sessionVars(Clock) /\ WF_sessionVars(Accepted) /\ WF_sessionVars(Flush)
    /\ \A h \in Handles : WF_sessionVars(CompletionStep(h))
-----------------------------------------------------------------------------
\* Every variable has its type.
SessionTypeOK ==
    /\ TypeOK
    /\ conn \in Sockets \cup {Backlog} /\ asked \in Sockets
    /\ end \in {"up", "closed", "reset"}
    /\ inbox \in {<<>>} \cup {<<x>> : x \in Handles \cup {NoKey}}
    /\ since \in 0 .. TIMEOUT + 1
    /\ key \in Handles \cup {NoKey}
    /\ at \in Calls
    /\ runs \in 0 .. 1

\* On a connection that is still there the client encrypts with the key that the
\* server decrypts with, after any number of reconnections and slots used again.
SameKey ==
    at \in {"send", "recv", "prompt"} /\ conn # INVALID_SOCKET /\ end = "up" =>
        \E k \in Keys : clients[k].socket = conn /\ key = symKeys[clients[k].id]

\* The two timeouts, counted from different events at the two ends, agree: the
\* server takes a waiting user's connection for expired only when the client would
\* not use it any more.
TimeoutsAgree ==
    at = "prompt" /\ conn # INVALID_SOCKET /\ end = "up" =>
        \A k \in Expired \cup loop.todo : clients[k].socket = conn => since > TIMEOUT

Remote == INSTANCE RemoteCall

\* A command runs at most once, and exactly once before an answer that the server gave
\* is shown for it: no request is run twice or answered with the answer of another.
\* An answer made of leftovers says nothing.
ImplementsCall == Remote!Spec

\* A command always comes to an end, although the client waits without a timeout:
\* the server answers, or finds the connection silent and closes it.
CommandEnds ==
    at # "prompt" ~> at \in {"prompt", "abort"} \/ BoundReached
=============================================================================
