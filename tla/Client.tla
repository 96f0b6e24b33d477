------------------------------- MODULE Client -------------------------------
(***************************************************************************)
(* The client: the command loop of src/client/cli, its connectors to       *)
(* several servers and the socket each has, and the symmetric keys.  One   *)
(* thread does everything and blocks in connect, send and recv: one action *)
(* per such call, with all that follows it up to the next one.  Commands   *)
(* that change nothing (a wrong port, a bad index, help) are no actions.   *)
(*                                                                         *)
(* The servers at the other ends are external here, as far as a client can *)
(* tell what module Server does: a key and an answer for a request, a      *)
(* connection closed after a silence, or at once when the pool is full.    *)
(***************************************************************************)
EXTENDS Integers, FiniteSets

CONSTANTS
    Hosts,       \* the addresses servers listen on
    Conns,       \* TCP connections; a symmetric key is named by its connection
    NoSocket,    \* INVALID_SOCKET, or no Context at all
    NoHost,      \* no server
    NoKey,       \* garbage, or no key
    TIMEOUT,     \* ticks of silence both the server and the client allow
    MaxServers,  \* bound: connectors, a failed one included
    Faults       \* what may go wrong, of AllFaults

\* full: the pool of clients; down: a host; split: an answer in two segments.
AllFaults == {"full", "down", "split"}

ASSUME ClientAssumption ==
    /\ NoSocket \notin Conns /\ NoKey \notin Conns /\ NoHost \notin Hosts
    /\ TIMEOUT \in Nat \ {0}
    /\ MaxServers \in Nat \ {0}
    /\ Faults \subseteq AllFaults

VARIABLES
    connectors,  \* m_connectors[0 ..], from 1, then the Connector being checked
    size,        \* m_connectors.size()
    active,      \* m_activeServer
    keys,        \* EncryptionManager::m_keys of the connectors' ids
    thread,      \* the call the thread is in, for which connector and on behalf
                 \* of what, and if part of an answer was overwritten
    listening,   \* hosts with a running server
    wire         \* the connections

clientVars == <<connectors, size, active, keys, thread>>
vars == <<connectors, size, active, keys, thread, listening, wire>>

Slots == 1 .. MaxServers

\* age is now - m_lastConnTime, up to the first tick past TIMEOUT; failed is a
\* history mark: the last thing the connector was asked for failed.
Connector == [id: 0 .. MaxServers, host: Hosts \cup {NoHost}, canConnect: BOOLEAN,
              sock: Conns \cup {NoSocket}, age: 0 .. TIMEOUT + 1, failed: BOOLEAN]
Nowhere == [id |-> 0, host |-> NoHost, canConnect |-> FALSE, sock |-> NoSocket, age |-> 0,
            failed |-> FALSE]

Places == {"start", "prompt", "ask", "connect", "sendKey", "recvKey", "send", "recv",
           "exit", "abort"}
Reasons == {"ctor", "ask", "add", "command"}
Thread == [at: Places, on: Slots, why: Reasons, split: BOOLEAN]

Silence == [kind |-> "none", key |-> NoKey]
Wire == [st: {"free", "up", "closed", "reset"}, host: Hosts \cup {NoHost}, age: 0 .. TIMEOUT + 1,
         up: [kind: {"none", "key", "request"}, key: Conns \cup {NoKey}], down: BOOLEAN]
Unused == [st |-> "free", host |-> NoHost, age |-> 0, up |-> Silence, down |-> FALSE]

TypeOK ==
    /\ connectors \in [Slots -> Connector]
    /\ size \in 0 .. MaxServers
    /\ active \in 0 .. MaxServers - 1
    /\ keys \in [Slots -> Conns \cup {NoKey}]
    /\ thread \in Thread
    /\ listening \subseteq Hosts
    /\ wire \in [Conns -> Wire]

Listed == 1 .. size
Me == connectors[thread.on]
Busy == thread.at \in {"connect", "sendKey", "recvKey", "send", "recv"}
Go(place) == thread' = [thread EXCEPT !.at = place, !.split = FALSE]

\* Context::Expired, where there is a Context with a socket.
Expired(c) == c.sock = NoSocket \/ c.age > TIMEOUT

\* closesocket, in Context's destructor.
Closed(s) == [w \in Conns |-> IF w = s THEN Unused ELSE wire[w]]

\* Connector::exec up to its first blocking call: a Context that is not usable is
\* replaced and the server called anew.
Exec(k, c, why) ==
    IF Expired(c)
    THEN /\ connectors' = [connectors EXCEPT ![k] = [c EXCEPT !.sock = NoSocket, !.age = 0]]
         /\ wire' = Closed(c.sock)
         /\ thread' = [at |-> "connect", on |-> k, why |-> why, split |-> FALSE]
    ELSE /\ connectors' = [connectors EXCEPT ![k] = c]
         /\ thread' = [at |-> "send", on |-> k, why |-> why, split |-> FALSE]
         /\ UNCHANGED wire

\* IdShared numbers a new connector by the size of the list as it is.
IdShared == IF size = 0 THEN 1 ELSE size
NewId == size + 1

\* Connector's constructor and checkConnection's request.
Check(h, why) ==
    /\ size < MaxServers
    /\ Exec(size + 1, [Nowhere EXCEPT !.id = NewId, !.host = h, !.canConnect = TRUE], why)

\* The list is empty, or its active server known to be unreachable.
NeedsInput(cs, n, a) == n = 0 \/ (a < n /\ ~cs[a + 1].canConnect)
Loop(cs, n, a) == thread' = [thread EXCEPT !.split = FALSE,
                             !.at = IF NeedsInput(cs, n, a) THEN "ask" ELSE "prompt"]

\* An error of a command's request to c is reported, and c kept as it is.
ReportError(c) ==
    /\ thread.why = "command"
    /\ LET cs == [connectors EXCEPT ![thread.on] = [c EXCEPT !.failed = TRUE]]
       IN  connectors' = cs /\ Loop(cs, size, active)

\* A new Connector whose check failed is deleted.  It has no destructor: its
\* Context stays, and the socket open.
Drop ==
    /\ thread.why # "command"
    /\ LET cs == [connectors EXCEPT ![thread.on] = Nowhere]
       IN  connectors' = cs /\ Loop(cs, size, active)

Fail(c) == (ReportError(c) \/ Drop) /\ UNCHANGED <<size, active, keys>>

\* The answer to a command is printed.
Report(c) ==
    /\ thread.why = "command"
    /\ LET cs == [connectors EXCEPT ![thread.on] = [c EXCEPT !.failed = FALSE]]
       IN  connectors' = cs /\ Loop(cs, size, active)
    /\ UNCHANGED <<size, active>>

\* A new Connector c whose check succeeded is listed, and may become active.
Enlist(c) ==
    /\ thread.why # "command"
    /\ connectors' = [connectors EXCEPT ![thread.on] = c]
    /\ size' = size + 1
    /\ active' = CASE thread.why = "add" -> size
                   [] thread.why = "ctor" \/ size = 0 -> 0
                   [] OTHER -> active
    /\ Loop(connectors', size', active')

Succeed(c) == (Report(c) \/ Enlist(c)) /\ UNCHANGED keys

Init ==
    /\ connectors = [k \in Slots |-> Nowhere]
    /\ size = 0
    /\ active = 0
    /\ keys = [k \in Slots |-> NoKey]
    /\ thread \in [at: {"start", "ask"}, on: {1}, why: {"ctor"}, split: {FALSE}]
    /\ listening = Hosts
    /\ wire = [w \in Conns |-> Unused]
-----------------------------------------------------------------------------
(***************************************************************************)
(* The user.                                                               *)
(***************************************************************************)
\* A server was named on the command line: it is tried before any input.
CommandLine(h) ==
    /\ thread.at = "start"
    /\ Check(h, "ctor")
    /\ UNCHANGED <<size, active, keys, listening>>

InputConnectionInfo(h) ==
    /\ thread.at = "ask"
    /\ Check(h, "ask")
    /\ UNCHANGED <<size, active, keys, listening>>

AddServer(h) ==
    /\ thread.at = "prompt"
    /\ Check(h, "add")
    /\ UNCHANGED <<size, active, keys, listening>>

\* Any of the commands that ask the active server for something.
Command ==
    /\ thread.at = "prompt" /\ active < size
    /\ Exec(active + 1, connectors[active + 1], "command")
    /\ UNCHANGED <<size, active, keys, listening>>

\* IndexAtMost lets the index one past the last server through.
IndexAtMost(i) == i <= size
IndexOK(i) == i < size

\* checkConnection returns at once for a connector that cannot connect.
SetActiveServer(i) ==
    /\ thread.at = "prompt"
    /\ IndexOK(i)
    /\ active' = i
    /\ Loop(connectors, size, i)
    /\ UNCHANGED <<connectors, size, keys, listening, wire>>

Disconnect ==
    /\ thread.at = "prompt" /\ active < size
    /\ connectors' = [connectors EXCEPT ![active + 1].sock = NoSocket]
    /\ wire' = Closed(connectors[active + 1].sock)
    /\ UNCHANGED <<size, active, keys, thread, listening>>

Exit ==
    /\ thread.at = "prompt"
    /\ connectors' = [k \in Slots |-> [connectors[k] EXCEPT !.sock = NoSocket]]
    /\ wire' = [w \in Conns |-> IF \E k \in Listed : connectors[k].sock = w
                                THEN Unused ELSE wire[w]]
    /\ Go("exit")
    /\ UNCHANGED <<size, active, keys, listening>>
-----------------------------------------------------------------------------
(***************************************************************************)
(* The calls that block.                                                   *)
(***************************************************************************)
\* Connections nothing refers to any more; a server may not know yet.
Fresh == {w \in Conns : /\ wire[w].st # "up"
                        /\ \A k \in Slots : keys[k] # w /\ connectors[k].sock # w}

\* A full pool closes the connection it has accepted.
Connect ==
    /\ thread.at = "connect" /\ Me.host \in listening
    /\ \E w \in Fresh, st \in {"up"} \cup (IF "full" \in Faults THEN {"closed"} ELSE {}) :
         /\ connectors' = [connectors EXCEPT ![thread.on].sock = w]
         /\ wire' = [wire EXCEPT ![w] = [Unused EXCEPT !.st = st, !.host = Me.host]]
    /\ Go("sendKey")
    /\ UNCHANGED <<size, active, keys, listening>>

\* Nobody listens, or with a full pool the backlog of listen is full as well.
ConnectFails ==
    /\ thread.at = "connect"
    /\ Me.host \notin listening \/ "full" \in Faults
    /\ Fail(Me)
    /\ UNCHANGED <<listening, wire>>

\* What send does to the connection: nobody reads what is sent on a closed one.
Transfer(w, m) ==
    /\ wire[w].st \in {"up", "closed"}
    /\ IF wire[w].st = "up" THEN wire' = [wire EXCEPT ![w].up = m]
       ELSE \E st \in {"closed", "reset"} : wire' = [wire EXCEPT ![w].st = st]

Sent == connectors' = [connectors EXCEPT ![thread.on].age = 0]

SendKeyRequest ==
    /\ thread.at = "sendKey"
    /\ Transfer(Me.sock, [Silence EXCEPT !.kind = "key"])
    /\ Sent
    /\ Go("recvKey")
    /\ UNCHANGED <<size, active, keys, listening>>

\* The request is encrypted with the key kept under the connector's id.
SendRequest ==
    /\ thread.at = "send"
    /\ Transfer(Me.sock, [kind |-> "request", key |-> keys[Me.id]])
    /\ Sent
    /\ Go("recv")
    /\ UNCHANGED <<size, active, keys, listening>>

\* A connection that was reset; Send has set m_lastConnTime all the same.
SendFails ==
    /\ thread.at \in {"sendKey", "send"} /\ wire[Me.sock].st = "reset"
    /\ Fail([Me EXCEPT !.age = 0])
    /\ UNCHANGED <<listening, wire>>

\* ReceivedTouching counts the timeout from the answer on.
ReceivedTouching(c) == [c EXCEPT !.age = 0]
Received(c) == c

\* All of the answer arrives at once, and nothing of it before.
Receive ==
    /\ wire[Me.sock].down /\ ~thread.split
    /\ wire' = [wire EXCEPT ![Me.sock].down = FALSE]

ReceiveKey ==
    /\ thread.at = "recvKey"
    /\ Receive
    /\ connectors' = [connectors EXCEPT ![thread.on] = Received(Me)]
    /\ keys' = [keys EXCEPT ![Me.id] = Me.sock]
    /\ Go("send")
    /\ UNCHANGED <<size, active, listening>>

ReceiveResponse ==
    /\ thread.at = "recv"
    /\ Receive
    /\ Succeed(Received(Me))
    /\ UNCHANGED listening

\* Each segment is written over the one before: what ValidateBuff takes for the
\* size is then something else, and recv is called again.
ReceivePart ==
    /\ "split" \in Faults
    /\ thread.at \in {"recvKey", "recv"}
    /\ Receive
    /\ thread' = [thread EXCEPT !.split = TRUE]
    /\ UNCHANGED <<connectors, size, active, keys, listening>>

ReceiveFails ==
    /\ thread.at \in {"recvKey", "recv"} /\ wire[Me.sock].st = "reset"
    /\ Fail(Me)
    /\ UNCHANGED <<listening, wire>>

\* The server closed: recv returns 0, which ends the loop and is no error.
Ended == wire[Me.sock].st = "closed" /\ ~wire[Me.sock].down

\* A message is made of what the stack holds.  If that announces too much, the
\* program ends; otherwise there is an unusable key or an answer of any kind.
ReceiveEnd ==
    /\ thread.at \in {"recvKey", "recv"} /\ Ended
    /\ \/ Go("abort") /\ UNCHANGED <<connectors, size, active, keys>>
       \/ /\ thread.at = "recvKey" /\ Go("send")
          /\ keys' = [keys EXCEPT ![Me.id] = NoKey]
          /\ UNCHANGED <<connectors, size, active>>
       \/ thread.at = "recv" /\ (Succeed(Me) \/ Fail(Me))
    /\ UNCHANGED <<listening, wire>>
-----------------------------------------------------------------------------
(***************************************************************************)
(* The servers, and time.                                                  *)
(***************************************************************************)
\* A server reads a message, and answers one it can decrypt.
ServerAnswers(w) ==
    /\ wire[w].st = "up" /\ wire[w].up.kind # "none"
    /\ wire' = [wire EXCEPT ![w].age = 0, ![w].up = Silence,
                            ![w].down = wire[w].up.kind = "key" \/ wire[w].up.key = w]
    /\ UNCHANGED <<clientVars, listening>>

\* TimeoutCheck, when a server comes to run it, finds a silent connection, which is
\* closed; one with data unread is reset.
ServerTimesOut(w) ==
    /\ wire[w].st = "up" /\ wire[w].age > TIMEOUT
    /\ \E st \in IF wire[w].up = Silence THEN {"closed"} ELSE {"closed", "reset"} :
         wire' = [wire EXCEPT ![w].st = st, ![w].up = Silence]
    /\ UNCHANGED <<clientVars, listening>>

HostStops(h) ==
    /\ "down" \in Faults /\ h \in listening
    /\ listening' = listening \ {h}
    /\ wire' = [w \in Conns |-> IF wire[w].host = h /\ wire[w].st = "up"
                  THEN [wire[w] EXCEPT !.st = "reset", !.up = Silence, !.down = FALSE]
                  ELSE wire[w]]
    /\ UNCHANGED clientVars

HostStarts(h) ==
    /\ h \notin listening
    /\ listening' = listening \cup {h}
    /\ UNCHANGED <<clientVars, wire>>

Older(age) == IF age <= TIMEOUT THEN age + 1 ELSE age
Tick ==
    /\ connectors' = [k \in Slots |->
         IF connectors[k].sock = NoSocket THEN connectors[k]
         ELSE [connectors[k] EXCEPT !.age = Older(@)]]
    /\ wire' = [w \in Conns |->
         IF wire[w].st = "up" THEN [wire[w] EXCEPT !.age = Older(@)] ELSE wire[w]]
    /\ UNCHANGED <<size, active, keys, thread, listening>>
-----------------------------------------------------------------------------
User ==
    \/ \E h \in Hosts : CommandLine(h) \/ InputConnectionInfo(h) \/ AddServer(h)
    \/ Command \/ Disconnect \/ Exit
    \/ \E i \in 0 .. MaxServers : SetActiveServer(i)

Call ==
    \/ Connect \/ ConnectFails \/ SendKeyRequest \/ SendRequest \/ SendFails
    \/ ReceiveKey \/ ReceiveResponse \/ ReceivePart \/ ReceiveFails \/ ReceiveEnd

Server(w) == ServerAnswers(w) \/ ServerTimesOut(w)

Next ==
    \/ User \/ Call \/ Tick
    \/ \E w \in Conns : Server(w)
    \/ \E h \in Hosts : HostStops(h) \/ HostStarts(h)

Spec == Init /\ [][Next]_vars
-----------------------------------------------------------------------------
\* Every connector is listed under its own number, which picks its key, and has a
\* socket of its own; the active server is one of the list; and what checkConnection
\* once found connectable is taken to be so for good.
ConnectorsDistinct ==
    /\ size > 0 => active < size
    /\ \A k \in Listed :
         /\ connectors[k].id = k /\ connectors[k].host # NoHost /\ connectors[k].canConnect
         /\ \A j \in Slots \ {k} : connectors[j].sock = connectors[k].sock =>
              connectors[k].sock = NoSocket

\* A request a server reads is encrypted with the key of that very connection,
\* whatever connectors failed, were deleted or were called anew before.
KeyInUse ==
    \A w \in Conns : wire[w].st = "up" /\ wire[w].up.kind = "request" => wire[w].up.key = w

\* With both timeouts equal, a server gives up a connection only when the client
\* would not use it any more, unless a request is on its way at that moment.
NoEarlyTimeout ==
    [][\A w \in Conns, k \in Slots :
         /\ wire[w].st = "up" /\ wire[w].up = Silence /\ wire'[w].st = "closed"
         /\ connectors[k].sock = w
         => Expired(connectors[k])]_vars

\* A received message fits MAX_MSG_SIZE, as Message's constructor asserts.
MessageFits == thread.at # "abort"

\* Switching to a server that is not connected attempts to reconnect, as the
\* message "Server %d is not connected. Attempting reconnect..." has it.
SwitchReconnects ==
    [][thread.at = "prompt" /\ active' # active /\ connectors[active' + 1].failed
       => Busy']_vars
=============================================================================
