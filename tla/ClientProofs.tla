----------------------------- MODULE ClientProofs -----------------------------
(***************************************************************************)
(* Theorems about the client, for every number of servers, connectors and  *)
(* connections, any timeout and any set of faults.                         *)
(***************************************************************************)
EXTENDS Client, TLAPS

\* The calls that use a socket, and those before its key is known.
Calling == thread.at \in {"sendKey", "recvKey", "send", "recv"}
Keyless(k) == k = thread.on /\ thread.at \in {"sendKey", "recvKey"}

\* What the thread is busy with is the connector of the active server, or the one
\* behind the list; it has its own number and, but for connect, a socket.
Attended ==
    /\ Busy => /\ thread.on = (IF thread.why = "command" THEN active + 1 ELSE size + 1)
               /\ thread.why = "command" => active < size
               /\ Me.id = thread.on /\ Me.host \in Hosts /\ Me.canConnect
    /\ thread.at = "connect" => Me.sock = NoSocket
    /\ Calling => Me.sock \in Conns

\* No two connectors, listed or not, have one socket.
Apart ==
    \A j, k \in Slots : j # k /\ connectors[j].sock = connectors[k].sock =>
        connectors[k].sock = NoSocket

IsUp(k) == connectors[k].sock # NoSocket /\ wire[connectors[k].sock].st = "up"

\* The key kept for a connector is that of its connection, while that is up.
KeyHeld == \A k \in Slots : IsUp(k) /\ ~Keyless(k) => keys[k] = connectors[k].sock

\* The server counts a silence from a later moment than the client.
Younger ==
    \A k \in Slots : IsUp(k) /\ wire[connectors[k].sock].up = Silence =>
        wire[connectors[k].sock].age <= connectors[k].age

\* The inductive invariant.  The types rest on Attended, for what is enlisted and
\* whose key is stored; a request's key on KeyHeld; and KeyHeld on Apart, for a
\* connection that comes up must not be another connector's.
Inv == TypeOK /\ Attended /\ ConnectorsDistinct /\ Apart /\ KeyHeld /\ KeyInUse /\ Younger

\* The records that stand for no connector and no connection.
LEMMA NoneTyped == Nowhere \in Connector /\ Unused \in Wire /\ 0 \in 0 .. TIMEOUT + 1
<1>1. Silence \in [kind: {"none", "key", "request"}, key: Conns \cup {NoKey}]
  BY DEF Silence
<1>2. 0 \in 0 .. TIMEOUT + 1 /\ 0 \in 0 .. MaxServers
  BY ClientAssumption
<1>3. QED  BY <1>1, <1>2, Zenon DEF Nowhere, Connector, Unused, Wire

\* The program starts with an empty list.
LEMMA InitInv == Init => Inv
<1> SUFFICES ASSUME Init PROVE Inv
  OBVIOUS
<1> USE ClientAssumption, NoneTyped
<1>1. TypeOK
  <2>1. thread \in [at: Places, on: Slots, why: Reasons, split: BOOLEAN]
    <3>1. /\ {"start", "ask"} \subseteq Places /\ {1} \subseteq Slots
          /\ {"ctor"} \subseteq Reasons /\ {FALSE} \subseteq BOOLEAN
      BY DEF Places, Slots, Reasons
    <3>2. QED  BY <3>1 DEF Init
  <2>2. QED  BY <2>1 DEF Init, TypeOK, Thread
<1>2. Attended
  BY DEF Init, Attended, Busy, Calling
<1>3. ConnectorsDistinct
  BY DEF Init, ConnectorsDistinct, Listed
<1>4. Apart /\ KeyHeld /\ KeyInUse /\ Younger
  BY DEF Init, Apart, KeyHeld, KeyInUse, Younger, IsUp, Unused, Nowhere
<1>5. QED  BY <1>1, <1>2, <1>3, <1>4 DEF Inv

\* The thread goes on in another place, for the same connector and reason.
LEMMA Moved ==
    ASSUME TypeOK, NEW place \in Places,
           \/ Go(place)
           \/ thread' = [thread EXCEPT !.split = FALSE, !.at = place]
    PROVE  /\ thread' \in Thread
           /\ thread'.at = place /\ thread'.on = thread.on /\ thread'.why = thread.why
  BY DEF Go, TypeOK, Thread

\* Back in the command loop.
LEMMA Looped ==
    ASSUME TypeOK, NEW cs, NEW n, NEW a, Loop(cs, n, a)
    PROVE  thread' \in Thread /\ thread'.at \in {"ask", "prompt"} /\ thread'.on = thread.on
<1>1. PICK place \in {"ask", "prompt"} :
        thread' = [thread EXCEPT !.split = FALSE, !.at = place]
  BY DEF Loop
<1>2. QED  BY <1>1, Moved DEF Places

\* The active server's connection is closed.
LEMMA DisconnectInv ==
    ASSUME Inv, Disconnect PROVE Inv'
<1> USE ClientAssumption, NoneTyped DEF Inv
<1>1. TypeOK'
  BY DEF Disconnect, TypeOK, Slots, Connector, Closed
<1>2. Attended'
  BY DEF Disconnect, Attended, Busy, Calling, Me, TypeOK, Thread, Connector, Slots
<1>3. ConnectorsDistinct'
  BY DEF Disconnect, ConnectorsDistinct, Listed, TypeOK, Connector, Slots
<1>4. Apart'
  BY DEF Disconnect, Apart,  TypeOK, Connector, Slots
<1>5. KeyHeld'
  BY DEF Disconnect, KeyHeld, Keyless, IsUp, TypeOK, Connector, Slots, Closed, Unused
<1>6. KeyInUse'
  BY DEF Disconnect, KeyInUse, Closed, Unused
<1>7. Younger'
  BY DEF Disconnect, Younger, IsUp, TypeOK, Connector, Slots, Closed, Unused
<1>8. QED  BY <1>1, <1>2, <1>3, <1>4, <1>5, <1>6, <1>7

\* All connections are closed.
LEMMA ExitInv ==
    ASSUME Inv, Exit PROVE Inv'
<1> USE ClientAssumption, NoneTyped DEF Inv
<1>0. thread' \in Thread /\ thread'.at = "exit"
  BY Moved DEF Exit, Places
<1>1. TypeOK'
  BY <1>0 DEF Exit, TypeOK, Connector
<1>2. Attended'
  BY <1>0 DEF Attended, Busy, Calling
<1>3. ConnectorsDistinct'
  BY DEF Exit, ConnectorsDistinct, Listed, TypeOK, Connector, Slots
<1>4. \A k \in Slots : connectors'[k].sock = NoSocket
  BY DEF Exit, TypeOK, Connector
<1>5. Apart' /\ KeyHeld' /\ Younger'
  BY <1>4 DEF Apart, KeyHeld, Younger, IsUp
<1>6. KeyInUse'
  BY DEF Exit, KeyInUse, Unused
<1>8. QED  BY <1>1, <1>2, <1>3, <1>5, <1>6

\* Another listed server becomes active.
LEMMA SetActiveServerInv ==
    ASSUME Inv, NEW i \in 0 .. MaxServers, SetActiveServer(i) PROVE Inv'
<1> USE ClientAssumption DEF Inv
<1>0. thread' \in Thread /\ thread'.at \in {"ask", "prompt"}
  BY Looped DEF SetActiveServer
<1>1. TypeOK'
  BY <1>0 DEF SetActiveServer, IndexOK, TypeOK
<1>2. Attended'
  BY <1>0 DEF Attended, Busy, Calling
<1>3. ConnectorsDistinct'
  BY DEF SetActiveServer, IndexOK, ConnectorsDistinct, Listed
<1>4. Apart' /\ KeyHeld' /\ Younger' /\ KeyInUse'
  BY <1>0 DEF SetActiveServer, Apart, KeyHeld, Younger, IsUp, KeyInUse, Keyless
<1>8. QED  BY <1>1, <1>2, <1>3, <1>4

\* exec for the connector of a command or the one behind the list.
LEMMA ExecInv ==
    ASSUME Inv, thread.at \in {"start", "ask", "prompt"},
           NEW k \in Slots, NEW c \in Connector, NEW why \in Reasons, Exec(k, c, why),
           UNCHANGED <<size, active, keys, listening>>,
           c.id = k, c.host \in Hosts, c.canConnect,
           \/ k = size + 1 /\ why # "command" /\ c.sock = NoSocket
           \/ k = active + 1 /\ active < size /\ why = "command" /\ c = connectors[k]
    PROVE  Inv'
<1> USE ClientAssumption, NoneTyped DEF Inv
<1> DEFINE d == IF Expired(c) THEN [c EXCEPT !.sock = NoSocket, !.age = 0] ELSE c
<1>1. /\ connectors' = [connectors EXCEPT ![k] = d]
      /\ wire' = IF Expired(c) THEN Closed(c.sock) ELSE wire
      /\ thread' = [at |-> IF Expired(c) THEN "connect" ELSE "send", on |-> k, why |-> why,
                    split |-> FALSE]
  BY DEF Exec
<1>2. /\ d \in Connector /\ d.id = k /\ d.host = c.host /\ d.canConnect
      /\ d.sock = IF Expired(c) THEN NoSocket ELSE c.sock
      /\ ~Expired(c) => d = c /\ c.sock \in Conns /\ c = connectors[k]
  <2> DEFINE e == [c EXCEPT !.sock = NoSocket, !.age = 0]
  <2>0. e.canConnect = c.canConnect
    BY DEF Connector
  <2>1. e \in Connector /\ e.id = k /\ e.host = c.host /\ e.sock = NoSocket
    BY DEF Connector
  <2>2. c.sock # NoSocket => c.sock \in Conns
    BY DEF Connector
  <2>3. ~Expired(c) => c.sock # NoSocket /\ c = connectors[k]
    BY DEF Expired
  <2> HIDE DEF e
  <2>4. d = IF Expired(c) THEN e ELSE c
    BY DEF e
  <2>5. QED  BY <2>0, <2>1, <2>2, <2>3, <2>4
<1>3. TypeOK'
  <2>1. thread' \in Thread
    <3>1. {"connect", "send"} \subseteq Places /\ FALSE \in BOOLEAN
      BY DEF Places
    <3>2. QED  BY <1>1, <3>1, Zenon DEF Thread
  <2>2. connectors' \in [Slots -> Connector] /\ wire' \in [Conns -> Wire]
    BY <1>1, <1>2 DEF TypeOK, Closed
  <2>3. QED  BY <2>1, <2>2 DEF TypeOK
<1> HIDE DEF d
<1>4. connectors'[k] = d /\ \A j \in Slots \ {k} : connectors'[j] = connectors[j]
  BY <1>1 DEF TypeOK
<1>5. Attended'
  BY <1>1, <1>2, <1>4 DEF Attended, Busy, Calling, Me
<1>6. ConnectorsDistinct'
  BY <1>2, <1>4, SMTT(30) DEF ConnectorsDistinct, Listed, TypeOK, Slots
<1>7. Apart'
  BY <1>2, <1>4 DEF Apart
<1>8. KeyHeld'
  BY <1>1, <1>2, <1>4 DEF KeyHeld, Keyless, IsUp, Closed, Unused, TypeOK, Connector
<1>9. KeyInUse'
  BY <1>1 DEF KeyInUse, Closed, Unused
<1>10. Younger'
  BY <1>1, <1>2, <1>4 DEF Younger, IsUp, Closed, Unused, TypeOK, Connector
<1>11. QED  BY <1>3, <1>5, <1>6, <1>7, <1>8, <1>9, <1>10

\* What the user does.
LEMMA UserInv ==
    ASSUME Inv, User PROVE Inv'
<1>1. ASSUME NEW h \in Hosts, CommandLine(h) \/ InputConnectionInfo(h) \/ AddServer(h)
      PROVE  Inv'
  <2>1. PICK why \in Reasons : why # "command" /\ Check(h, why)
    BY <1>1 DEF CommandLine, InputConnectionInfo, AddServer, Reasons
  <2> DEFINE c == [Nowhere EXCEPT !.id = NewId, !.host = h, !.canConnect = TRUE]
  <2>2. size + 1 \in Slots /\ NewId = size + 1 /\ NewId \in 0 .. MaxServers
    BY <2>1, ClientAssumption DEF Check, Inv, TypeOK, Slots, NewId
  <2>3. c \in Connector /\ c.id = size + 1 /\ c.host = h /\ c.canConnect /\ c.sock = NoSocket
    BY <2>2, NoneTyped DEF Connector, Nowhere
  <2>4. Exec(size + 1, c, why)
    BY <2>1 DEF Check
  <2>5. /\ UNCHANGED <<size, active, keys, listening>>
        /\ thread.at \in {"start", "ask", "prompt"}
    BY <1>1 DEF CommandLine, InputConnectionInfo, AddServer
  <2> HIDE DEF c
  <2>6. QED  BY <2>1, <2>2, <2>3, <2>4, <2>5, ExecInv
<1>2. CASE Command
  <2>1. active + 1 \in Slots /\ active + 1 \in Listed
    BY <1>2, ClientAssumption DEF Command, Inv, TypeOK, Slots, Listed
  <2>2. /\ connectors[active + 1] \in Connector
        /\ connectors[active + 1].id = active + 1
        /\ connectors[active + 1].host \in Hosts /\ connectors[active + 1].canConnect
    BY <2>1 DEF Inv, TypeOK, Connector, ConnectorsDistinct
  <2>3. QED  BY <1>2, <2>1, <2>2, ExecInv DEF Command, Reasons
<1>3. QED  BY <1>1, <1>2, DisconnectInv, ExitInv, SetActiveServerInv DEF User

\* What Inv says of the connector a call is for.
LEMMA Mine ==
    ASSUME Inv, Busy
    PROVE  /\ thread.on \in Slots /\ Me \in Connector
           /\ Me.id = thread.on /\ Me.host \in Hosts /\ Me.canConnect
           /\ Calling => Me.sock \in Conns /\ wire[Me.sock] \in Wire
           /\ thread.why = "command" => thread.on = active + 1 /\ thread.on \in Listed
           /\ thread.why # "command" => thread.on = size + 1
<1>1. thread.on \in Slots
  BY DEF Inv, TypeOK, Thread
<1>2. QED  BY <1>1 DEF Inv, TypeOK, Attended, Me, Listed

\* The connections are the same but for answers that arrived.
SameWire ==
    /\ wire' \in [Conns -> Wire]
    /\ \A w \in Conns : /\ wire'[w].st = wire[w].st /\ wire'[w].up = wire[w].up
                        /\ wire'[w].age = wire[w].age

\* A call ends its command or check, for better or worse: d is what becomes of its
\* connector, which is listed or is not.
LEMMA EndInv ==
    ASSUME Inv, Busy, SameWire, UNCHANGED <<keys, listening>>,
           NEW d \in Connector, connectors' = [connectors EXCEPT ![thread.on] = d],
           thread' \in Thread, thread'.at \in {"ask", "prompt"}, thread'.on = thread.on,
           size' \in 0 .. MaxServers, active' \in 0 .. MaxServers - 1,
           \/ d = Nowhere
           \/ /\ d.sock = Me.sock
              /\ IsUp(thread.on) => d.age = Me.age /\ ~Keyless(thread.on),
           \/ UNCHANGED <<size, active>>
              /\ (thread.on \in Listed => d.id = thread.on /\ d.host # NoHost /\ d.canConnect)
           \/ /\ size' = size + 1 /\ thread.on = size + 1 /\ active' < size'
              /\ d.id = thread.on /\ d.host # NoHost /\ d.canConnect
    PROVE  Inv'
<1> DEFINE k == thread.on
<1>1. /\ connectors'[k] = d /\ (\A j \in Slots \ {k} : connectors'[j] = connectors[j])
      /\ k \in Slots
  BY Mine DEF Inv, TypeOK
<1>2. TypeOK'
  BY DEF Inv, TypeOK, SameWire
<1>3. Attended'
  BY DEF Attended, Busy, Calling
<1>4. ConnectorsDistinct' /\ Apart'
  <2>1. d.sock \in {NoSocket, Me.sock}
    BY DEF Nowhere
  <2>2. Apart'
    BY <1>1, <2>1 DEF Inv, Apart, Me
  <2>3. \A j \in Listed' : /\ j \in Slots
                           /\ connectors'[j].id = j /\ connectors'[j].host # NoHost
                           /\ connectors'[j].canConnect
    <3> SUFFICES ASSUME NEW j \in Listed'
                 PROVE  /\ j \in Slots
                        /\ connectors'[j].id = j /\ connectors'[j].host # NoHost
                        /\ connectors'[j].canConnect
      OBVIOUS
    <3>1. j \in Slots /\ (j # k => j \in Listed)
      <4>1. size \in Nat /\ MaxServers \in Nat
        BY ClientAssumption DEF Inv, TypeOK
      <4>2. QED  BY <4>1 DEF Listed, Slots
    <3>2. CASE j = k
      <4>1. d.id = k /\ d.host # NoHost /\ d.canConnect
        BY <3>2 DEF Listed
      <4>2. QED  BY <1>1, <3>1, <3>2, <4>1
    <3>3. CASE j # k
      <4>1. connectors'[j] = connectors[j] /\ j \in Listed
        BY <1>1, <3>1, <3>3
      <4>2. QED  BY <3>1, <4>1 DEF Inv, ConnectorsDistinct
    <3>4. QED  BY <3>2, <3>3
  <2>4. size' > 0 => active' < size'
    BY DEF Inv, ConnectorsDistinct
  <2>5. QED  BY <2>2, <2>3, <2>4 DEF ConnectorsDistinct, Apart
<1>5. KeyHeld'
  <2> SUFFICES ASSUME NEW j \in Slots, IsUp(j)' PROVE keys[j] = connectors'[j].sock
    BY DEF KeyHeld
  <2>1. CASE j = k
    <3>1. d.sock = Me.sock /\ Me.sock # NoSocket /\ Me.sock \in Conns
      BY <1>1, <2>1 DEF IsUp, Nowhere, Connector
    <3>2. IsUp(k) /\ ~Keyless(k)
      BY <1>1, <2>1, <3>1 DEF IsUp, SameWire, Me, Nowhere
    <3>3. QED  BY <1>1, <2>1, <3>1, <3>2 DEF Inv, KeyHeld, Me
  <2>2. CASE j # k
    <3>1. IsUp(j) /\ ~Keyless(j)
      BY <1>1, <2>2 DEF IsUp, SameWire, Inv, TypeOK, Connector, Keyless
    <3>2. QED  BY <1>1, <2>2, <3>1 DEF Inv, KeyHeld
  <2>3. QED  BY <2>1, <2>2
<1>6. KeyInUse'
  BY DEF Inv, KeyInUse, SameWire
<1>7. Younger'
  <2> SUFFICES ASSUME NEW j \in Slots, IsUp(j)', wire'[connectors'[j].sock].up = Silence
               PROVE  wire'[connectors'[j].sock].age <= connectors'[j].age
    BY DEF Younger
  <2>1. CASE j = k
    <3>1. d.sock = Me.sock /\ Me.sock # NoSocket /\ Me.sock \in Conns
      BY <1>1, <2>1 DEF IsUp, Nowhere, Connector
    <3>2. IsUp(k) /\ d.age = Me.age
      BY <1>1, <2>1, <3>1 DEF IsUp, SameWire, Me, Nowhere
    <3>3. QED  BY <1>1, <2>1, <3>1, <3>2 DEF Inv, Younger, Me, SameWire
  <2>2. CASE j # k
    <3>1. IsUp(j) /\ connectors[j].sock \in Conns
      BY <1>1, <2>2 DEF IsUp, SameWire, Inv, TypeOK, Connector
    <3>2. QED  BY <1>1, <2>2, <3>1 DEF Inv, Younger, SameWire
  <2>3. QED  BY <2>1, <2>2
<1>8. QED  BY <1>2, <1>3, <1>4, <1>5, <1>6, <1>7 DEF Inv

\* An error is reported for a listed connector, and deletes one under check.
LEMMA FailInv ==
    ASSUME Inv, Busy, SameWire, UNCHANGED listening, NEW c \in Connector, Fail(c),
           c.id = Me.id, c.host = Me.host, c.canConnect, c.sock = Me.sock,
           IsUp(thread.on) => c.age = Me.age /\ ~Keyless(thread.on)
    PROVE  Inv'
<1>1. thread' \in Thread /\ thread'.at \in {"ask", "prompt"} /\ thread'.on = thread.on
  BY Looped DEF Fail, ReportError, Drop, Inv
<1>2. size' \in 0 .. MaxServers /\ active' \in 0 .. MaxServers - 1
  BY DEF Fail, Inv, TypeOK
<1>3. CASE ReportError(c)
  <2> DEFINE d == [c EXCEPT !.failed = TRUE]
  <2>1. /\ d \in Connector /\ d.id = c.id /\ d.host = c.host /\ d.canConnect = c.canConnect
        /\ d.sock = c.sock /\ d.age = c.age
    BY DEF Connector
  <2>2. connectors' = [connectors EXCEPT ![thread.on] = d]
    BY <1>3 DEF ReportError
  <2> HIDE DEF d
  <2>3. d.id = thread.on /\ d.host # NoHost /\ d.canConnect
    BY <2>1, Mine, ClientAssumption
  <2>4. QED  BY <1>1, <1>2, <2>1, <2>2, <2>3, EndInv DEF Fail
<1>4. CASE Drop
  <2>1. connectors' = [connectors EXCEPT ![thread.on] = Nowhere] /\ thread.on = size + 1
    BY <1>4, Mine DEF Drop
  <2>2. thread.on \notin Listed
    BY <2>1 DEF Listed, Inv, TypeOK
  <2>3. QED  BY <1>1, <1>2, <2>1, <2>2, NoneTyped, EndInv DEF Fail
<1>5. QED  BY <1>3, <1>4 DEF Fail

\* An answer is reported for a listed connector, and lists one under check.
LEMMA SucceedInv ==
    ASSUME Inv, thread.at = "recv", SameWire, UNCHANGED listening, Succeed(Me)
    PROVE  Inv'
<1>1. Busy /\ ~Keyless(thread.on)
  BY DEF Busy, Keyless
<1>2. Me.id = thread.on /\ Me.host # NoHost /\ Me.canConnect /\ Me \in Connector
  BY <1>1, Mine, ClientAssumption
<1>3. CASE Report(Me)
  <2> DEFINE d == [Me EXCEPT !.failed = FALSE]
  <2>1. /\ d \in Connector /\ d.id = Me.id /\ d.host = Me.host
        /\ d.canConnect = Me.canConnect /\ d.sock = Me.sock /\ d.age = Me.age
    BY <1>2 DEF Connector
  <2>2. connectors' = [connectors EXCEPT ![thread.on] = d] /\ UNCHANGED <<size, active>>
        /\ Loop(connectors', size, active)
    BY <1>3 DEF Report
  <2> HIDE DEF d
  <2>3. thread' \in Thread /\ thread'.at \in {"ask", "prompt"} /\ thread'.on = thread.on
    BY <2>2, Looped DEF Inv
  <2>4. size' \in 0 .. MaxServers /\ active' \in 0 .. MaxServers - 1
    BY <2>2 DEF Inv, TypeOK
  <2>5. d.id = thread.on /\ d.host # NoHost /\ d.canConnect
    BY <1>2, <2>1
  <2>6. QED  BY <1>1, <2>1, <2>2, <2>3, <2>4, <2>5, EndInv DEF Succeed
<1>4. CASE Enlist(Me)
  <2>1. /\ connectors' = [connectors EXCEPT ![thread.on] = Me]
        /\ size' = size + 1 /\ active' \in {size, 0, active}
        /\ (active' = active => (thread.why \notin {"add", "ctor"} /\ size # 0) \/ active \in {size, 0})
        /\ Loop(connectors', size', active')
    BY <1>4 DEF Enlist
  <2>2. thread.on = size + 1 /\ thread.on \in Slots
    BY <1>1, <1>4, Mine DEF Enlist
  <2>3. size' \in 0 .. MaxServers /\ active' \in 0 .. MaxServers - 1 /\ active' < size'
    BY <2>1, <2>2, ClientAssumption DEF Inv, TypeOK, Slots, ConnectorsDistinct
  <2>4. thread' \in Thread /\ thread'.at \in {"ask", "prompt"} /\ thread'.on = thread.on
    BY <2>1, Looped DEF Inv
  <2>5. QED  BY <1>1, <1>2, <2>1, <2>2, <2>3, <2>4, EndInv DEF Succeed
<1>5. QED  BY <1>3, <1>4 DEF Succeed

\* A new connection is no other connector's.
LEMMA ConnectInv ==
    ASSUME Inv, Connect PROVE Inv'
<1> DEFINE k == thread.on
<1>1. PICK w \in Fresh, st \in {"up", "closed"} :
        /\ connectors' = [connectors EXCEPT ![k].sock = w]
        /\ wire' = [wire EXCEPT ![w] = [Unused EXCEPT !.st = st, !.host = Me.host]]
  BY DEF Connect
<1>2. /\ Busy /\ thread.at = "connect" /\ w \in Conns
      /\ thread' \in Thread /\ thread'.at = "sendKey" /\ thread'.on = k
      /\ thread'.why = thread.why /\ UNCHANGED <<size, active, keys, listening>>
  BY Moved DEF Connect, Busy, Inv, Fresh, Places
<1>3. k \in Slots /\ Me \in Connector /\ Me.host \in Hosts
  BY <1>2, Mine
<1> DEFINE d == [Me EXCEPT !.sock = w]
<1>4. /\ d \in Connector /\ d.id = Me.id /\ d.host = Me.host /\ d.canConnect = Me.canConnect
      /\ d.sock = w /\ d.age = Me.age
  BY <1>2, <1>3 DEF Connector
<1>5. connectors' = [connectors EXCEPT ![k] = d]
  BY <1>1 DEF Me
<1> DEFINE u == [Unused EXCEPT !.st = st, !.host = Me.host]
<1>6. u \in Wire /\ u.st = st /\ u.up = Silence /\ u.age = 0
  BY <1>3, NoneTyped DEF Wire, Unused
<1>7. wire' = [wire EXCEPT ![w] = u]
  BY <1>1
<1> HIDE DEF d, u
<1>8. /\ connectors'[k] = d /\ \A j \in Slots \ {k} : connectors'[j] = connectors[j]
      /\ wire'[w] = u /\ \A v \in Conns \ {w} : wire'[v] = wire[v]
  BY <1>2, <1>3, <1>5, <1>7 DEF Inv, TypeOK
<1>9. \A j \in Slots : connectors[j].sock # w /\ connectors[j].sock \in Conns \cup {NoSocket}
  BY DEF Fresh, Inv, TypeOK, Connector
<1>10. TypeOK'
  BY <1>2, <1>4, <1>5, <1>6, <1>7 DEF Inv, TypeOK
<1>11. Attended'
  BY <1>2, <1>3, <1>4, <1>8 DEF Inv, Attended, Busy, Calling, Me
<1>12. ConnectorsDistinct' /\ Apart'
  <2>1. Apart'
    BY <1>3, <1>4, <1>8, <1>9, ClientAssumption DEF Inv, Apart
  <2>2. \A j \in Listed : j \in Slots
    BY ClientAssumption DEF Listed, Slots, Inv, TypeOK
  <2>3. ASSUME NEW j \in Listed
        PROVE  /\ connectors'[j].id = j /\ connectors'[j].host # NoHost
               /\ connectors'[j].canConnect
    <3>1. CASE j = k
      BY <1>3, <1>4, <1>8, <2>3, <3>1 DEF Inv, ConnectorsDistinct, Me
    <3>2. CASE j # k
      BY <1>8, <2>2, <2>3, <3>2 DEF Inv, ConnectorsDistinct
    <3>3. QED  BY <3>1, <3>2
  <2>4. QED  BY <1>2, <2>1, <2>2, <2>3 DEF Inv, ConnectorsDistinct, Apart, Listed
<1>13. KeyHeld' /\ Younger'
  <2>1. ASSUME NEW j \in Slots, j # k, IsUp(j)'
        PROVE  /\ IsUp(j) /\ ~Keyless(j)
               /\ UNCHANGED <<connectors[j], wire[connectors[j].sock]>>
    BY <1>2, <1>8, <1>9, <2>1 DEF IsUp, Keyless
  <2>2. Keyless(k)' /\ connectors'[k].sock = w
    BY <1>2, <1>4, <1>8 DEF Keyless
  <2>3. KeyHeld'
    BY <1>2, <2>1, <2>2 DEF Inv, KeyHeld
  <2>4. wire'[w].age <= connectors'[k].age
    BY <1>3, <1>4, <1>6, <1>8 DEF Connector
  <2>5. Younger'
    BY <2>1, <2>2, <2>4 DEF Inv, Younger
  <2>6. QED  BY <2>3, <2>5
<1>14. KeyInUse'
  BY <1>6, <1>8 DEF Inv, KeyInUse, Silence
<1>15. QED  BY <1>10, <1>11, <1>12, <1>13, <1>14 DEF Inv

\* A message goes out, with the key of its own connection if it needs one.
LEMMA SendInv ==
    ASSUME Inv, Calling,
           NEW m \in [kind: {"key", "request"}, key: Conns \cup {NoKey}],
           Transfer(Me.sock, m), Sent,
           NEW place \in {"recvKey", "recv"}, Go(place),
           UNCHANGED <<size, active, keys, listening>>,
           \/ place = "recvKey"
           \/ ~Keyless(thread.on) /\ (wire[Me.sock].st = "up" => m.key = Me.sock),
           m.kind = "request" => place = "recv"
    PROVE  Inv'
<1> DEFINE k == thread.on
           w == Me.sock
           d == [Me EXCEPT !.age = 0]
<1>1. Busy /\ k \in Slots /\ Me \in Connector /\ w \in Conns /\ wire[w] \in Wire
  BY Mine DEF Busy, Calling
<1>2. /\ d \in Connector /\ d.id = Me.id /\ d.host = Me.host /\ d.canConnect = Me.canConnect
      /\ d.sock = w /\ d.age = 0
  BY <1>1, NoneTyped DEF Connector
<1>3. /\ connectors' = [connectors EXCEPT ![k] = d]
  BY DEF Sent, Me
<1>4. PICK u \in Wire : /\ wire' = [wire EXCEPT ![w] = u]
                        /\ u.st = "up" => wire[w].st = "up" /\ u.up = m
                        /\ u.st # "up" => u.st \in {"closed", "reset"}
  <2>1. CASE wire[w].st = "up"
    <3>1. [wire[w] EXCEPT !.up = m] \in Wire /\ [wire[w] EXCEPT !.up = m].up = m
          /\ [wire[w] EXCEPT !.up = m].st = "up"
      BY <1>1, <2>1 DEF Wire
    <3>2. QED  BY <2>1, <3>1 DEF Transfer
  <2>2. CASE wire[w].st # "up"
    <3>1. PICK st \in {"closed", "reset"} : wire' = [wire EXCEPT ![w].st = st]
      BY <2>2 DEF Transfer
    <3>2. [wire[w] EXCEPT !.st = st] \in Wire /\ [wire[w] EXCEPT !.st = st].st = st
      BY <1>1 DEF Wire
    <3>3. QED  BY <3>1, <3>2
  <2>3. QED  BY <2>1, <2>2
<1> HIDE DEF d
<1>5. /\ connectors'[k] = d /\ \A j \in Slots \ {k} : connectors'[j] = connectors[j]
      /\ wire'[w] = u /\ \A v \in Conns \ {w} : wire'[v] = wire[v]
  BY <1>1, <1>3, <1>4 DEF Inv, TypeOK
<1>6. /\ thread' \in Thread /\ thread'.at = place /\ thread'.on = k /\ thread'.why = thread.why
  BY Moved DEF Inv, Places
<1>7. TypeOK'
  BY <1>2, <1>3, <1>4, <1>6 DEF Inv, TypeOK
<1>8. Attended'
  BY <1>1, <1>2, <1>5, <1>6 DEF Inv, Attended, Busy, Calling, Me
<1>9. \A j \in Slots : connectors'[j].sock = connectors[j].sock
  BY <1>2, <1>5 DEF Me
<1>10. ConnectorsDistinct' /\ Apart'
  <2>1. Apart'
    BY <1>9 DEF Inv, Apart
  <2>2. \A j \in Listed : j \in Slots
    BY ClientAssumption DEF Listed, Slots, Inv, TypeOK
  <2>3. ASSUME NEW j \in Listed
        PROVE  /\ connectors'[j].id = j /\ connectors'[j].host # NoHost
               /\ connectors'[j].canConnect
    <3>1. CASE j = k
      BY <1>2, <1>5, <2>3, <3>1 DEF Inv, ConnectorsDistinct, Me
    <3>2. CASE j # k
      BY <1>5, <2>2, <2>3, <3>2 DEF Inv, ConnectorsDistinct
    <3>3. QED  BY <3>1, <3>2
  <2>4. QED  BY <2>1, <2>2, <2>3 DEF Inv, ConnectorsDistinct, Apart, Listed
<1>11. ASSUME NEW j \in Slots, j # k, IsUp(j)'
       PROVE  /\ IsUp(j) /\ ~Keyless(j)
              /\ UNCHANGED <<connectors[j], wire[connectors[j].sock]>>
  <2>1. connectors[j].sock # w /\ connectors[j].sock \in Conns
    BY <1>1, <1>9, <1>11, ClientAssumption DEF Inv, Apart, TypeOK, Connector, IsUp, Me
  <2>2. QED  BY <1>5, <1>9, <1>11, <2>1 DEF IsUp, Keyless
<1>12. KeyHeld'
  <2>1. ASSUME NEW j \in Slots, j = k, IsUp(j)', ~Keyless(j)'
        PROVE  keys[j] = connectors'[j].sock
    <3>1. IsUp(j) /\ ~Keyless(j)
      BY <1>1, <1>2, <1>4, <1>5, <1>6, <2>1, ClientAssumption DEF IsUp, Keyless, Me
    <3>2. QED  BY <1>2, <1>5, <2>1, <3>1 DEF Inv, KeyHeld, Me
  <2>2. ASSUME NEW j \in Slots, j # k, IsUp(j)', ~Keyless(j)'
        PROVE  keys[j] = connectors'[j].sock
    BY <1>11, <2>2 DEF Inv, KeyHeld
  <2>3. QED  BY <2>1, <2>2 DEF KeyHeld
<1>13. m # Silence
  BY DEF Silence
<1>14. Younger'
  BY <1>2, <1>4, <1>5, <1>11, <1>13 DEF Inv, Younger, IsUp
<1>15. KeyInUse'
  BY <1>4, <1>5, <1>1 DEF Inv, KeyInUse
<1>16. QED  BY <1>7, <1>8, <1>10, <1>12, <1>14, <1>15 DEF Inv

\* An answer's arrival changes nothing else of a connection.
LEMMA ReceiveSame ==
    ASSUME Inv, Calling, Receive PROVE SameWire
<1>1. Me.sock \in Conns /\ wire[Me.sock] \in Wire
  BY Mine DEF Busy, Calling
<1>2. [wire[Me.sock] EXCEPT !.down = FALSE] \in Wire
  BY <1>1 DEF Wire
<1>3. wire' = [wire EXCEPT ![Me.sock] = [wire[Me.sock] EXCEPT !.down = FALSE]]
  BY DEF Receive
<1>4. QED  BY <1>1, <1>2, <1>3 DEF SameWire, Inv, TypeOK, Wire

\* A step of a call that keeps the connectors and all that was sent, and goes on
\* with a key that is the connection's, if that is up.
LEMMA GoOnInv ==
    ASSUME Inv, Calling, SameWire, UNCHANGED <<connectors, size, active, listening>>,
           thread' \in Thread, thread'.on = thread.on, thread'.why = thread.why,
           thread'.at \in {thread.at, "send", "abort"},
           \/ UNCHANGED keys /\ (thread'.at = "send" => ~Keyless(thread.on))
           \/ \E x \in Conns \cup {NoKey} :
                 keys' = [keys EXCEPT ![thread.on] = x] /\ (IsUp(thread.on) => x = Me.sock),
           thread'.at # thread.at => ~IsUp(thread.on) \/ keys'[thread.on] = Me.sock
    PROVE  Inv'
<1>1. Busy /\ thread.on \in Slots
  BY Mine DEF Busy, Calling
<1>2. TypeOK'
  BY DEF Inv, TypeOK, SameWire
<1>3. Attended'
  BY <1>1 DEF Inv, Attended, Busy, Calling, Me
<1>4. ConnectorsDistinct' /\ Apart'
  BY DEF Inv, ConnectorsDistinct, Apart, Listed
<1>5. \A j \in Slots : IsUp(j)' <=> IsUp(j)
  BY DEF IsUp, SameWire, Inv, TypeOK, Connector
<1>6. KeyHeld'
  <2> SUFFICES ASSUME NEW j \in Slots, IsUp(j), ~Keyless(j)' PROVE keys'[j] = connectors[j].sock
    BY <1>5 DEF KeyHeld
  <2>1. CASE j = thread.on
    <3>1. CASE thread'.at = thread.at
      <4>1. ~Keyless(j)
        BY <3>1 DEF Keyless
      <4>2. keys[j] = connectors[j].sock
        BY <4>1 DEF Inv, KeyHeld
      <4>3. keys'[j] = keys[j] \/ keys'[j] = Me.sock
        BY <1>1, <2>1 DEF Inv, TypeOK
      <4>4. QED  BY <2>1, <4>2, <4>3 DEF Me
    <3>2. CASE thread'.at # thread.at
      BY <2>1, <3>2 DEF Me
    <3>3. QED  BY <3>1, <3>2
  <2>2. CASE j # thread.on
    BY <2>2 DEF Inv, KeyHeld, Keyless, TypeOK
  <2>3. QED  BY <2>1, <2>2
<1>7. KeyInUse'
  BY DEF Inv, KeyInUse, SameWire
<1>8. Younger'
  BY <1>5 DEF Inv, Younger, IsUp, SameWire, TypeOK, Connector
<1>9. QED  BY <1>2, <1>3, <1>4, <1>6, <1>7, <1>8 DEF Inv

\* What the calls do.
LEMMA CallInv ==
    ASSUME Inv, Call PROVE Inv'
<1>1. CASE Connect
  BY <1>1, ConnectInv
<1>2. CASE ConnectFails
  <2>1. Busy /\ ~IsUp(thread.on) /\ SameWire
    BY <1>2 DEF ConnectFails, Busy, IsUp, Inv, TypeOK, Attended, Me, SameWire
  <2>2. Me \in Connector /\ Me.canConnect
    BY <2>1, Mine
  <2>3. Fail(Me) /\ UNCHANGED listening
    BY <1>2 DEF ConnectFails
  <2>4. QED  BY <2>1, <2>2, <2>3, FailInv
<1>3. CASE SendKeyRequest
  <2> DEFINE m == [Silence EXCEPT !.kind = "key"]
  <2>1. m \in [kind: {"key", "request"}, key: Conns \cup {NoKey}] /\ m.kind = "key"
    BY DEF Silence
  <2>2. /\ Calling /\ Transfer(Me.sock, m) /\ Sent /\ Go("recvKey")
        /\ UNCHANGED <<size, active, keys, listening>>
    BY <1>3 DEF SendKeyRequest, Calling
  <2> HIDE DEF m
  <2>3. QED  BY <2>1, <2>2, SendInv
<1>4. CASE SendRequest
  <2> DEFINE m == [kind |-> "request", key |-> keys[Me.id]]
  <2>1. Calling /\ ~Keyless(thread.on)
    BY <1>4 DEF SendRequest, Calling, Keyless
  <2>2. Me.id = thread.on /\ thread.on \in Slots /\ Me.sock \in Conns
    BY <2>1, Mine DEF Busy, Calling
  <2>3. m \in [kind: {"key", "request"}, key: Conns \cup {NoKey}]
    BY <2>2 DEF Inv, TypeOK
  <2>4. wire[Me.sock].st = "up" => m.key = Me.sock
    BY <2>1, <2>2, ClientAssumption DEF Inv, KeyHeld, IsUp, Me
  <2>5. /\ Transfer(Me.sock, m) /\ Sent /\ Go("recv")
        /\ UNCHANGED <<size, active, keys, listening>>
    BY <1>4 DEF SendRequest
  <2> HIDE DEF m
  <2>6. QED  BY <2>1, <2>3, <2>4, <2>5, SendInv
<1>5. CASE SendFails
  <2> DEFINE c == [Me EXCEPT !.age = 0]
  <2>1. Busy /\ ~IsUp(thread.on) /\ SameWire
    BY <1>5 DEF SendFails, Busy, IsUp, Me, SameWire, Inv, TypeOK
  <2>2. Me \in Connector /\ Me.canConnect
    BY <2>1, Mine
  <2>3. /\ c \in Connector /\ c.id = Me.id /\ c.host = Me.host
        /\ c.canConnect = Me.canConnect /\ c.sock = Me.sock
    BY <2>2, NoneTyped DEF Connector
  <2>4. Fail(c) /\ UNCHANGED listening
    BY <1>5 DEF SendFails
  <2> HIDE DEF c
  <2>5. QED  BY <2>1, <2>2, <2>3, <2>4, FailInv
<1>6. CASE ReceiveKey
  <2>1. Calling /\ SameWire
    BY <1>6, ReceiveSame DEF ReceiveKey, Calling
  <2>2. Me.id = thread.on /\ thread.on \in Slots /\ Me.sock \in Conns
    BY <2>1, Mine DEF Busy, Calling
  <2>3. UNCHANGED <<connectors, size, active, listening>>
    BY <1>6, <2>2 DEF ReceiveKey, Received, Me, Inv, TypeOK
  <2>4. /\ thread' \in Thread /\ thread'.at = "send" /\ thread'.on = thread.on
        /\ thread'.why = thread.why
    BY <1>6, Moved DEF ReceiveKey, Inv, Places
  <2>5. keys' = [keys EXCEPT ![thread.on] = Me.sock] /\ keys'[thread.on] = Me.sock
    BY <1>6, <2>2 DEF ReceiveKey, Inv, TypeOK
  <2>6. QED  BY <2>1, <2>2, <2>3, <2>4, <2>5, GoOnInv
<1>7. CASE ReceiveResponse
  <2>1. thread.at = "recv" /\ SameWire
    BY <1>7, ReceiveSame DEF ReceiveResponse, Calling
  <2>2. QED  BY <1>7, <2>1, SucceedInv DEF ReceiveResponse, Received
<1>8. CASE ReceivePart
  <2>1. Calling /\ SameWire
    BY <1>8, ReceiveSame DEF ReceivePart, Calling
  <2>2. thread' \in Thread
    BY <1>8 DEF ReceivePart, Inv, TypeOK, Thread
  <2>3. thread'.at = thread.at /\ thread'.on = thread.on /\ thread'.why = thread.why
    BY <1>8 DEF ReceivePart, Inv, TypeOK, Thread
  <2>4. UNCHANGED <<connectors, size, active, keys, listening>> /\ thread.at # "send"
    BY <1>8 DEF ReceivePart
  <2>5. QED  BY <2>1, <2>2, <2>3, <2>4, GoOnInv
<1>9. CASE ReceiveFails
  <2>1. Busy /\ ~IsUp(thread.on) /\ SameWire
    BY <1>9 DEF ReceiveFails, Busy, IsUp, Me, SameWire, Inv, TypeOK
  <2>2. Me \in Connector /\ Me.canConnect
    BY <2>1, Mine
  <2>3. Fail(Me) /\ UNCHANGED listening
    BY <1>9 DEF ReceiveFails
  <2>4. QED  BY <2>1, <2>2, <2>3, FailInv
<1>10. CASE ReceiveEnd
  <2>1. /\ Calling /\ Busy /\ ~IsUp(thread.on) /\ SameWire
        /\ UNCHANGED listening
    BY <1>10 DEF ReceiveEnd, Ended, Calling, Busy, IsUp, Me, SameWire, Inv, TypeOK
  <2>2. /\ Me \in Connector /\ Me.canConnect
        /\ Me.id = thread.on
    BY <2>1, Mine
  <2>3. ASSUME NEW place \in {"abort", "send"}, Go(place)
        PROVE  /\ thread' \in Thread /\ thread'.at = place /\ thread'.on = thread.on
               /\ thread'.why = thread.why
    BY <2>3, Moved DEF Inv, Places
  <2>4. CASE Go("abort") /\ UNCHANGED <<connectors, size, active, keys>>
    BY <2>1, <2>3, <2>4, GoOnInv
  <2>5. CASE /\ Go("send") /\ keys' = [keys EXCEPT ![Me.id] = NoKey]
             /\ UNCHANGED <<connectors, size, active>>
    BY <2>1, <2>2, <2>3, <2>5, GoOnInv
  <2>6. CASE thread.at = "recv" /\ (Succeed(Me) \/ Fail(Me))
    BY <2>1, <2>2, <2>6, SucceedInv, FailInv
  <2>7. QED  BY <1>10, <2>4, <2>5, <2>6 DEF ReceiveEnd
<1>11. QED
  BY <1>1, <1>2, <1>3, <1>4, <1>5, <1>6, <1>7, <1>8, <1>9, <1>10 DEF Call

\* A step of the servers: what it brings up, or answers, keeps the invariant.
LEMMA ServersInv ==
    ASSUME Inv, UNCHANGED clientVars, listening' \subseteq Hosts, wire' \in [Conns -> Wire],
           \A w \in Conns : wire'[w].st = "up" =>
               /\ wire[w].st = "up"
               /\ wire'[w] # wire[w] => wire'[w].up = Silence /\ wire'[w].age = 0
    PROVE  Inv'
<1>1. UNCHANGED <<connectors, size, active, keys, thread>>
  BY DEF clientVars
<1>2. TypeOK'
  BY <1>1 DEF Inv, TypeOK
<1>3. Attended' /\ ConnectorsDistinct' /\ Apart'
  BY <1>1, <1>2 DEF Inv, Attended, ConnectorsDistinct, Apart, Busy, Calling, Me, Listed, TypeOK
<1>4. \A j \in Slots : /\ connectors[j] \in Connector
                       /\ IsUp(j)' => IsUp(j) /\ connectors[j].sock \in Conns
  BY <1>1 DEF IsUp, Inv, TypeOK, Connector
<1>5. KeyHeld'
  BY <1>1, <1>4 DEF Inv, KeyHeld, Keyless
<1>6. KeyInUse'
  BY <1>1 DEF Inv, KeyInUse, Silence
<1>7. Younger'
  <2> SUFFICES ASSUME NEW j \in Slots, IsUp(j)', wire'[connectors[j].sock].up = Silence
               PROVE  wire'[connectors[j].sock].age <= connectors[j].age
    BY <1>1 DEF Younger
  <2>1. connectors[j].age \in Nat
    BY <1>4, ClientAssumption DEF Connector
  <2>2. CASE wire'[connectors[j].sock] = wire[connectors[j].sock]
    BY <1>4, <2>2 DEF Inv, Younger
  <2>3. CASE wire'[connectors[j].sock] # wire[connectors[j].sock]
    BY <1>1, <1>4, <2>1, <2>3 DEF IsUp
  <2>4. QED  BY <2>2, <2>3
<1>8. QED  BY <1>2, <1>3, <1>5, <1>6, <1>7 DEF Inv

\* Both ends of a connection grow older together.
LEMMA TickInv ==
    ASSUME Inv, Tick PROVE Inv'
<1>1. \A a \in 0 .. TIMEOUT + 1 : Older(a) \in 0 .. TIMEOUT + 1 /\ Older(a) >= a
  BY ClientAssumption DEF Older
<1>2. \A a, b \in 0 .. TIMEOUT + 1 : a <= b => Older(a) <= Older(b)
  BY ClientAssumption DEF Older
<1>3. ASSUME NEW k \in Slots
      PROVE  /\ connectors[k] \in Connector /\ connectors'[k] \in Connector
             /\ connectors'[k].id = connectors[k].id /\ connectors'[k].host = connectors[k].host
             /\ connectors'[k].canConnect = connectors[k].canConnect
             /\ connectors'[k].sock = connectors[k].sock
             /\ connectors[k].sock # NoSocket =>
                  connectors'[k].age = Older(connectors[k].age)
  <2> DEFINE c == connectors[k]
             d == [c EXCEPT !.age = Older(@)]
  <2>1. c \in Connector
    BY DEF Inv, TypeOK
  <2>2. Older(c.age) \in 0 .. TIMEOUT + 1
    BY <1>1, <2>1 DEF Connector
  <2>3. /\ d \in Connector /\ d.id = c.id /\ d.host = c.host /\ d.canConnect = c.canConnect
        /\ d.sock = c.sock /\ d.age = Older(c.age)
    BY <2>1, <2>2 DEF Connector
  <2>4. connectors'[k] = IF c.sock = NoSocket THEN c ELSE d
    BY DEF Tick
  <2> HIDE DEF c, d
  <2>5. QED  BY <2>1, <2>3, <2>4 DEF c
<1>4. ASSUME NEW w \in Conns
      PROVE  /\ wire[w] \in Wire /\ wire'[w] \in Wire
             /\ wire'[w].st = wire[w].st /\ wire'[w].up = wire[w].up
             /\ wire[w].st = "up" => wire'[w].age = Older(wire[w].age)
  <2> DEFINE u == wire[w]
             v == [u EXCEPT !.age = Older(@)]
  <2>1. u \in Wire
    BY DEF Inv, TypeOK
  <2>2. Older(u.age) \in 0 .. TIMEOUT + 1
    BY <1>1, <2>1 DEF Wire
  <2>3. v \in Wire /\ v.st = u.st /\ v.up = u.up /\ v.age = Older(u.age)
    BY <2>1, <2>2 DEF Wire
  <2>4. wire'[w] = IF u.st = "up" THEN v ELSE u
    BY DEF Tick
  <2> HIDE DEF u, v
  <2>5. QED  BY <2>1, <2>3, <2>4 DEF u
<1>5. UNCHANGED <<size, active, keys, thread, listening>>
  BY DEF Tick
<1>6. TypeOK'
  <2>1. connectors' \in [Slots -> Connector] /\ wire' \in [Conns -> Wire]
    BY <1>3, <1>4 DEF Tick
  <2>2. QED  BY <1>5, <2>1 DEF Inv, TypeOK
<1>7. Attended'
  BY <1>3, <1>5, Mine DEF Inv, Attended, Busy, Calling, Me
<1>8. ConnectorsDistinct' /\ Apart'
  <2>1. Apart'
    BY <1>3 DEF Inv, Apart
  <2>2. \A j \in Listed : j \in Slots
    BY ClientAssumption DEF Listed, Slots, Inv, TypeOK
  <2>3. QED  BY <1>3, <1>5, <2>1, <2>2 DEF Inv, ConnectorsDistinct, Apart, Listed
<1>9. \A j \in Slots : /\ IsUp(j)' <=> IsUp(j)
                       /\ IsUp(j) => connectors[j].sock \in Conns
  BY <1>3, <1>4 DEF IsUp, Connector
<1>10. KeyHeld'
  BY <1>3, <1>5, <1>9 DEF Inv, KeyHeld, Keyless
<1>11. KeyInUse'
  BY <1>4 DEF Inv, KeyInUse
<1>12. Younger'
  <2> SUFFICES ASSUME NEW j \in Slots, IsUp(j), wire[connectors[j].sock].up = Silence
               PROVE  Older(wire[connectors[j].sock].age) <= Older(connectors[j].age)
    BY <1>3, <1>4, <1>9 DEF Younger, IsUp
  <2>1. /\ wire[connectors[j].sock].age <= connectors[j].age
        /\ wire[connectors[j].sock].age \in 0 .. TIMEOUT + 1
        /\ connectors[j].age \in 0 .. TIMEOUT + 1
    BY <1>3, <1>4, <1>9 DEF Inv, Younger, Connector, Wire
  <2>2. QED  BY <1>2, <2>1
<1>13. QED  BY <1>6, <1>7, <1>8, <1>10, <1>11, <1>12 DEF Inv

\* Every step keeps the invariant.
LEMMA NextInv ==
    ASSUME Inv, [Next]_vars PROVE Inv'
<1>1. CASE User \/ Call \/ Tick
  BY <1>1, UserInv, CallInv, TickInv
<1>2. ASSUME NEW w \in Conns, ServerAnswers(w) PROVE Inv'
  <2> DEFINE u == wire[w]
             v == [u EXCEPT !.age = 0, !.up = Silence, !.down = u.up.kind = "key" \/ u.up.key = w]
  <2>1. u \in Wire /\ Silence \in [kind: {"none", "key", "request"}, key: Conns \cup {NoKey}]
    BY DEF Inv, TypeOK, Silence
  <2>2. (u.up.kind = "key" \/ u.up.key = w) \in BOOLEAN
    OBVIOUS
  <2>3. v \in Wire /\ v.up = Silence /\ v.age = 0
    BY <2>1, <2>2, NoneTyped DEF Wire
  <2>4. wire' = [wire EXCEPT ![w] = v]
    BY <1>2 DEF ServerAnswers
  <2>5. UNCHANGED clientVars /\ UNCHANGED listening /\ u.st = "up"
    BY <1>2 DEF ServerAnswers
  <2> HIDE DEF v
  <2>6. QED  BY <2>3, <2>4, <2>5, ServersInv DEF Inv, TypeOK
<1>3. ASSUME NEW w \in Conns, ServerTimesOut(w) PROVE Inv'
  <2>1. PICK st \in {"closed", "reset"} : wire' = [wire EXCEPT ![w].st = st, ![w].up = Silence]
    BY <1>3 DEF ServerTimesOut
  <2> DEFINE v == [wire[w] EXCEPT !.st = st, !.up = Silence]
  <2>2. wire[w] \in Wire /\ Silence \in [kind: {"none", "key", "request"}, key: Conns \cup {NoKey}]
    BY DEF Inv, TypeOK, Silence
  <2>3. v \in Wire /\ v.st = st
    BY <2>2 DEF Wire
  <2>4. wire' = [wire EXCEPT ![w] = v]
    BY <2>1, <2>2 DEF Inv, TypeOK
  <2>5. UNCHANGED clientVars /\ UNCHANGED listening
    BY <1>3 DEF ServerTimesOut
  <2> HIDE DEF v
  <2>6. QED  BY <2>3, <2>4, <2>5, ServersInv DEF Inv, TypeOK
<1>4. ASSUME NEW h \in Hosts, HostStops(h) PROVE Inv'
  <2>1. ASSUME NEW w \in Conns
        PROVE  wire'[w] \in Wire /\ (wire'[w].st = "up" => wire'[w] = wire[w])
    <3> DEFINE v == [wire[w] EXCEPT !.st = "reset", !.up = Silence, !.down = FALSE]
    <3>1. wire[w] \in Wire /\ Silence \in [kind: {"none", "key", "request"}, key: Conns \cup {NoKey}]
      BY DEF Inv, TypeOK, Silence
    <3>2. v \in Wire /\ v.st = "reset"
      BY <3>1 DEF Wire
    <3>3. wire'[w] \in {v, wire[w]}
      BY <1>4 DEF HostStops
    <3> HIDE DEF v
    <3>4. QED  BY <3>1, <3>2, <3>3
  <2>2. /\ UNCHANGED clientVars /\ listening' \subseteq Hosts /\ wire' \in [Conns -> Wire]
    BY <1>4, <2>1 DEF HostStops, Inv, TypeOK
  <2>3. QED  BY <2>1, <2>2, ServersInv
<1>5. ASSUME NEW h \in Hosts, HostStarts(h) PROVE Inv'
  BY <1>5, ServersInv DEF HostStarts, Inv, TypeOK
<1>6. CASE UNCHANGED vars
  BY <1>6, ServersInv DEF vars, clientVars, Inv, TypeOK
<1>7. QED  BY <1>1, <1>2, <1>3, <1>4, <1>5, <1>6 DEF Next, Server

\* The invariant holds in every behaviour of the client and its servers.
THEOREM ClientInvariant == Spec => []Inv
  BY InitInv, NextInv, PTL DEF Spec

\* The client never leaves its types: in particular m_activeServer and the number of
\* a connector stay within the list, and a call always has its socket.
THEOREM ClientTypeCorrect == Spec => []TypeOK
<1>1. Inv => TypeOK
  BY DEF Inv
<1>2. QED  BY <1>1, ClientInvariant, PTL

\* Connectors are listed under their own numbers and share no socket, whichever were
\* added, failed or deleted before (cli.cpp:421 numbers them by the size of the list).
THEOREM ConnectorsStayDistinct == Spec => []ConnectorsDistinct
<1>1. Inv => ConnectorsDistinct
  BY DEF Inv
<1>2. QED  BY <1>1, ClientInvariant, PTL

\* No server ever reads a request under a key that is not its connection's.
THEOREM KeysInUse == Spec => []KeyInUse
<1>1. Inv => KeyInUse
  BY DEF Inv
<1>2. QED  BY <1>1, ClientInvariant, PTL

\* Only a server's timeout closes a connection that is up: a close or an exit of the
\* client frees it, a host that stops resets it, and nothing else ends it.
LEMMA OnlyTimeoutCloses ==
    ASSUME Inv, Next, NEW w \in Conns, wire[w].st = "up", wire'[w].st = "closed"
    PROVE  ServerTimesOut(w)
<1> USE DEF Inv
<1>1. wire \in [Conns -> Wire] /\ wire[w] \in Wire
  BY DEF TypeOK
<1>2. ASSUME NEW s, wire' = Closed(s) PROVE FALSE
  BY <1>2 DEF Closed, Unused
<1>3. ASSUME NEW v \in Conns, NEW m, Transfer(v, m) PROVE FALSE
  <2>1. CASE v = w
    BY <1>1, <1>3, <2>1 DEF Transfer, Wire
  <2>2. CASE v # w
    BY <1>1, <1>3, <2>2 DEF Transfer
  <2>3. QED  BY <2>1, <2>2
<1>4. wire' # wire
  BY <1>1
<1>5. ASSUME NEW k, NEW c, NEW why, Exec(k, c, why) PROVE FALSE
  BY <1>2, <1>4, <1>5 DEF Exec
<1>51. ~Exit
  BY DEF Exit, Unused
<1>6. ~User
  BY <1>2, <1>4, <1>5, <1>51 DEF User, CommandLine, InputConnectionInfo, AddServer,
     Check, Command, Disconnect, SetActiveServer
<1>7. ~Call
  <2>1. ~Connect
    BY <1>1 DEF Connect, Fresh
  <2>2. ~SendKeyRequest /\ ~SendRequest
    BY <1>3, Mine DEF SendKeyRequest, SendRequest, Busy, Calling
  <2>3. ASSUME Calling, Receive PROVE FALSE
    BY <2>3, ReceiveSame DEF SameWire
  <2>4. ~ReceiveKey /\ ~ReceiveResponse /\ ~ReceivePart
    BY <2>3 DEF ReceiveKey, ReceiveResponse, ReceivePart, Calling
  <2>5. QED
    BY <1>4, <2>1, <2>2, <2>4
    DEF Call, ConnectFails, SendFails, ReceiveFails, ReceiveEnd
<1>8. ~Tick
  BY <1>1 DEF Tick, Wire
<1>9. ASSUME NEW v \in Conns, Server(v) PROVE ServerTimesOut(w)
  <2>1. ~ServerAnswers(v)
    BY <1>1 DEF ServerAnswers, Wire, TypeOK
  <2>2. v = w
    BY <1>1, <1>9, <2>1 DEF Server, ServerTimesOut
  <2>3. QED  BY <1>9, <2>1, <2>2 DEF Server
<1>10. ASSUME NEW h \in Hosts PROVE ~HostStops(h) /\ ~HostStarts(h)
  <2>1. [wire[w] EXCEPT !.st = "reset", !.up = Silence, !.down = FALSE].st = "reset"
    BY <1>1 DEF Wire
  <2>2. ~HostStops(h)
    BY <1>1, <2>1 DEF HostStops
  <2>3. QED  BY <1>4, <2>2 DEF HostStarts
<1>11. QED  BY <1>6, <1>7, <1>8, <1>9, <1>10 DEF Next

\* With one timeout at both ends, a server that closes a silent connection only
\* forestalls a client that has given it up already.
THEOREM NeverTooEarly == Spec => NoEarlyTimeout
<1> DEFINE Late == \A w \in Conns, k \in Slots :
         /\ wire[w].st = "up" /\ wire[w].up = Silence /\ wire'[w].st = "closed"
         /\ connectors[k].sock = w
         => Expired(connectors[k])
<1>1. ASSUME Inv, Next PROVE Late
  <2> SUFFICES ASSUME NEW w \in Conns, NEW k \in Slots,
                      wire[w].st = "up", wire[w].up = Silence, wire'[w].st = "closed",
                      connectors[k].sock = w
               PROVE  Expired(connectors[k])
    OBVIOUS
  <2>1. wire[w].age > TIMEOUT
    BY <1>1, OnlyTimeoutCloses DEF ServerTimesOut
  <2>2. wire[w].age <= connectors[k].age
    BY <1>1, ClientAssumption DEF Inv, Younger, IsUp
  <2>3. connectors[k].age \in Int /\ wire[w].age \in Int /\ TIMEOUT \in Int
    BY <1>1, ClientAssumption DEF Inv, TypeOK, Connector, Wire
  <2>4. QED  BY <2>1, <2>2, <2>3 DEF Expired
<1>2. UNCHANGED vars => Late
  BY DEF vars
<1>3. Inv /\ [Next]_vars => [Late]_vars
  BY <1>1, <1>2
<1>4. QED  BY <1>3, ClientInvariant, PTL DEF Spec, NoEarlyTimeout
===============================================================================
