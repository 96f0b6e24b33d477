# Verification of bsit3

`bsit3` is a client and a server for Windows. A client asks servers for facts
about their machine (system, time, memory, drives, rights and owner of a file)
over TCP, with requests and responses encrypted under a symmetric key that the
server makes per connection. This directory holds TLA+ modules that model the
server's event loop, the client, the two together, and the bytes they exchange,
TLC configurations that check them on small instances, and proofs for TLAPS.

Run `tlc -config MCServer_slots.cfg MCServer` (and likewise for the other
configurations) and `tlapm OwnershipProofs.tla` in this directory.

## 1. Inventory

| Component | State | Operations | Hard behaviour |
|---|---|---|---|
| Server event loop, `server/server/tcp.cpp` | `m_clients[0..MAX_CLIENTS]` (socket, id, last activity, receive and send buffer with their counts), `m_acceptSocket`, the port | accept, refuse, timeout check, read, key exchange, request, write, cancel | One thread, but the kernel completes overlapped I/O in any order between its steps; packets of a former client of a slot; failures of single calls |
| Encryption manager, `common/proto/encryption` | `m_keys`, by client id | create, export, import, encrypt, decrypt | A key table indexed by numbers that are used again |
| Client command loop, `client/cli` | `m_connectors`, `m_activeServer` | add, switch, disconnect, exit, requests | A list that only grows, numbers of connectors, the state of a server believed and never revised |
| Connector and context, `client/connector` | host, id, `m_canConnect`, `m_ctx`, socket, last use | exec, reconnect, check, disconnect, connect, send, receive, expired | Every call may fail or block; two timeouts race; streams cut into segments |
| Message framing, `common/proto/message.cpp` | none | build, parse, validate | Headers that have not arrived, sizes that do not fit |
| Packing, `common/proto/{packable,request,response,proto}`, `tcp_utils.hpp` | cursor in a buffer | push, pop, pack, parse | Byte order, counts of bytes taken for counts of elements, reads past an allocation, two functions that must agree on an order |
| Request handlers and `server/os_utils.cpp` | none; the machine they ask | one query each | Missing files, DACLs and names; sizes of answers |
| Typed lines and printed answers, `cli.cpp`, `common/utils.cpp` | none | split, parse, format | Quotes and spaces; zones, signs, remainders |

Interaction. The client calls `connect`, `send` and `recv` and blocks. The
server posts `AcceptEx`, `WSARecv` and `WSASend`, and the kernel answers with
packets in one queue, the completion port; the server also posts packets to
itself (`PostQueuedCompletionStatus`) to free a slot. Nothing is persisted, and
the programs share no memory.

What makes each component correct:

* event loop: one owner for each socket, slot, key and packet; connections refused
  only when no slot is free; one accept outstanding until one fails; a message handled
  when and only when it is complete; everyone who asks is answered or disconnected;
* client: a request goes out under the key of the connection it uses; a
  connection is used only while the server holds it; a command ends; a broken
  connection is noticed;
* client and server together: both ends go on with the same key, count the same
  silence, and a command runs at most once, or exactly once if the server answers;
* framing, packing, handlers: a message is taken when all of it is there; the
  query is made about what the user meant, and the user is told what it returned;
  what is pushed fits the buffers.

`PROJECT.json` lists the hazards at their lines.

## 2. Modules

```
Winsock <-EXTENDS- Server <-EXTENDS- Session -INSTANCE-> RemoteCall
                  ^   \
                  |    -INSTANCE-> ClientPool
            ServerProofs <- OwnershipProofs <- AcceptProofs <- StreamProofs
                                                                  ^
Session <--------------------------------------------------- SessionProofs

Packing <- Protocol <- Queries, CommandLine <- Exchange <- ExchangeProofs <- ResponseProofs

Client <- ClientProofs
```

The `MC` modules give instances of `Server`, `Session`, `Exchange` and `Client`.
Three views of one connection are kept apart because each is large: `Server`
has all interleavings of its thread, the kernel and several peers, with bytes
counted in units; `Exchange` has the bytes at their real sizes and one message
under way; `Client` has the command loop with several servers, which are
external there. `Session` joins the first with the connector of the last.

### Winsock (external)

What `tcp.cpp` assumes of Windows and of the peers: sockets that are open, their
completion key, the `AcceptEx` in flight, reads and writes in flight per socket,
operations that were aborted and whose packet has not been queued yet, the port
as a queue of packets, the peers, and the receive buffers, which the kernel
writes. Actions: a peer connects, sends, closes or is reset; an accept fails;
data or the end of a stream completes a read; a write is transmitted, wholly or
in part, and completes; an aborted operation's packet comes. The module also has
the effect of each call of the server (`WSARecv`, `WSASend`, `CancelIo`,
`closesocket`). `deaf` is history: an `AcceptEx` has ended without a connection.

An answer has any length (`reply` of its message). `Wanted` says when the units of a
write are the next ones that a peer waits for, that is, when the write starts with the
start of an answer if and only if the peer has got nothing of its answer (`first`, `got`)
and ends with the end of it; `Given` is what becomes of the peer. Other units make a
peer that waits `garbled`, and are `junk` in the stream of one that does not read yet.

Data is counted in units. A buffer is the message whose header stands at its
start and the number of its units that are in their place, which is all that
`ValidateBuff` and the properties look at.

### Server (`tcp.cpp`)

One action per outcome of `GetQueuedCompletionStatus` and per branch of
`ProcessEvent`, `AddAcceptedConnection` and `ProcessMessage`:

| Code | Action |
|---|---|
| silence of the port or a failed packet, 101-104 | `WaitTimedOut`, `OperationFailed` (which run `TimeoutCheck`) |
| accept packet, 106-111 | `AcceptCompleted` (runs `TimeoutCheck`), then one of `Admit`, `RefuseFull`, `RefuseNoAddress`, `RefuseNotAssociated`, each with the `ScheduleAccept` that follows |
| `ScheduleDisconnect`, 289-299 | `ScheduleDisconnect(k)`, one step per expired client |
| receive packet, 192-208 | `ReceiveEnd`, `ReceivePartial`, `ReceiveKeyRequest`, `ReceiveRequest`, `ReceiveUnknown` |
| send packet, 209-219 | `SendPartial`, `SendDone` |
| cancel packet, 220-229 | `Cancelled` |

`clients[k]` is `m_clients[k]` with `age` for `now - last_activity` and `unsent`
for `sendBufSize - sentSize`; slot 0, the listening socket, is not a client and
is left to `accepting` and `acceptSocket`. `symKeys` names a key by the socket
it was made for. `loop` is the position inside `TimeoutCheck` and
`AddAcceptedConnection`: their calls to the kernel can interleave with
completions, so they are steps of their own. Four variables are history only:
`stale` in a packet (its slot was freed after it was queued), `hit` (slots in which
a stale packet was processed, and those whose number was found there: a slot that
`RefuseNoAddress` passed over may have the number of another), `late` (an answer was
written while the completion of a shorter one was due, so that lines 211-215 would count
the one against the other) and `leaked`
(`CreateIoCompletionPort` has failed, 155-162, so that a slot was left with a closed
socket).

### ClientPool

The promise without the machinery: seats, one connection offered at a time, a
seat for it if one is free, refusal only if none is. `Server` defines the mapping
(`Pool`, `ImplementsPool`).

### Client (`cli.cpp`, `connector.cpp`, `context.cpp`)

One thread; one action per blocking call with everything up to the next one.
`thread` says which call it is in, for which connector, and whether on behalf of a
command or of the check of a new connector. `connectors[1 .. size]` is
`m_connectors`, and the connector under check follows in the next place.

| Code | Action |
|---|---|
| `Cli::Cli`, `inputConnectionInfo`, `addServer` | `CommandLine`, `InputConnectionInfo`, `AddServer` (all `Check`) |
| commands with an answer | `Command`, then `Connect` .. `ReceiveResponse` |
| `setActiveServer`, `disconnect`, `~Cli` | `SetActiveServer`, `Disconnect`, `Exit` |
| `Connector::exec`, `reconnect` | `Exec`, `Connect`, `ConnectFails`, `SendKeyRequest`, `ReceiveKey`, `SendRequest`, `ReceiveResponse` |
| `Context::Send`, `Receive` | `Transfer`, `SendFails`, `Receive`, `ReceivePart`, `ReceiveFails`, `ReceiveEnd` |

`ReceiveEnd` is undefined behaviour in the code: `recv` returned 0 and a message
is made of an uninitialised buffer. It is a choice: the size read there is too
large and the program ends, or a key that is none is imported, or an answer of
any kind is reported.

The servers are external in this module, with what a client can see of module
`Server`: they answer, close a silent connection, close at once when full, stop
and start. Nothing is assumed of how soon: the module has no liveness property, for whether
the server ever notices a silent client is a question about its event loop (section 3,
`starved`); `ServerTimesOut` is the closing of one silent connection by `TimeoutCheck`. They close early only where the code does for one client on its own;
that a stranger's cancellation may close a connection too (section 6) is left to
`Session`, which assumes nothing of the server.

### Session and RemoteCall

`Session` puts one user's connector at the other end of a socket of `Server`.
`conn` is the client's `m_ctx`, `end` what its next call would find, `inbox` an
answer in its receive buffer, `since` its own count of the silence, `key` its
entry of the key table, `at` the call it blocks in. While the server has no `AcceptEx`
posted, `connect` still succeeds if `listen`'s backlog has room: then `conn` is
`Backlog`, a connection without a handle, and what the client sends waits there.

| Code | Action |
|---|---|
| `Connector::exec` up to its first call, `disconnect` | `Command`, `Disconnect` |
| `reconnect` | `Connect`, `ConnectQueued`, `ConnectFails`, `SendKeyRequest`, `ReceiveKey` |
| the rest of `exec` | `SendRequest`, `ReceiveResponse` |
| failing `Send` and `Receive`, a `recv` that returns 0 | `SendFails`, `ReceiveFails`, `StreamEnds` |
| the backlog: the next `AcceptEx` takes the connection, then what was sent | `Accepted`, `Flush` |
| the server's thread, its kernel, the network, both clocks | `ServerStep`, `CompletionStep`, `AbortStep`, `ConnectionLost`, `Clock` |

`StreamEnds` is what `ReceiveEnd` is in `Client`: `recv` returned 0, which is no error in
`Context::Receive`, and a message is made of leftovers. The program ends, or an unusable
key is imported, or an error is shown, or what was made up is reported as the answer,
which `outcome` keeps apart as "invented".

`Arrives` lets an answer reach the client whole, or in parts that its reads put one over
the other, after which the client waits for a message that never completes.

The connections the client gave up stay at the server until it notices, and take
the slots that the present one needs. `asked` and `runs` are history: the socket
of the last request and how often a handler was called for it.

`RemoteCall` is what a user may rely on: a command runs at most once; before an
answer that the server gave is shown it ran exactly once; after an error, or an answer
made of leftovers, it may have run, or not, or run later. `ImplementsCall` says that `Session` implements it with `outcome` and
`runs` as they are.

### Packing, Protocol, Queries, CommandLine, Exchange

`Packing` is `PackCtx`: words of real widths as bytes, memory in which a cell past
an allocation reads as `UNDEF`, push, pop, and their forms for arrays. `Protocol`
has `pack` and the parsing constructor of every request and response, `Message`,
`ValidateBuff`, and the sizes of `Encrypt` and `Decrypt`. What is written and what
is read are separate definitions (`Fields`, `Reads`), as they are in the code.
A cell of ciphertext is the plain cell, marked, so that plain content and
ciphertext are never confused and the padding has its real length.

`Queries` is `os_utils.cpp` and `handlers.cpp`: a machine is a record of what the
calls of Windows return on it, with times and sizes as the words they are.
`CommandLine` is `split`, the tests of arguments,
and the formatting of times. `Exchange` runs them along one connection:

| Code | Action |
|---|---|
| `Cli::exec` with a typed line | `Type` |
| `WSARecv` and an incomplete message, `tcp.cpp` 192-208 | `ArrivesPartly` |
| the same with a whole message, `ProcessMessage` | `ArrivesWhole` |
| a read of length 0 | `BufferFull` |
| `Connector::exec`'s response, `print` | `Display` |

Stages `refused`, `ignored` and `undefined` end a behaviour: the server hangs up,
never answers, or has copied past an array. `RequestsFit` and `ResponsesFit` say
when that may be.

## 3. Runs

| Run | Instance | Shows |
|---|---|---|
| `conversation` | 1 slot, 2 sockets, split requests, answers shorter and longer than the key response, written in parts or whole, resets, one stale packet processed | `TypeOK`, `WholeMessages`, `BufferBounded`, `AnswersNotGarbled`, `SocketsOwned`, `IoBelongs`, `KeyAgreement` |
| `slots` | 2 slots, 3 sockets, key exchanges, unknown requests | `SlotIdentity`, `SocketsOwned`, `OneAccept`, `IoBelongs`, `KeyAgreement`, `ImplementsPool` |
| `refusals` | 2 slots, failed accepts, associations and addresses, resets | `SlotIdentity`, `SocketsOwned`, `OneAccept` |
| `live` | 2 slots, 3 sockets, fair; one client that talks, with requests that exceed the buffer or are unknown, beside silent ones | `NoPeerHangs`, `ExpiredReclaimed`, `KeepsAccepting` |
| `session` | 1 slot, 2 sockets, resets, a failing or queued `connect`, fair; the client's old connection holds the slot its new one needs | `SessionTypeOK`, `SameKey`, `TimeoutsAgree`, `ImplementsCall`, `CommandEnds` |
| `exchange` | 512 bytes, three machines, every command, paths up to and past the limit, segments cut at eight places and at the end | `TypeOK`, `WholeRequests`, `AskedWhatWasMeant`, `ToldWhatIsSo`, `TimesAreRight`, `RequestsFit`, `ResponsesFit` |
| `servers` | 2 connectors, 3 connections, every fault | `TypeOK`, `ConnectorsDistinct`, `KeyInUse`, `NoEarlyTimeout` |
| `stranger`, `garbled`, `starved`, `garbage`, `switch` | minimal | the findings of section 6 |

Bounds, and why they are enough:

* slots (1 or 2) and sockets (one more than slots): the interesting cases are a
  full pool, a slot that is freed and given away, and two neighbours; each occurs
  with two slots. The proofs remove this bound for ownership.
* `MAX_BUF_SIZE` 2 units: a message is whole or split in two, which is what the
  code distinguishes; with the second read of the key exchange the parts can land
  in either order.
* `TIMEOUT` 1 tick: 0, at the limit, past it.
* `MaxPort` 3, or 2 in `session` and 1 in `live` and `starved`: the kernel queues a
  completion only behind fewer packets than that. Packets the server posts itself, and
  failures, are not held back.
* `MaxAborted` 0: aborted operations come back before the thread takes the next
  packet, but in any order among themselves and with what follows in the port.
* `FirstFree` and `OneTalks`, of `live` and `starved` only: `WSASocketW` returns the
  first socket that is free (TLC has no symmetry for liveness), and only the peer of the
  first socket sends; the others connect, are silent and close. One that talks and one
  that is silent is what the properties are about: the former decides whether
  `TimeoutCheck` runs, which frees the latter.
* `StaleSlots`: which slots may process one stale packet each; elsewhere the
  behaviour ends where one is due. `BoundReached` in the liveness properties says
  so. Without the bound a slot's former clients can pile up reads for ever.
* `MaxServers` 1 or 2: the second one makes a list in which to switch, and a
  number that is used again.
* `Session`: one slot is the case in which the client's own past keeps it out, and
  the slot, its number and its key are used again by each reconnection; more
  slots only make room. No stale packet is processed (`StaleSlots` is empty):
  there the bytes of two connections mix, which `conversation` looks at.
* `Exchange`: `Cuts` ends a segment inside the eight bytes of the size at each
  place where the mixture with the former message can differ, at its end, at the
  type and encryption, in the middle of a message, and everywhere one byte short.
  Lines may follow each other in any order and number, so every message arrives
  over what every other one left in the buffer. The machines have
  each kind of drive, ACE, missing value and sign of a zone, and sit on both
  sides of each limit: 23 and 24 drives, 10 and 11 entries, a SID of 32 bytes and
  longer ones, names of 257 and 431 bytes; the lines have paths of 239 and 240 characters.

Symmetry is used for sockets and connections in runs that check only safety properties.
Deadlock is checked in every run but `exchange`, whose last three stages stop;
elsewhere the clock may always tick.

Fairness. Server: `WF` of the thread (it loops for ever and waits with a
timeout), of completions per socket and of aborted operations (the kernel
completes what it can), and of the clock. Peers are not fair: they may be silent
for ever. Session: the same, and `WF` of a call of the client that can return and of
the backlog; the user need not type and the network need not lose anything.
`BoundReached` in a liveness property excuses behaviours that a bound of the model
cut off.

None of this makes `TimeoutCheck` run. Lines 101-104 of `tcp.cpp` call it when the port
was silent, an operation failed or a connection came; a client that keeps talking can
keep all of these from happening for ever. So `NoPeerHangs` and `ExpiredReclaimed` are
stated under `KeepsChecking`, that it runs again and again, and `starved` shows that
without this condition the second is false. `KeepsAccepting` needs no such condition. In
`Session` there is one user, who cannot keep the port busy while waiting for
an answer; `CommandEnds` is a claim about that one user, and another client that talks
could take it away.

## 4. Proofs

All are for every value of the constants, from the named assumptions
`WinsockAssumption`, `ServerAssumption`, `SessionAssumption`, `ClientAssumption` and
`ExchangeAssumption`, which only give the constants their types, and from the
hypotheses that a theorem states.

| Module | Theorem | Shows |
|---|---|---|
| `ServerProofs` | `TypeCorrect` | `Spec => []TypeOK` |
| `OwnershipProofs` | `AlwaysSafe` | the inductive invariant `Safe` |
| `OwnershipProofs` | `SlotsIdentified`, `SocketsAreOwned`, `KeysAgree`, `IoIsOwned` | `SlotIdentity`, `SocketsOwned`, `KeyAgreement`, `IoBelongs` |
| `AcceptProofs` | `AcceptsOneAtATime` | `OneAccept` |
| `AcceptProofs` | `PoolImplemented` | `Spec => ImplementsPool`, if neither addresses nor associations fail |
| `StreamProofs` | `MessagesAreWhole`, `AnswersAnswer`, `BuffersAreBounded` | `WholeMessages`, `AnswersNotGarbled`, `BufferBounded`, while no association has failed |
| `ClientProofs` | `ClientInvariant` | the inductive invariant `Inv` |
| `ClientProofs` | `ClientTypeCorrect`, `ConnectorsStayDistinct`, `KeysInUse` | `TypeOK`, `ConnectorsDistinct`, `KeyInUse` |
| `ClientProofs` | `NeverTooEarly` | the action property `NoEarlyTimeout` |
| `SessionProofs` | `SessionIsServed` | `SessionSpec => Spec`: what holds of the server alone holds in a session |
| `SessionProofs` | `SameKeyAtBothEnds`, `SameKeyWithoutLeaks` | `SameKey`, while no association has failed; always, where none can fail |
| `SessionProofs` | `SessionTypeCorrect`, `TimeoutsAlwaysAgree` | `SessionTypeOK`, `TimeoutsAgree`, while no association has failed and no stale packet was handled |
| `SessionProofs` | `CommandsRunOnce` | as long as that is so, every step is one of `RemoteCall` |
| `SessionProofs` | `CallImplemented` | `SessionSpec => ImplementsCall`, if associations never fail and no stale packet is handled |
| `ExchangeProofs` | `ReceivingAlways` | the inductive invariant `Receiving` |
| `ExchangeProofs` | `RequestsAreWhole`, `AskedIsMeant`, `OnlyLongPathsAreRefused` | `WholeRequests`, `AskedWhatWasMeant`, `RequestsFit` |
| `ResponseProofs` | `AnsweringAlways` | the inductive invariant `Answering`, given `Receiving` |
| `ResponseProofs` | `CellsAreDefined`, `ToldIsSo`, `ClocksAreRight`, `OnlyLongResponsesOverrun` | `TypeOK`, `ToldWhatIsSo`, `TimesAreRight`, `ResponsesFit` |

**Server.** `TypeOK` is not inductive: the answer to a key request stores the key
of `client.id` in the peer, and only ids of clients have one. So `Numbered` (a
client is kept under its own number) goes with it: `Typed == TypeOK /\ Numbered`.
The code counts that number, `key`, over the occupied slots it passes;
`NumberOfFirst` proves that at the first free slot the count is the slot's index,
whatever was freed before.

The ownership properties support each other. That a freed slot closes only its
own socket needs that no two slots share one (`Owned`); that a read completes in
the buffer of its own client needs the completion key (`Associated`); that a
packet finds its slot occupied needs that freeing a slot marks the packets still
queued for it (`Queued`); that no I/O is in flight on a socket without a client
needs that closing a socket aborts it (`Unused`). `Belonging` is their
conjunction, and `Safe == Typed /\ (NoLeak => Belonging)`, where `NoLeak` says
that no `CreateIoCompletionPort` has failed: after one does, the code keeps a
closed socket in a slot. The mark is never taken back (`LeakKept`,
`LeakRemembered`), so that `NoLeak` after a step gives `Belonging` before it. The
proof has a lemma per handler; those that move no socket share `SocketsKept`.

`OneAccept` follows the accept packet through the port: `SameAccepts` says that a
handler only shifts it, and `Safe` that closing a client's socket never aborts the
accept. There is one until `deaf` is set, by the step that ends one without a connection,
and none from then on, for only the packet of an accept posts the next. The refinement proof shows that each handler either leaves the seats
alone or is one step of the pool; without failing associations nothing is leaked
(`NeverLeaks`).

**Streams.** `WholeMessages`, `AnswersNotGarbled` and `BufferBounded` speak of the
bytes of one client, which are in five places at once: with the peer, in the reads
and writes in flight, in the packets of the port, and counted in `recvBufSize`.
`Streaming == Accepts /\ (NoLeak => Talking)` says for each slot that no stale packet
touched which combinations of them occur. `Talks` adds up the packets: `InPort` has
the sum of the bytes that the slot's packets will count, the sizes of single packets
and the number of writes. `Tallies` is that sum as a function of the prefix, so that
a packet at either end changes it by its own weight (`SumsTail`, `SumsAppend`) without
recursion. `Stream` then needs no queue: its cases are a peer that is silent, that is
sending, that waits (for its message to be handled, or for the rest of an answer of
which at most one write starts), or that is gone. After a key exchange two reads may wait, both at the start of
the buffer, and the second may put the tail of a message over its beginning. The
code never recovers from that, but neither does it handle what is not a message:
`Arriving` says that what counts, and what the port will add, is never more than what
was delivered, and that when the two are equal, every unit is in its place and at most
one read waits behind it. That at most two operations are in flight, and one before
the key (`InFlightBound`), follows the code from call to call. Each handler has a
lemma on `Stream`, which is arithmetic, and one that lifts it to the port and to the
other slots. Of answers `Stream` asks nothing: they have any length, and may be written
in parts or, by what `garbled` shows, twice.

**Answers.** `AnswersNotGarbled` speaks of what the peers read. `Clean` says, while
`late` is not set, that each write in flight starts an answer and is all of it
(`Straight`), that its peer still expects it (`Expects`), and that no such write, and no
completion `Due` in the port, counts for less than what `sendBufSize - sentSize` says is
unsent. Then a completion never leaves a rest, and nothing is written twice. The lemmas
that most handlers share are about a slot that has `Fewer` of everything. `AlwaysClean`
is the inductive invariant.

The hypotheses are those under which the three can be true of the code:

* `"partial"` is not in `Faults`, of `AnswersAnswer` only: the kernel transmits all of a
  write, as it does for overlapped sends. Of the lengths of answers nothing is assumed;
  that a late completion garbles a longer answer (finding `garbled`) is what `~late` in
  the property is about.
* `Short`, of `BuffersAreBounded` only: no request is longer than the buffer. Each of
  the two reads may take up to a whole buffer of a longer one.
* `NoLeak`, as above, in each theorem's statement; and `hit` in the properties themselves, for the bytes of two
  connections mix where a stale packet is processed.

`conversation`, with stale packets and split requests, is an instance, and also checks
`AnswersNotGarbled` where writes are transmitted in parts.

**Client.** `Inv` adds four facts to the properties. `Attended`: the connector the
thread is busy with is the active server's, or the one behind the list under
check. `Apart`: no two connectors have one socket, listed or not, so that the end
of one connection is not another's. `KeyHeld`: the key kept for a connector is
that of its connection while it is up, except between `connect` and the answer to
the key request; it is what `KeyInUse` rests on, and rests itself on the numbers
being distinct, which `addServer` gives by numbering after the size of a list that
only grows. `Younger`: a server counts a silence from a later moment than the
client, for it hears last; so `NoEarlyTimeout`, whose step a server takes only with
a count past the limit, finds the client's count past it too (`OnlyTimeoutCloses`).

**Session.** Each step of the session is a step of `Server` or leaves its
variables alone (`SessionSteps`); with the server's invariant this gives
`SessionIsServed`. `SameKey` needs to know in which order a peer is told things.
`KeyFirst` says that the key comes first: nothing is sent to a peer that has no
key and it asks for nothing but one, and no buffer holds a request of a client
without a key. It is an invariant of `Server` alone, stale packets and all, for a
freed slot's buffer is cleared (`Zeroed`). `AtHome`, `InTouch` and `Linked` tie
the client to it: its socket is a handle of the server with a peer, and once an
answer came back, the key it holds is the one that the peer was given. Then
`KeyAgreement` closes the circle. The hypothesis `NoLeak` is needed: a slot left
with a closed socket may meet that handle again.

That a command runs once is not a fact about the client, which forgets a command
when it gives up, nor about the server, which does not number requests. It is that
the bytes of a request are counted once. `Served == SessionInv /\ Streaming /\
(NoLeak /\ hit = {} => Calling)` is the inductive invariant, and `Calling` has four
parts:

* `Counted`, over the socket `asked` of the last request, in touch or given up: until
  it has run, no answer to it has `Begun`, that is, none has arrived and no part of one
  may still arrive; what is left of an earlier answer starts none. Once it has run, none
  of its bytes is counted in a buffer or waits in the port (`Unread`). So the next
  request handled from that socket would be another (`RunsOnce`).
* `InCall`, what goes with the call the thread blocks in: `outcome` is pending in a
  call only, an answer is in the inbox only after the handler ran.
* `Turns`, while the two are in touch: the peer of the server's world is idle when it is
  the user's turn and when an answer is in the inbox, and an unanswered command is the
  last on this very socket. It also holds the clocks together: the client counts from its
  `Send`, the server from the packet in which it takes the message in, which is later. So
  once an answer has `Begun`, a slot's count is not ahead of the client's. `Greets` and
  `Serves` say that whatever makes the server answer also resets its count.
* `Todo`: a slot on the list that `TimeoutCheck` works through is still expired when
  its turn comes, for the thread handles no packet in between.

Each step of the server is classified by what a single socket sees of it: the thread is
`Calm`, `Greets` or `Serves` (`ThreadCalm`), and what the kernel completes only `Hears`
(`CompletionHears`), which is shown from `Streaming` handler by handler. The session's
half of the proof then needs none of the handlers. The steps that `Calling` allows are
those of `RemoteCall` (`StepsAreCalls`).

The hypotheses are `NoLeak`, and `hit = {}`: a stale packet counts bytes in the buffer
of a slot whose client did not send them. Nothing is assumed of answers, which may be of
any length, written in parts, or garbled.
`CallImplemented` has both as hypotheses on the constants, and the run `session`
is an instance of it.

**Requests in bytes.** `ExchangeProofs` is about every path, buffer size, blob of a key and cut
into segments. Its lemmas say that the pairs of functions undo each other: `Word` and
`Number` (`NumberOfWord`), a byte and an enumeration (`NameOfCode`, `Enumerations`),
the two swaps of push and store (`SwappedTwice`), `Encrypt` and `Decrypt` with their
padding, which always fits `Room` (`PaddingFits`, `Decrypted`), `Framed` and
`Received` (`FramedCells`, `RequestMessage`), `PackRequest` and `ParseRequest`
(`PackedRequest`, `ParsedRequest`): there the second reads past what was allocated,
twice, and the proof shows that none of those cells gets into the result.

`Receiving` is the inductive invariant. The eight bytes of a size arrive over those of
the message before, so a buffer with fewer than eight new cells announces a number
mixed of both, and `ValidateBuff` may be unlucky only if that number equals the count
of the cells, which is below eight. Then the eighth byte would be that number
(`SizeInLastByte`), and the eighth byte is still the last byte of the former size:
of a request 10 + 16 n, of the key request 286. Neither is 1 to 7 modulo 256
(`RequestMessage`, `KeyFits`). `Segment` puts this together: a buffer is taken for a
whole message if and only if it holds all of it.

The theorems state these hypotheses, and the run `exchange` is an instance of all:

* `KeyFits`: the size of the key request is not 1 to 7 modulo 256. Windows exports an
  RSA key of 2048 bits as 276 bytes, `encryption.cpp`'s only kind, and 286 is 30.
* `PathsFit`: the argument that `parse_command` finds for a path is a non-empty string
  of less than 2^28 characters; sizes then fit the 31 bits of `Number`. That `split`
  yields no empty string cannot be proved, for `SelectSeq` is opaque to the prover.
* `Understood`: the request parsed is the one meant, that is, the user knows how to
  quote. The rest of the way from the line to the handler is what is proved.
* `OnlyLongPathsAreRefused` asks for 512 bytes, what `tcp.hpp` gives.

**Responses in bytes.** `ResponseProofs` is about every machine. Lists of any length
are built and read by recursive functions, so its first lemma is induction
(`Induction`), from the theorem of well-founded sets that every non-empty set of
numbers has a least element: the induction theorems of the library take an operator,
which no prover here can instantiate, but a set does as well. From it follows that each
such function is defined by its equations and what it computes: `Flattened` and `Parts`
say where each part of a `FlattenSeq` lies, `PlacesFound` and `StartsFound` that the
places a parser computes from what it has read, element by element, are those,
`FieldRead`, `ElementRead` and `ElementsRead` that what is popped there is what was
pushed, and `ParsedResponse` that a response is parsed as it was packed, whatever lies
behind it. `VisitedKeeps` is about the loops of the queries over drives and entries.
`Handled` shows that each handler returns what can be packed so, and `ResponseLength`
how long that is: 17 + 20 n bytes for drives, 17 + 46 n for entries, 65 and the names
for an owner.

`Answering` holds together with `Receiving`. It says that all cells sent and buffered
are bytes, plain or encrypted; that an answer to a request is the message of what its
handler returned (`Answered`), and that this is what was printed (`Shown`); that where
the program became undefined the handler was, or the answer is longer than `sendBuf`
(`Overrun`). The four theorems follow: `ResponsesFit` by counting, `TimesAreRight` by
the arithmetic of divisions (`ZoneHours`, `ClockOfZone`, `UnitsAddUp`).

The hypotheses are those above, except that `Understood` is not needed for
`CellsAreDefined` and `OnlyLongResponsesOverrun`, and these, which every machine of the
run `exchange` meets:

* `MachinesTyped`: what Windows returns has its documented type: numbers of 32 and 64
  bits have four and eight bytes, there are at most 26 drives, an ACL counts its entries
  in 16 bits, and an account's names are read into arrays of 256.
* `ZonesFit`, of `ClocksAreRight` only: a zone is less than a day off. The numbers of
  the model do not wrap. The code's would in the first hours of 1970 in a zone
  west of Greenwich, which `getTime` leaves out.
* `OnlyLongResponsesOverrun` asks for 512 bytes, what `tcp.hpp` gives, and a session
  key that fits.

Only model-checked, and why:

* the liveness properties of `live` and `CommandEnds`: fairness;
* `AnswersNotGarbled` where writes are transmitted in parts: the invariant would have to
  say which answer each rest belongs to;
* the violations of section 6, which are counterexamples;
* that `split` yields no empty path, a hypothesis of the theorems about bytes
  (`PathsFit`).

## 5. What is not modelled

* Cryptography: what a key is and what is read without it. Modelled are which key
  each end has and how long a ciphertext is. The client's asymmetric key, which
  every connector replaces, is used only between two calls of one command.
* `format_bytes`, which divides floating-point numbers, the table of access rights
  and the text of a SID: they print values and decide nothing.
* Failures of calls for which Windows documents none (version, memory, mask of
  drives), and the older `IsWow64Process`.
* The set-up of the listening socket and its failures, `Cleanup` on a console
  signal (the process ends at once), the end of the console's input, and an
  address that `to_string` cannot convert, which ends the client.
* The client's build for other systems than Windows, logging, error texts, and
  `test.cpp`, which prints each query once.
* What happens after a copy past `sendBuf` or past the array of a SID, or after a
  read of a null DACL: `ResponsesFit` says exactly when, and the behaviour ends there.

## 6. Findings

* `stranger`: a cancellation posted for one client can disconnect the next one of
  its slot (`tcp.cpp:298`).
* `garbled`: the late completion of the key response's send makes the tail of the
  next answer be sent twice, if that answer is longer (`tcp.cpp:211`): `NeverGarbled`.
* `starved`: a client that keeps talking keeps `TimeoutCheck` from running, and a silent
  one keeps its slot for ever (`tcp.cpp:101`): `SilentReclaimed`.
* `garbage`: a server that closes instead of answering makes the client build a
  message from uninitialised memory, against the assertion `message.cpp:77`
  (`context.cpp:151`).
* `switch`: "Attempting reconnect..." never happens (`cli.cpp:458`).

## 7. Plan

1. Done: Winsock, Server, ClientPool with their proofs; the bytes of the server's
   clients; Client and Session with theirs; RemoteCall; Packing, Protocol, Queries,
   CommandLine, Exchange, with requests and responses in bytes; `Session` shown to
   implement `RemoteCall`.
2. `Clean` where writes are transmitted in parts.
