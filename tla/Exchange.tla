------------------------------ MODULE Exchange ------------------------------
(***************************************************************************)
(* One connection at the level of bytes: a line is typed, its request      *)
(* arrives in segments of any size over what the receive buffer holds of   *)
(* the message before, is parsed and answered, and the answer is printed.  *)
(* Who is served when, and what is lost on the way, is left to Server and  *)
(* Client; what the bytes mean is left out there and modelled here.        *)
(***************************************************************************)
EXTENDS CommandLine, Queries

CONSTANTS
    MAX_BUF_SIZE,  \* cells of recvBuf and of sendBuf
    Machines,      \* records of the operating systems a server may run on
    Lines,         \* what a user types (keys), and the request that is meant
    Cuts,          \* bound: a segment ends after as many cells of the message, or
                   \* at its end, or one cell before
    PublicKey,     \* the blob a client sends with its key request
    SessionKey     \* the blob it is answered with

NoLine == [keys |-> <<>>, meant |-> NoRequest]

ASSUME ExchangeAssumption ==
    /\ MAX_BUF_SIZE \in Nat /\ MAX_BUF_SIZE >= HEADER
    /\ Cuts \subseteq Nat
    /\ PublicKey \in Seq(0 .. 255) /\ SessionKey \in Seq(0 .. 255)

VARIABLES
    machine,  \* the server's operating system
    line,     \* the last line typed
    wire,     \* cells of the message on its way to the server
    recvBuf,  \* memory of the client's slot: cells, of which recvBufSize count
    recvBufSize,
    asked,    \* history: the request a handler was called with
    answer,   \* cells of the message on its way back
    printed,  \* what the user was told last
    stage     \* where the exchange is

vars == <<machine, line, wire, recvBuf, recvBufSize, asked, answer, printed, stage>>

Stages == {"prompt", "sending", "answered", "refused", "ignored", "undefined"}

KeyRequest == Framed("key_request", "none", PublicKey)

\* A new connection: its slot is zero, and the first message asks for the key.
Init ==
    /\ machine \in Machines
    /\ line = NoLine
    /\ wire = KeyRequest
    /\ recvBuf = [i \in 1 .. MAX_BUF_SIZE |-> 0]
    /\ recvBufSize = 0
    /\ asked = NoRequest
    /\ answer = <<>>
    /\ printed = <<>>
    /\ stage = "sending"

\* exec sends a request, or the user is told how to ask.
Type(l) ==
    /\ stage = "prompt"
    /\ line' = l
    /\ LET request == parse_command(l.keys)
       IN  IF request.type = "none"
           THEN printed' = <<"usage">> /\ UNCHANGED <<wire, stage>>
           ELSE /\ wire' = Message("request", PackRequest(request))
                /\ stage' = "sending"
                /\ printed' = <<>>
    /\ UNCHANGED <<machine, recvBuf, recvBufSize, asked, answer>>
-----------------------------------------------------------------------------
\* WSARecv puts n more cells behind those that count.
Filled(n) == [i \in 1 .. MAX_BUF_SIZE |->
    IF i - recvBufSize \in 1 .. n THEN wire[i - recvBufSize] ELSE recvBuf[i]]

Arrives(n) ==
    /\ stage = "sending" /\ wire # <<>>
    /\ n \in 1 .. Len(wire) /\ recvBufSize + n <= MAX_BUF_SIZE
    /\ wire' = SubSeq(wire, n + 1, Len(wire))
    /\ recvBuf' = Filled(n)
    /\ UNCHANGED <<machine, line, printed>>

\* ProcessEvent on a message that is not whole: read on behind it.
ArrivesPartly(n) ==
    /\ Arrives(n)
    /\ ~ValidateBuff(Filled(n), recvBufSize + n)
    /\ recvBufSize' = recvBufSize + n
    /\ UNCHANGED <<asked, answer, stage>>

\* sendBuf holds MAX_BUF_SIZE cells; what is longer is copied past its end.
Sends(message) ==
    IF Len(message) <= MAX_BUF_SIZE THEN answer' = message /\ stage' = "answered"
    ELSE answer' = <<>> /\ stage' = "undefined"

\* ProcessMessage: the key is handed out, or a handler makes the response.  What no
\* handler is for is not answered.
ArrivesWhole(n) ==
    /\ Arrives(n)
    /\ ValidateBuff(Filled(n), recvBufSize + n)
    /\ recvBufSize' = 0
    /\ LET message == Received(Filled(n))
           req     == ParseRequest(message.buf)
       IN  IF message.type = "key_request"
           THEN /\ Sends(Framed("key_response", "asymmetric", SessionKey))
                /\ UNCHANGED asked
           ELSE /\ asked' = req
                /\ IF req.type = "invalid" THEN answer' = <<>> /\ stage' = "ignored"
                   ELSE IF Undefined(machine, req) THEN answer' = <<>> /\ stage' = "undefined"
                   ELSE Sends(Message("response", PackResponse(Handle(machine, req))))

\* A read into a full buffer completes with nothing: the server disconnects.
BufferFull ==
    /\ stage = "sending" /\ wire # <<>> /\ recvBufSize = MAX_BUF_SIZE
    /\ stage' = "refused"
    /\ UNCHANGED <<machine, line, wire, recvBuf, recvBufSize, asked, answer, printed>>

\* The client receives the answer whole: the key, or a response that is printed
\* for the command that was typed.
Display ==
    /\ stage = "answered"
    /\ stage' = "prompt"
    /\ answer' = <<>>
    /\ LET message == Received(answer) IN
       printed' = IF message.type = "key_response" THEN <<"key">>
                  ELSE LET response == ParseResponse(message.buf)
                       IN  <<response, Printed(parse_command(line.keys).type, response)>>
    /\ UNCHANGED <<machine, line, wire, recvBuf, recvBufSize, asked>>

Next ==
    \/ \E l \in Lines : Type(l)
    \/ \E c \in Cuts \cup {recvBufSize + Len(wire) - 1, recvBufSize + Len(wire)} :
          ArrivesPartly(c - recvBufSize) \/ ArrivesWhole(c - recvBufSize)
    \/ BufferFull
    \/ Display

Spec == Init /\ [][Next]_vars
-----------------------------------------------------------------------------
Cell == 0 .. CIPHER + 255

\* Every variable has its type: in particular no cell that is sent or buffered is
\* undefined.
TypeOK ==
    /\ machine \in Machines
    /\ line \in Lines \cup {NoLine}
    /\ wire \in Seq(Cell) /\ answer \in Seq(Cell)
    /\ recvBuf \in [1 .. MAX_BUF_SIZE -> Cell]
    /\ recvBufSize \in 0 .. MAX_BUF_SIZE
    /\ asked.type \in ToSet(RequestTypes) \cup {"none", "invalid"}
    /\ stage \in Stages

\* A message is taken when all of it has arrived and not before, although the
\* eight bytes of its size arrive over those of the message before: ValidateBuff
\* never mistakes a mixture of the two for a size.
WholeRequests ==
    /\ stage \in {"answered", "prompt", "ignored", "undefined"} => wire = <<>>
    /\ stage = "sending" => wire # <<>>

\* The query is made about the path the user named, whatever spaces, quotes and
\* characters it has, with the over-long reads of pop and of Message discarded.
AskedWhatWasMeant ==
    stage \in {"answered", "undefined"} /\ line # NoLine => asked = line.meant

\* The response the client parses is the one the handler returned, of the class the
\* command takes it for.
ToldWhatIsSo ==
    stage = "prompt" /\ line # NoLine /\ printed # <<"usage">> =>
        printed[1] = Handle(machine, line.meant)

\* The clock printed for a server is right for the zone printed with it, and the
\* units of an uptime add up, each below the next one.
TimesAreRight ==
    stage = "prompt" /\ Len(printed) = 2 =>
        LET shown == printed[2] IN
        /\ line.meant.type = "time" =>
               /\ shown.clock \in [hours: 0 .. 23, minutes: 0 .. 59, seconds: 0 .. 59]
               /\ ((shown.clock.hours - shown.utc) * 3600 + shown.clock.minutes * 60
                      + shown.clock.seconds - (Unsigned(machine.time) \div 1000)) % 86400 = 0
               /\ (shown.utc * 60 + machine.bias) \in -59 .. 59
        /\ line.meant.type = "uptime" =>
               /\ shown.hours < 24 /\ shown.minutes < 60 /\ shown.seconds < 60
               /\ shown.days * 86400 + shown.hours * 3600 + shown.minutes * 60 + shown.seconds
                     = Unsigned(machine.uptime) \div 1000

\* Every request a user can type is one the server knows, and recvBuf of 512 bytes is
\* large enough for it up to a path of 239 characters: none is ignored, and no other
\* is refused.
RequestsFit ==
    /\ stage # "ignored"
    /\ stage = "refused" => Len(line.meant.arg) > 239

\* sendBuf of 512 bytes is large enough for the response up to 23 drives, 10 entries
\* of a DACL and names of 430 bytes, and no other response is undefined but for a
\* missing DACL and a SID of more than 32 bytes.
ResponsesFit ==
    stage = "undefined" =>
         LET d == Descriptor(machine, asked.arg) IN
         CASE asked.type = "drives" -> Cardinality(DOMAIN machine.drives) > 23
           [] asked.type = "rights" ->
                LET told == {i \in DOMAIN d.dacl : d.dacl[i].type \in {"ALLOWED", "DENIED"}}
                IN  ~d.hasDacl \/ Cardinality(told) > 10 \/ \E i \in told : Len(d.dacl[i].sid) > 32
           [] asked.type = "owner" -> Len(d.sid) > 32 \/ Len(d.domain) + Len(d.name) > 430
           [] OTHER -> FALSE
=============================================================================
