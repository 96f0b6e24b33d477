---------------------------- MODULE CommandLine ----------------------------
(***************************************************************************)
(* The client's two ends: a typed line becomes a request (split and        *)
(* parse_command of src/client/cli/cli.cpp), and a response what is shown. *)
(* A character is a unit of UTF-16, most significant byte first; the name  *)
(* of a command is typed as one character.                                 *)
(***************************************************************************)
EXTENDS Protocol, FiniteSets

QUOTE == <<0, 34>>
SPACE == <<0, 32>>

\* commandText, for the commands that ask a server.
NameOf(type) == <<255, Code(RequestTypes, type)[1]>>
Help == <<255, 255>>

\* split: a space ends an argument unless an odd number of quotes precedes it;
\* quotes are dropped, and arguments of which nothing is left.
split(s) ==
    LET quotes == {q \in DOMAIN s : s[q] = QUOTE}
        In_quotes(i) == Cardinality({q \in quotes : q < i}) % 2 = 1
        Ends(i) == s[i] = SPACE /\ ~In_quotes(i)
        at == <<0>> \o SelectSeq([i \in DOMAIN s |-> i], Ends) \o <<Len(s) + 1>>
        Current(n) == SelectSeq(SubSeq(s, at[n] + 1, at[n + 1] - 1), LAMBDA c : c # QUOTE)
    IN  SelectSeq([n \in 1 .. Len(at) - 1 |-> Current(n)], LAMBDA current : current # <<>>)

\* parse_command, and exec's test of the arguments: the request that is made, or
\* the type "none" where the user is told how a command is used.
NoRequest == [type |-> "none", arg |-> <<>>]
parse_command(line) ==
    LET args  == split(line)
        named == {t \in ToSet(RequestTypes) : args # <<>> /\ args[1] = <<NameOf(t)>>}
        paths == named \cap {"rights", "owner"}
    IN  IF named = {} \/ (paths # {} /\ Len(args) < 2) THEN NoRequest
        ELSE [type |-> CHOOSE t \in named : TRUE,
              arg  |-> IF paths = {} THEN <<>> ELSE args[2]]
-----------------------------------------------------------------------------
Signed(word) == IF word[1] > 127 THEN word[1] - 256 ELSE word[1]

\* The number of a word of 64 bits.
Unsigned(word) ==
    ((((((word[1] * 256 + word[2]) * 256 + word[3]) * 256 + word[4]) * 256 + word[5]) * 256
        + word[6]) * 256 + word[7]) * 256 + word[8]

format_time(ms) ==
    LET total_seconds == ms \div 1000
        total_minutes == total_seconds \div 60
    IN  [hours |-> (total_minutes \div 60) % 24, minutes |-> total_minutes % 60,
         seconds |-> total_seconds % 60]

\* The remainders are taken of the total, not of what the larger units left.
RemaindersOfTotal(ms) ==
    LET total_seconds == ms \div 1000
    IN  [days |-> total_seconds \div 86400, hours |-> total_seconds \div 3600,
         minutes |-> (total_seconds % 3600) \div 60, seconds |-> total_seconds % 60]

format_milliseconds(ms) ==
    LET total_seconds == ms \div 1000
        of_day  == total_seconds % 86400
        of_hour == of_day % 3600
    IN  [days |-> total_seconds \div 86400, hours |-> of_day \div 3600,
         minutes |-> of_hour \div 60, seconds |-> of_hour % 60]

\* The clock of the server's zone, and the hours of the zone.  Milliseconds are added in
\* 64 bits without a sign: a clock in the first hours of 1970 would wrap, and is left out.
getTime(time) ==
    LET time_zone == Signed(time.time_zone)
    IN  [clock |-> format_time(Unsigned(time.time_ms) + time_zone * 3600 * 1000),
         utc |-> time_zone]

\* What is printed of the response to a request of this type, taken for one of the
\* class that the type calls for.  Sizes are left in bytes.
Printed(type, response) ==
    CASE type = "time"   -> getTime(response.content)
      [] type = "uptime" -> format_milliseconds(Unsigned(response.content.time_ms))
      [] OTHER           -> response.content
=============================================================================
