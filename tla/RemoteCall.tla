----------------------------- MODULE RemoteCall -----------------------------
(***************************************************************************)
(* What a user may rely on when a command is run on a server, for any      *)
(* number of timeouts, reconnections and lost connections in between: it   *)
(* runs at most once, and once exactly, before an answer that a server     *)
(* gave is shown, if one is.  After an error it may have run, or not, or   *)
(* run later, and so it may after an answer that was made of leftovers.    *)
(***************************************************************************)
EXTENDS Naturals

VARIABLES
    outcome,  \* of the last command
    runs      \* how often the server has run it

Outcomes == {"none", "pending", "answered", "invented", "lost"}

Init == outcome = "none" /\ runs = 0

Issue == outcome # "pending" /\ outcome' = "pending" /\ runs' = 0

Run == outcome \in {"pending", "invented", "lost"} /\ runs = 0 /\ runs' = 1 /\ UNCHANGED outcome

Answered == outcome = "pending" /\ runs = 1 /\ outcome' = "answered" /\ UNCHANGED runs

Lost == outcome = "pending" /\ outcome' = "lost" /\ UNCHANGED runs

\* The connection ended, and what is shown is no server's answer.
Invented == outcome = "pending" /\ outcome' = "invented" /\ UNCHANGED runs

Next == Issue \/ Run \/ Answered \/ Lost \/ Invented

Spec == Init /\ [][Next]_<<outcome, runs>>
=============================================================================
