------------------------------ MODULE MCServer ------------------------------
(***************************************************************************)
(* Small instances of Server for TLC.                                      *)
(***************************************************************************)
EXTENDS Server, TLC

KeyRequest == [kind |-> "key", len |-> 1, reply |-> 2]
Split      == [kind |-> "request", len |-> 2, reply |-> 1]
Long       == [kind |-> "request", len |-> 1, reply |-> 3]
TooLong    == [kind |-> "request", len |-> 3, reply |-> 1]
Unknown    == [kind |-> "unknown", len |-> 1, reply |-> 1]

Brief      == [kind |-> "request", len |-> 1, reply |-> 2]

\* Answers shorter than that to a key request, and longer.
Various == {KeyRequest, Split, Long}
WithLong == {KeyRequest, Long}
\* Messages that are not answered.
Hanging == {KeyRequest, TooLong, Unknown}
Talk == {KeyRequest, Brief}
Silent == {}
KeysAndUnknown == {KeyRequest, Unknown}

HandlesAreAlike == Permutations(Handles)

(***************************************************************************)
(* For liveness, sockets are numbers and only the first one's peer talks,  *)
(* beside clients that connect, are silent and close.  WSASocketW returns  *)
(* the first socket that is free: sockets being alike, another one would   *)
(* differ by its name.                                                     *)
(***************************************************************************)
FirstFree == \A s \in open' \ open : 1 .. s - 1 \subseteq open'
OneTalks == \A h \in Handles \ {1} : peer'[h].st # "sending"

OneTalksSpec ==
    Init /\ acceptSocket = 1 /\ [][Next /\ FirstFree /\ OneTalks]_vars /\ Fairness
=============================================================================
