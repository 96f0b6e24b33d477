----------------------------- MODULE MCSession -----------------------------
(***************************************************************************)
(* Small instances of Session for TLC.                                     *)
(***************************************************************************)
EXTENDS Session

KeyRequest == [kind |-> "key", len |-> 1, reply |-> 1]
Request    == [kind |-> "request", len |-> 1, reply |-> 2]

KeyThenRequest == {KeyRequest, Request}
=============================================================================
