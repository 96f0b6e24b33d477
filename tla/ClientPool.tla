----------------------------- MODULE ClientPool -----------------------------
(***************************************************************************)
(* What the server of src/server/server/tcp.cpp promises of connections,   *)
(* without its completion port, timeouts and buffers: there are Capacity   *)
(* seats; one connection at a time is offered; it takes a free seat, or is *)
(* turned away when there is none; whoever has a seat may lose it; nobody  *)
(* moves to another seat, holds two, or is offered one while holding one.  *)
(***************************************************************************)
EXTENDS Naturals

CONSTANTS Capacity, Connections, Nobody

VARIABLES
    offered,  \* the connection to be seated next
    seats     \* who holds each seat, Nobody for none

Free(k) == seats[k] = Nobody
Seated == {seats[k] : k \in 1 .. Capacity} \ {Nobody}

Init ==
    /\ offered \in Connections
    /\ seats = [k \in 1 .. Capacity |-> Nobody]

Seat(k) ==
    /\ Free(k)
    /\ seats' = [seats EXCEPT ![k] = offered]
    /\ offered' \in Connections \ (Seated \cup {offered})

TurnAway ==
    /\ \A k \in 1 .. Capacity : ~Free(k)
    /\ offered' \in Connections \ Seated
    /\ UNCHANGED seats

Leave(k) ==
    /\ ~Free(k)
    /\ seats' = [seats EXCEPT ![k] = Nobody]
    /\ UNCHANGED offered

Next == TurnAway \/ \E k \in 1 .. Capacity : Seat(k) \/ Leave(k)

Spec == Init /\ [][Next]_<<offered, seats>>
=============================================================================
