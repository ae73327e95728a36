------------------------------- MODULE MCHub -------------------------------
(***************************************************************************)
(* Instances of Hub for TLC.                                               *)
(***************************************************************************)
EXTENDS HubDelivery, TLC

CONSTANTS c1, c2, r1, r2, u1, u2

\* Two tabs of one user in one room: every event meets both clients, and the
\* clients are interchangeable.
OneUserOf == c1 :> u1 @@ c2 :> u1
OneRoomsOf == c1 :> <<r1>> @@ c2 :> <<r1>>

\* Two users that share one room; the first has a second room of its own, so
\* its typing events must name one.
TwoUserOf == c1 :> u1 @@ c2 :> u2
TwoRoomsOf == c1 :> <<r1, r2>> @@ c2 :> <<r1>>

\* One client.
SoloUserOf == c1 :> u1
SoloRoomsOf == c1 :> <<r1>>

Symmetry == Permutations(Client)
=============================================================================
