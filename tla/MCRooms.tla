------------------------------ MODULE MCRooms ------------------------------
(***************************************************************************)
(* Instances of Rooms for TLC; users and request slots are                 *)
(* interchangeable.                                                        *)
(***************************************************************************)
EXTENDS Rooms, TLC

Symmetry == Permutations(User) \cup Permutations(Req)
=============================================================================
