----------------------------- MODULE MCMessages -----------------------------
(***************************************************************************)
(* Instances of MessageService for TLC; users, rooms and request slots are *)
(* interchangeable.                                                        *)
(***************************************************************************)
EXTENDS MessageService, TLC

Symmetry == Permutations(User) \cup Permutations(Room) \cup Permutations(Req)
=============================================================================
