------------------------------- MODULE MCAuth -------------------------------
(***************************************************************************)
(* Instances of AuthSession for TLC; users and request slots are           *)
(* interchangeable.                                                        *)
(***************************************************************************)
EXTENDS AuthSession, TLC

Symmetry == Permutations(User) \cup Permutations(Req)
=============================================================================
