------------------------------ MODULE MCPaging ------------------------------
(***************************************************************************)
(* An instance of Paging for TLC.                                          *)
(***************************************************************************)
EXTENDS Paging, TLC

CONSTANTS m1, m2, m3, m4, m5, r1, r2

\* Four messages in one room, one in another.
RoomOfMessage == m1 :> r1 @@ m2 :> r1 @@ m3 :> r1 @@ m4 :> r1 @@ m5 :> r2

Symmetry == Permutations({m1, m2, m3, m4})
=============================================================================
