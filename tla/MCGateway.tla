----------------------------- MODULE MCGateway -----------------------------
(***************************************************************************)
(* An instance of Gateway for TLC.                                         *)
(***************************************************************************)
EXTENDS Gateway

CONSTANTS d1, d2

\* Two rooms; one room twice.
SomeRequests == {<<d1, d2>>, <<d1, d1>>}
=============================================================================
