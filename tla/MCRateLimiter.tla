--------------------------- MODULE MCRateLimiter ---------------------------
(***************************************************************************)
(* An instance of RateLimiter for TLC.                                     *)
(***************************************************************************)
EXTENDS RateLimiter, TLC

\* All defaults; the default burst; a burst just within what two windows refill, less a
\* stall; one beyond it.
SomeConfigs ==
    {[requests |-> 0, window |-> 0, burst |-> 0],
     [requests |-> 2, window |-> 2, burst |-> 0],
     [requests |-> 2, window |-> 3, burst |-> 3],
     [requests |-> 1, window |-> 2, burst |-> 3]}

Symmetry == Permutations(Bucket) \cup Permutations(Request)
=============================================================================
