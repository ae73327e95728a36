---------------------------- MODULE TokenBucket ----------------------------
(***************************************************************************)
(* What the request limiter promises each client: one bucket that is never *)
(* forgotten, filled at every moment, and an answer that depends on it     *)
(* alone.  Levels are in units of 1/window of a token, so that a tick adds *)
(* "requests" units and an allowed request costs "window" units.           *)
(***************************************************************************)
EXTENDS Naturals

CONSTANTS Key

VARIABLES
    cfg,        \* requests per window, window, burst, and idle: how long a
                \* client is idle at least before it may be forgotten
    level,      \* of each client's bucket
    allowed,    \* requests answered, by outcome
    refused

vars == <<cfg, level, allowed, refused>>

Capacity == cfg.burst * cfg.window

Filled(l) == IF l + cfg.requests > Capacity THEN Capacity ELSE l + cfg.requests

\* A bucket that has been idle long enough to be forgotten is full anyway.
Forgettable == Capacity <= cfg.idle * cfg.requests

Init ==
    /\ level = [k \in Key |-> Capacity]
    /\ allowed = [k \in Key |-> 0]
    /\ refused = [k \in Key |-> 0]

Tick ==
    /\ level' = [k \in Key |-> Filled(level[k])]
    /\ UNCHANGED <<cfg, allowed, refused>>

Allow(k) ==
    /\ level[k] >= cfg.window
    /\ level' = [level EXCEPT ![k] = @ - cfg.window]
    /\ allowed' = [allowed EXCEPT ![k] = @ + 1]
    /\ UNCHANGED <<cfg, refused>>

Refuse(k) ==
    /\ level[k] < cfg.window
    /\ refused' = [refused EXCEPT ![k] = @ + 1]
    /\ UNCHANGED <<cfg, level, allowed>>

\* With a burst beyond what the idle time refills, being forgotten is a gain.
Forget(ks) ==
    /\ ~Forgettable
    /\ level' = [k \in Key |-> IF k \in ks THEN Capacity ELSE level[k]]
    /\ UNCHANGED <<cfg, allowed, refused>>

Next ==
    \/ Tick
    \/ \E k \in Key : Allow(k) \/ Refuse(k)
    \/ \E ks \in SUBSET Key : Forget(ks)

Spec == Init /\ [][Next]_vars
=============================================================================
