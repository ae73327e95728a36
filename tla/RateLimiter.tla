---------------------------- MODULE RateLimiter ----------------------------
(***************************************************************************)
(* The HTTP rate limiter (pkg/middleware/rate_limit.go): a map of visitors *)
(* under a mutex, a token bucket (golang.org/x/time/rate) per visitor, and *)
(* a goroutine that forgets visitors not seen for two windows.             *)
(*                                                                         *)
(* The bucket is handed out under the mutex and used after it, so a        *)
(* request may use a bucket that the map has dropped.  Time is a clock in  *)
(* ticks; bucket contents are in units of 1/window of a token, which makes *)
(* the refill of a tick, requests/window of a token, a whole number.       *)
(***************************************************************************)
EXTENDS Integers, Sequences, FiniteSets, Functions

CONSTANTS
    Key,            \* client addresses (KeyFunc)
    Request,        \* request slots: bounds the requests in flight
    Bucket,         \* *rate.Limiter objects
    None,           \* no bucket
    Configs,        \* the RateLimiterConfigs main may pass
    Minute,         \* time.Minute, in ticks
    Stall,          \* the scheduler's bound: ticks between getVisitor and Allow
    MaxTime,        \* bound on the clock
    MaxRequests     \* bound on the requests of a client

ASSUME RateAssumption ==
    /\ None \notin Bucket
    /\ IsFiniteSet(Bucket)
    /\ IsFiniteSet(Key) /\ IsFiniteSet(Request)
    /\ Cardinality(Bucket) >= Cardinality(Key) + Cardinality(Request)
    /\ Configs \subseteq [requests : Int, window : Int, burst : Int]
    /\ Minute \in Nat \ {0}
    /\ {Stall, MaxTime, MaxRequests} \subseteq Nat

VARIABLES
    cfg,        \* limit, burst and window of the rateLimiter
    now,
    ticked,     \* ticker.C holds a tick
    visitors,   \* rateLimiter.visitors: the bucket of a key, or None
    lastSeen,   \* visitor.lastSeen
    bucket,     \* tokens and time of the last update of each bucket
    req,        \* requests between getVisitor and Allow: key, bucket, since
    granted,    \* history: when the requests of a key were let through
    refused     \* history: how many of its requests were turned away

vars == <<cfg, now, ticked, visitors, lastSeen, bucket, req, granted, refused>>

Idle == [key |-> None, bucket |-> None, since |-> 0]

\* Every variable holds what its Go type allows; a key's bucket is its own.
TypeOK ==
    /\ cfg \in [requests : Nat \ {0}, window : Nat \ {0}, burst : Nat \ {0}]
    /\ now \in 0..MaxTime
    /\ ticked \in BOOLEAN
    /\ visitors \in [Key -> Bucket \cup {None}]
    /\ \A k, l \in Key : visitors[k] = visitors[l] => k = l \/ visitors[k] = None
    /\ lastSeen \in [Key -> 0..MaxTime]
    /\ bucket \in [Bucket -> [tokens : Nat, last : 0..MaxTime]]
    /\ req \in [Request -> {Idle} \cup [key : Key, bucket : Bucket, since : 0..MaxTime]]
    /\ granted \in [Key -> Seq(0..MaxTime)]
    /\ refused \in [Key -> Nat]

-----------------------------------------------------------------------------
MutantNoBurstDefault(c) ==
    [requests |-> IF c.requests <= 0 THEN 100 ELSE c.requests,
     window   |-> IF c.window <= 0 THEN Minute ELSE c.window,
     burst    |-> IF c.burst < 0 THEN c.requests ELSE c.burst]

\* RateLimit: what a value that is not positive stands for.
WithDefaults(c) ==
    LET requests == IF c.requests <= 0 THEN 100 ELSE c.requests
    IN  [requests |-> requests,
         window   |-> IF c.window <= 0 THEN Minute ELSE c.window,
         burst    |-> IF c.burst <= 0 THEN requests ELSE c.burst]

Init ==
    /\ cfg \in {WithDefaults(c) : c \in Configs}
    /\ now = 0
    /\ ticked = FALSE
    /\ visitors = [k \in Key |-> None]
    /\ lastSeen = [k \in Key |-> 0]
    /\ bucket = [b \in Bucket |-> [tokens |-> 0, last |-> 0]]
    /\ req = [q \in Request |-> Idle]
    /\ granted = [k \in Key |-> <<>>]
    /\ refused = [k \in Key |-> 0]

\* rate.NewLimiter: full.
NewLimiter == [tokens |-> cfg.burst * cfg.window, last |-> now]

MutantNoCap(b) == bucket[b].tokens + (now - bucket[b].last) * cfg.requests

\* What the bucket holds now: refilled since its last update, up to the burst.
Tokens(b) ==
    LET tokens == bucket[b].tokens + (now - bucket[b].last) * cfg.requests
        full   == cfg.burst * cfg.window
    IN  IF tokens > full THEN full ELSE tokens

-----------------------------------------------------------------------------
InFlight == {q \in Request : req[q] # Idle}

\* Buckets nobody refers to: new ones are made from these.
Unused == Bucket \ (Range(visitors) \cup {req[q].bucket : q \in Request})

Asked(k) ==
    Len(granted[k]) + refused[k] + Cardinality({q \in InFlight : req[q].key = k})

MutantKeepSeen(k) == IF visitors[k] = None THEN now ELSE lastSeen[k]

\* lastSeen of a visitor that asks for its bucket.
Seen(k) == now

\* One call under the mutex: the visitor's bucket, or a new one.
getVisitor(q, k) ==
    /\ req[q] = Idle /\ Asked(k) < MaxRequests
    /\ lastSeen' = [lastSeen EXCEPT ![k] = Seen(k)]
    /\ \/ /\ visitors[k] # None
          /\ req' = [req EXCEPT ![q] = [key |-> k, bucket |-> visitors[k], since |-> now]]
          /\ UNCHANGED <<visitors, bucket>>
       \/ /\ visitors[k] = None
          /\ \E b \in Unused :
                /\ bucket' = [bucket EXCEPT ![b] = NewLimiter]
                /\ visitors' = [visitors EXCEPT ![k] = b]
                /\ req' = [req EXCEPT ![q] = [key |-> k, bucket |-> b, since |-> now]]
    /\ UNCHANGED <<cfg, now, ticked, granted, refused>>

\* handle, after getVisitor: limiter.Allow() takes a token of the bucket in
\* hand, and the request goes on or is answered 429.
Allow(q) ==
    /\ req[q] # Idle
    /\ req' = [req EXCEPT ![q] = Idle]
    /\ LET b == req[q].bucket
           k == req[q].key
       IN  \/ /\ Tokens(b) >= cfg.window
              /\ bucket' = [bucket EXCEPT ![b] =
                               [tokens |-> Tokens(b) - cfg.window, last |-> now]]
              /\ granted' = [granted EXCEPT ![k] = Append(@, now)]
              /\ UNCHANGED refused
           \/ /\ Tokens(b) < cfg.window
              /\ refused' = [refused EXCEPT ![k] = @ + 1]
              /\ UNCHANGED <<bucket, granted>>
    /\ UNCHANGED <<cfg, now, ticked, visitors, lastSeen>>

MutantOneWindow(k) == lastSeen[k] < now - cfg.window

\* v.lastSeen.Before(cutoff)
Stale(k) == lastSeen[k] < now - cfg.window * 2

\* One turn of cleanup, under the mutex, some time after its tick.
cleanup ==
    /\ ticked
    /\ ticked' = FALSE
    /\ visitors' = [k \in Key |-> IF Stale(k) THEN None ELSE visitors[k]]
    /\ UNCHANGED <<cfg, now, lastSeen, bucket, req, granted, refused>>

\* The clock.  A request that has its bucket calls Allow next, without any
\* wait: it is not kept from it for more than Stall ticks.  The ticker drops
\* a tick that finds the previous one still there.
Tick ==
    /\ now < MaxTime
    /\ \A q \in InFlight : now - req[q].since < Stall
    /\ now' = now + 1
    /\ ticked' = (ticked \/ (now + 1) % cfg.window = 0)
    /\ UNCHANGED <<cfg, visitors, lastSeen, bucket, req, granted, refused>>

Next ==
    \/ \E q \in Request, k \in Key : getVisitor(q, k)
    \/ \E q \in Request : Allow(q)
    \/ cleanup
    \/ Tick

Spec == Init /\ [][Next]_vars

-----------------------------------------------------------------------------
(***************************************************************************)
(* Safety.                                                                 *)
(***************************************************************************)

\* From the last use of a bucket to the moment its visitor may be forgotten.
IdleTime == 2 * cfg.window - Stall

Refills == cfg.burst * cfg.window <= IdleTime * cfg.requests

\* rate_limit.go 62-101: in any stretch of time a client gets through no more
\* requests than the burst and the refill of that time, however its bucket was
\* forgotten, recreated and shared by concurrent requests in between.  With a
\* burst that two idle windows do not refill (RATE_LIMIT_BURST is free) this is
\* only so for stretches up to those two windows.
RateBound ==
    \A k \in Key : \A i, j \in DOMAIN granted[k] :
        LET time == granted[k][j] - granted[k][i]
        IN  i <= j /\ (Refills \/ time <= IdleTime) =>
                (j - i + 1) * cfg.window <= cfg.burst * cfg.window + cfg.requests * time

\* The bucket a request holds is the one its visitor has: two requests of one
\* client never draw on two buckets, although the map lock is released between
\* getVisitor and Allow and cleanup may run there.
OneBucket ==
    \A q \in InFlight : visitors[req[q].key] = req[q].bucket

\* The invariant of the map and its buckets (rate_limit.go 62-101): types, and
\* one bucket for each client.
BucketInv == TypeOK /\ OneBucket

-----------------------------------------------------------------------------
(***************************************************************************)
(* The limiter implements a bucket per client that is never forgotten.     *)
(***************************************************************************)
Level(k) == IF visitors[k] = None THEN cfg.burst * cfg.window ELSE Tokens(visitors[k])

TB == INSTANCE TokenBucket WITH
        cfg     <- [requests |-> cfg.requests, window |-> cfg.window,
                    burst |-> cfg.burst, idle |-> IdleTime],
        level   <- [k \in Key |-> Level(k)],
        allowed <- [k \in Key |-> Len(granted[k])],
        refused <- refused

\* A client is let through exactly when a bucket kept for it for ever would
\* let it through, and turned away exactly when that bucket is empty: what
\* cleanup forgets, nobody can tell (rate_limit.go 62-101).
ImplementsTokenBucket == TB!Spec
=============================================================================
