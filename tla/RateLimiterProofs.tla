------------------------- MODULE RateLimiterProofs -------------------------
(***************************************************************************)
(* Theorems about RateLimiter, for every set of clients, of requests in    *)
(* flight and of configurations, as long as no request is kept from its    *)
(* Allow for longer than its visitor is remembered.                        *)
(***************************************************************************)
EXTENDS RateLimiter, TLAPS

\* The scheduler keeps a request from Allow for two windows at most.
ShortStall == \A c \in Configs : Stall <= 2 * WithDefaults(c).window

(***************************************************************************)
(* The inductive invariant.                                                *)
(***************************************************************************)

\* Nothing is dated later than now; a request is at most Stall ticks behind its
\* visitor's lastSeen, and so is whatever it did.
ClockInv ==
    /\ \A b \in Bucket : bucket[b].last <= now
    /\ \A k \in Key : lastSeen[k] <= now
    /\ \A q \in InFlight : /\ req[q].since <= lastSeen[req[q].key]
                           /\ now <= req[q].since + Stall
    /\ \A k \in Key : visitors[k] # None => bucket[visitors[k]].last <= lastSeen[k] + Stall
    /\ \A k \in Key : \A i \in DOMAIN granted[k] : granted[k][i] <= lastSeen[k] + Stall

IInv ==
    /\ TypeOK
    /\ ClockInv
    /\ OneBucket
    /\ Stall <= 2 * cfg.window

Full == cfg.burst * cfg.window

\* Between a grant and now, a client's grants and what its bucket holds are paid
\* for by the burst and the refill.
Paid(k, i) ==
    Refills \/ now - granted[k][i] <= IdleTime =>
        Level(k) + (Len(granted[k]) - i + 1) * cfg.window
            <= Full + cfg.requests * (now - granted[k][i])

PaidInv == \A k \in Key : \A i \in DOMAIN granted[k] : Paid(k, i)

-----------------------------------------------------------------------------
(***************************************************************************)
(* The map and its buckets.                                                *)
(***************************************************************************)
Held == [key : Key, bucket : Bucket, since : 0..MaxTime]

LEMMA HeldFacts == Idle \notin Held
  BY RateAssumption DEF RateAssumption, Held, Idle

\* The request in a slot.
LEMMA SlotFacts ==
  ASSUME TypeOK, NEW q \in Request
  PROVE  /\ q \in InFlight <=> req[q] # Idle
         /\ q \in InFlight => /\ req[q] \in Held /\ req[q].key \in Key
                              /\ req[q].bucket \in Bucket /\ req[q].since \in 0..MaxTime
  BY DEF TypeOK, InFlight, Held

\* The types of the numbers.
LEMMA Numbers ==
  ASSUME TypeOK
  PROVE  /\ now \in 0..MaxTime /\ now \in Nat /\ MaxTime \in Nat /\ Stall \in Nat
         /\ cfg.requests \in Nat \ {0} /\ cfg.window \in Nat \ {0} /\ cfg.burst \in Nat \ {0}
         /\ \A b \in Bucket : bucket[b].tokens \in Nat /\ bucket[b].last \in Nat
         /\ \A k \in Key : lastSeen[k] \in Nat /\ refused[k] \in Nat
         /\ \A k \in Key : /\ granted[k] \in Seq(0..MaxTime) /\ Len(granted[k]) \in Nat
                           /\ DOMAIN granted[k] = 1..Len(granted[k])
                           /\ \A i \in DOMAIN granted[k] : granted[k][i] \in Nat
  <1> USE RateAssumption DEF RateAssumption
  <1>1. now \in 0..MaxTime /\ now \in Nat /\ MaxTime \in Nat /\ Stall \in Nat
    BY DEF TypeOK
  <1>2. cfg.requests \in Nat \ {0} /\ cfg.window \in Nat \ {0} /\ cfg.burst \in Nat \ {0}
    BY DEF TypeOK
  <1>3. \A b \in Bucket : bucket[b].tokens \in Nat /\ bucket[b].last \in Nat
    BY DEF TypeOK
  <1>4. \A k \in Key : lastSeen[k] \in Nat /\ refused[k] \in Nat
    BY DEF TypeOK
  <1>5. \A k \in Key : granted[k] \in Seq(0..MaxTime)
    BY DEF TypeOK
  <1>6. ASSUME NEW s \in Seq(0..MaxTime)
        PROVE  /\ Len(s) \in Nat /\ DOMAIN s = 1..Len(s)
               /\ \A i \in DOMAIN s : s[i] \in Nat
    <2>1. Len(s) \in Nat /\ DOMAIN s = 1..Len(s)
      OBVIOUS
    <2>2. \A i \in 1..Len(s) : s[i] \in 0..MaxTime
      OBVIOUS
    <2> QED
      BY <2>1, <2>2
  <1> QED
    BY <1>1, <1>2, <1>3, <1>4, <1>5, <1>6

LEMMA InitOK ==
  ASSUME Init, ShortStall
  PROVE  IInv
  <1> USE RateAssumption DEF RateAssumption
  <1>1. PICK c \in Configs : cfg = WithDefaults(c)
    BY DEF Init
  <1>2. c \in [requests : Int, window : Int, burst : Int]
    OBVIOUS
  <1>3. cfg \in [requests : Nat \ {0}, window : Nat \ {0}, burst : Nat \ {0}]
    <2>1. c.requests \in Int /\ c.window \in Int /\ c.burst \in Int
      BY <1>2
    <2> QED
      BY <1>1, <2>1 DEF WithDefaults
  <1>4. TypeOK
    <2>1. MaxTime \in Nat
      OBVIOUS
    <2>2. now = 0 /\ 0 \in 0..MaxTime
      BY <2>1 DEF Init
    <2>3. ticked \in BOOLEAN
      BY DEF Init
    <2>4. /\ visitors \in [Key -> Bucket \cup {None}]
          /\ \A k, l \in Key : visitors[k] = visitors[l] => k = l \/ visitors[k] = None
      BY DEF Init
    <2>5. lastSeen \in [Key -> 0..MaxTime] /\ refused \in [Key -> Nat]
      BY <2>2 DEF Init
    <2>6. bucket \in [Bucket -> [tokens : Nat, last : 0..MaxTime]]
      BY <2>2 DEF Init
    <2>7. req \in [Request -> {Idle} \cup Held]
      BY DEF Init
    <2>8. granted \in [Key -> Seq(0..MaxTime)]
      BY DEF Init
    <2> QED
      BY <1>3, <2>2, <2>4, <2>5, <2>6, <2>7, <2>8, <2>3 DEF TypeOK, Held
  <1>5. InFlight = {}
    BY DEF Init, InFlight
  <1>6. ClockInv
    <2>1. \A k \in Key : DOMAIN granted[k] = {}
      BY DEF Init
    <2> QED
      BY <1>5, <2>1 DEF Init, ClockInv
  <1> QED
    BY <1>1, <1>4, <1>5, <1>6 DEF IInv, OneBucket, ShortStall

LEMMA GetVisitorOK ==
  ASSUME IInv, NEW q \in Request, NEW k \in Key, getVisitor(q, k)
  PROVE  IInv'
  <1> USE RateAssumption DEF RateAssumption
  <1>1. /\ req[q] = Idle /\ lastSeen' = [lastSeen EXCEPT ![k] = now]
        /\ UNCHANGED <<cfg, now, ticked, granted, refused>>
    BY DEF getVisitor, Seen
  <1>2. TypeOK /\ now \in 0..MaxTime
    BY DEF IInv, TypeOK
  <1>3. \E b \in Bucket :
           /\ req' = [req EXCEPT ![q] = [key |-> k, bucket |-> b, since |-> now]]
           /\ visitors' = [visitors EXCEPT ![k] = b]
           /\ \A l \in Key : visitors[l] = b => l = k
           /\ bucket' \in [Bucket -> [tokens : Nat, last : 0..MaxTime]]
           /\ \A a \in Bucket : bucket'[a] = bucket[a] \/ (a = b /\ bucket'[a].last = now)
           /\ visitors[k] \in {b, None}
    <2>1. CASE visitors[k] # None /\ UNCHANGED <<visitors, bucket>> /\
               req' = [req EXCEPT ![q] = [key |-> k, bucket |-> visitors[k], since |-> now]]
      <3>1. visitors[k] \in Bucket
        BY <1>2, <2>1 DEF TypeOK
      <3>2. visitors' = [visitors EXCEPT ![k] = visitors[k]]
        BY <1>2, <2>1 DEF TypeOK
      <3>3. \A l \in Key : visitors[l] = visitors[k] => l = k
        BY <1>2, <2>1 DEF TypeOK
      <3> QED
        BY <1>2, <2>1, <3>1, <3>2, <3>3 DEF TypeOK
    <2>2. CASE visitors[k] = None /\ \E b \in Unused :
                  /\ bucket' = [bucket EXCEPT ![b] = NewLimiter]
                  /\ visitors' = [visitors EXCEPT ![k] = b]
                  /\ req' = [req EXCEPT ![q] = [key |-> k, bucket |-> b, since |-> now]]
      <3>1. PICK b \in Unused :
                  /\ bucket' = [bucket EXCEPT ![b] = NewLimiter]
                  /\ visitors' = [visitors EXCEPT ![k] = b]
                  /\ req' = [req EXCEPT ![q] = [key |-> k, bucket |-> b, since |-> now]]
        BY <2>2
      <3>2. b \in Bucket /\ \A l \in Key : visitors[l] # b
        BY <1>2 DEF Unused, Range, TypeOK
      <3>3. NewLimiter \in [tokens : Nat, last : 0..MaxTime] /\ NewLimiter.last = now
        BY <1>2 DEF NewLimiter, TypeOK
      <3> QED
        BY <1>2, <2>2, <3>1, <3>2, <3>3 DEF TypeOK
    <2> QED
      BY <2>1, <2>2 DEF getVisitor
  <1>4. PICK b \in Bucket :
           /\ req' = [req EXCEPT ![q] = [key |-> k, bucket |-> b, since |-> now]]
           /\ visitors' = [visitors EXCEPT ![k] = b]
           /\ \A l \in Key : visitors[l] = b => l = k
           /\ bucket' \in [Bucket -> [tokens : Nat, last : 0..MaxTime]]
           /\ \A a \in Bucket : bucket'[a] = bucket[a] \/ (a = b /\ bucket'[a].last = now)
           /\ visitors[k] \in {b, None}
    BY <1>3
  <1>5. [key |-> k, bucket |-> b, since |-> now] \in Held
    BY <1>2 DEF Held
  <1>6. TypeOK'
    <2>1. lastSeen' \in [Key -> 0..MaxTime]
      BY <1>1, <1>2 DEF TypeOK
    <2>2. req' \in [Request -> {Idle} \cup Held]
      BY <1>2, <1>4, <1>5 DEF TypeOK, Held
    <2>3. visitors' \in [Key -> Bucket \cup {None}]
      BY <1>2, <1>4 DEF TypeOK
    <2>4. \A l, m \in Key : visitors'[l] = visitors'[m] => l = m \/ visitors'[l] = None
      BY <1>2, <1>4 DEF TypeOK
    <2> QED
      BY <1>1, <1>2, <1>4, <2>1, <2>2, <2>3, <2>4 DEF TypeOK, Held
  <1>7. ASSUME NEW p \in InFlight'
        PROVE  \/ p = q /\ req'[p].key = k /\ req'[p].bucket = b /\ req'[p].since = now
               \/ p # q /\ p \in InFlight /\ req'[p] = req[p]
    BY <1>2, <1>4, <1>7 DEF InFlight, TypeOK
  <1>8. ClockInv'
    <2>1. \A a \in Bucket : bucket'[a].last <= now
      <3>1. \A a \in Bucket : bucket[a].last <= now
        BY DEF IInv, ClockInv
      <3>2. now <= now
        BY <1>2, Numbers
      <3> QED
        BY <1>4, <3>1, <3>2
    <2>2. \A l \in Key : lastSeen[l] <= lastSeen'[l] /\ lastSeen'[l] <= now
      BY <1>1, <1>2 DEF IInv, ClockInv, TypeOK
    <2>3. lastSeen'[k] = now
      BY <1>1, <1>2 DEF TypeOK
    <2>4. ASSUME NEW p \in InFlight'
          PROVE  req'[p].since <= lastSeen'[req'[p].key] /\ now <= req'[p].since + Stall
      <3>1. CASE p = q
        BY <1>2, <1>7, <2>3, <2>4, <3>1
      <3>2. CASE p # q
        <4>1. p \in InFlight /\ req'[p] = req[p] /\ p \in Request
          BY <1>7, <2>4, <3>2 DEF InFlight
        <4>2. req[p].key \in Key /\ req[p].since \in 0..MaxTime
          BY <1>2, <4>1, SlotFacts
        <4>3. req[p].since <= lastSeen[req[p].key] /\ now <= req[p].since + Stall
          BY <4>1 DEF IInv, ClockInv
        <4>4. lastSeen[req[p].key] \in Nat /\ lastSeen'[req[p].key] \in Nat
          BY <1>1, <1>2, <4>2, Numbers DEF TypeOK
        <4> QED
          BY <2>2, <4>1, <4>2, <4>3, <4>4
      <3> QED
        BY <3>1, <3>2
    <2>5. ASSUME NEW l \in Key, visitors'[l] # None
          PROVE  bucket'[visitors'[l]].last <= lastSeen'[l] + Stall
      <3>1. lastSeen[l] \in Nat /\ lastSeen'[l] \in Nat
        BY <1>2, <1>6 DEF TypeOK
      <3>2. CASE l = k
        BY <1>2, <1>4, <2>1, <2>3, <3>2 DEF TypeOK
      <3>3. CASE l # k
        <4>1. visitors'[l] = visitors[l] /\ visitors[l] \in Bucket /\ visitors[l] # b
          BY <1>2, <1>4, <2>5, <3>3 DEF TypeOK
        <4>2. bucket'[visitors[l]] = bucket[visitors[l]]
          BY <1>4, <4>1
        <4>3. bucket[visitors[l]].last <= lastSeen[l] + Stall
          BY <2>5, <4>1 DEF IInv, ClockInv
        <4>4. bucket[visitors[l]].last \in Nat
          BY <1>2, <4>1 DEF TypeOK
        <4> QED
          BY <2>2, <3>1, <4>1, <4>2, <4>3, <4>4
      <3> QED
        BY <3>2, <3>3
    <2>6. ASSUME NEW l \in Key, NEW i \in DOMAIN granted[l]
          PROVE  granted[l][i] <= lastSeen'[l] + Stall
      <3>1. granted[l][i] <= lastSeen[l] + Stall /\ granted[l][i] \in Nat
        BY <1>2, <2>6, Numbers DEF IInv, ClockInv
      <3>2. lastSeen[l] \in Nat /\ lastSeen'[l] \in Nat
        BY <1>2, <1>6 DEF TypeOK
      <3> QED
        BY <2>2, <3>1, <3>2
    <2> QED
      BY <1>1, <2>1, <2>2, <2>4, <2>5, <2>6 DEF ClockInv
  <1>9. OneBucket'
    <2> SUFFICES ASSUME NEW p \in InFlight' PROVE visitors'[req'[p].key] = req'[p].bucket
      BY DEF OneBucket
    <2>1. CASE p = q
      BY <1>2, <1>4, <1>7, <2>1 DEF TypeOK
    <2>2. CASE p # q
      <3>1. p \in InFlight /\ req'[p] = req[p] /\ p \in Request
        BY <1>7, <2>2 DEF InFlight
      <3>2. visitors[req[p].key] = req[p].bucket /\ req[p].key \in Key /\ req[p].bucket \in Bucket
        BY <1>2, <3>1, SlotFacts DEF IInv, OneBucket
      <3>3. visitors'[req[p].key] = visitors[req[p].key]
        BY <1>2, <1>4, <3>2 DEF TypeOK
      <3> QED
        BY <3>1, <3>2, <3>3
    <2> QED
      BY <2>1, <2>2
  <1> QED
    BY <1>1, <1>6, <1>8, <1>9 DEF IInv

-----------------------------------------------------------------------------
(***************************************************************************)
(* What a bucket holds.                                                    *)
(***************************************************************************)
Cap(t, f) == IF t > f THEN f ELSE t

LEMMA FullNat ==
  ASSUME TypeOK
  PROVE  Full \in Nat
  BY Numbers DEF Full

LEMMA TokensAre ==
  ASSUME IInv, NEW b \in Bucket
  PROVE  /\ Tokens(b) = Cap(bucket[b].tokens + (now - bucket[b].last) * cfg.requests, Full)
         /\ Tokens(b) \in Nat /\ Tokens(b) <= Full
         /\ (now - bucket[b].last) * cfg.requests \in Nat
  <1>1. TypeOK /\ bucket[b].last <= now
    BY DEF IInv, ClockInv
  <1>2. now - bucket[b].last \in Nat /\ bucket[b].tokens \in Nat /\ cfg.requests \in Nat
    BY <1>1, Numbers
  <1>3. (now - bucket[b].last) * cfg.requests \in Nat
    BY <1>2
  <1>4. Full \in Nat
    BY <1>1, FullNat
  <1>5. Tokens(b) = Cap(bucket[b].tokens + (now - bucket[b].last) * cfg.requests, Full)
    BY DEF Tokens, Cap, Full
  <1> DEFINE t == bucket[b].tokens + (now - bucket[b].last) * cfg.requests
  <1>6. t \in Nat
    BY <1>2, <1>3
  <1>7. Cap(t, Full) \in Nat /\ Cap(t, Full) <= Full
    BY <1>4, <1>6 DEF Cap
  <1> QED
    BY <1>3, <1>5, <1>7

LEMMA LevelNat ==
  ASSUME IInv, NEW k \in Key
  PROVE  Level(k) \in Nat /\ Level(k) <= Full
  <1>1. CASE visitors[k] = None
    <2>1. Full \in Nat /\ Level(k) = Full
      BY <1>1, FullNat DEF IInv, Level, Full
    <2> QED
      BY <2>1
  <1>2. CASE visitors[k] # None
    <2>1. visitors[k] \in Bucket
      BY <1>2 DEF IInv, TypeOK
    <2> QED
      BY <1>2, <2>1, TokensAre DEF Level
  <1> QED
    BY <1>1, <1>2

-----------------------------------------------------------------------------
(***************************************************************************)
(* Allow takes a token of the visitor's bucket: it is the one in hand.     *)
(***************************************************************************)
LEMMA AllowOK ==
  ASSUME IInv, NEW q \in Request, Allow(q)
  PROVE  IInv'
  <1> USE RateAssumption DEF RateAssumption
  <1> PICK b : b = req[q].bucket
    OBVIOUS
  <1> PICK k : k = req[q].key
    OBVIOUS
  <1>1. /\ q \in InFlight /\ req' = [req EXCEPT ![q] = Idle]
        /\ UNCHANGED <<cfg, now, ticked, visitors, lastSeen>>
    BY DEF Allow, InFlight
  <1>2. TypeOK
    BY DEF IInv
  <1>3. k \in Key /\ b \in Bucket /\ visitors[k] = b
    BY <1>1, <1>2, SlotFacts DEF IInv, OneBucket
  <1>4. now <= lastSeen[k] + Stall
    <2>1. req[q].since <= lastSeen[k] /\ now <= req[q].since + Stall
      BY <1>1 DEF IInv, ClockInv
    <2>2. req[q].since \in 0..MaxTime
      BY <1>1, <1>2, SlotFacts
    <2> QED
      BY <1>2, <1>3, <2>1, <2>2, Numbers
  <1>5. /\ bucket' \in [Bucket -> [tokens : Nat, last : 0..MaxTime]]
        /\ \A a \in Bucket : bucket'[a] = bucket[a] \/ (a = b /\ bucket'[a].last = now)
        /\ granted' \in [Key -> Seq(0..MaxTime)]
        /\ \A l \in Key : granted'[l] = granted[l] \/ (l = k /\ granted'[l] = Append(granted[l], now))
        /\ refused' \in [Key -> Nat]
    <2>1. CASE /\ Tokens(b) >= cfg.window
               /\ bucket' = [bucket EXCEPT ![b] = [tokens |-> Tokens(b) - cfg.window, last |-> now]]
               /\ granted' = [granted EXCEPT ![k] = Append(@, now)]
               /\ UNCHANGED refused
      <3>1. Tokens(b) - cfg.window \in Nat
        BY <1>2, <1>3, <2>1, TokensAre, Numbers
      <3>2. now \in 0..MaxTime
        BY <1>2, Numbers
      <3>3. [tokens |-> Tokens(b) - cfg.window, last |-> now] \in [tokens : Nat, last : 0..MaxTime]
        BY <3>1, <3>2
      <3>4. bucket' \in [Bucket -> [tokens : Nat, last : 0..MaxTime]]
        BY <1>2, <2>1, <3>3 DEF TypeOK
      <3>5. \A a \in Bucket : bucket'[a] = bucket[a] \/ (a = b /\ bucket'[a].last = now)
        BY <1>2, <2>1 DEF TypeOK
      <3>6. granted' \in [Key -> Seq(0..MaxTime)]
        <4>1. \A s \in Seq(0..MaxTime) : Append(s, now) \in Seq(0..MaxTime)
          BY <3>2
        <4> HIDE DEF RateAssumption
        <4>2. granted \in [Key -> Seq(0..MaxTime)]
          BY <1>2 DEF TypeOK
        <4> QED
          BY <2>1, <4>1, <4>2
      <3>7. \A l \in Key : granted'[l] = granted[l] \/ (l = k /\ granted'[l] = Append(granted[l], now))
        BY <1>2, <2>1 DEF TypeOK
      <3> QED
        BY <1>2, <2>1, <3>4, <3>5, <3>6, <3>7 DEF TypeOK
    <2>2. CASE /\ refused' = [refused EXCEPT ![k] = @ + 1]
               /\ UNCHANGED <<bucket, granted>>
      <3>1. refused' \in [Key -> Nat]
        <4>1. refused \in [Key -> Nat]
          BY <1>2 DEF TypeOK
        <4>2. refused[k] + 1 \in Nat
          BY <1>3, <4>1
        <4> QED
          BY <2>2, <4>1, <4>2
      <3>2. /\ bucket' \in [Bucket -> [tokens : Nat, last : 0..MaxTime]]
            /\ granted' \in [Key -> Seq(0..MaxTime)]
        BY <1>2, <2>2 DEF TypeOK
      <3> QED
        BY <2>2, <3>1, <3>2
    <2> QED
      BY <2>1, <2>2 DEF Allow
  <1>6. TypeOK'
    <2>1. req' \in [Request -> {Idle} \cup Held]
      BY <1>1, <1>2 DEF TypeOK, Held
    <2> QED
      BY <1>1, <1>2, <1>5, <2>1 DEF TypeOK, Held
  <1>7. \A p \in InFlight' : p \in InFlight /\ req'[p] = req[p]
    BY <1>1, <1>2 DEF InFlight, TypeOK
  <1>8. ClockInv'
    <2>1. \A a \in Bucket : bucket'[a].last <= now
      <3>1. \A a \in Bucket : bucket[a].last <= now
        BY DEF IInv, ClockInv
      <3>2. now <= now
        BY <1>2, Numbers
      <3> QED
        BY <1>5, <3>1, <3>2
    <2>2. ASSUME NEW l \in Key, visitors[l] # None
          PROVE  bucket'[visitors[l]].last <= lastSeen[l] + Stall
      <3>1. bucket[visitors[l]].last <= lastSeen[l] + Stall /\ visitors[l] \in Bucket
        BY <1>2, <2>2 DEF IInv, ClockInv, TypeOK
      <3>2. visitors[l] = b => l = k
        BY <1>2, <1>3, <2>2 DEF TypeOK
      <3> QED
        BY <1>4, <1>5, <3>1, <3>2
    <2>3. ASSUME NEW l \in Key, NEW i \in DOMAIN granted'[l]
          PROVE  granted'[l][i] <= lastSeen[l] + Stall
      <3>1. \A j \in DOMAIN granted[l] : granted[l][j] <= lastSeen[l] + Stall
        BY DEF IInv, ClockInv
      <3>2. CASE granted'[l] = granted[l]
        BY <2>3, <3>1, <3>2
      <3>3. CASE l = k /\ granted'[l] = Append(granted[l], now)
        <4>1. granted[l] \in Seq(0..MaxTime)
          BY <1>2, Numbers
        <4>2. i \in 1..(Len(granted[l]) + 1)
          BY <2>3, <3>3, <4>1
        <4>3. i = Len(granted[l]) + 1 => granted'[l][i] = now
          BY <3>3, <4>1
        <4>4. i # Len(granted[l]) + 1 => i \in DOMAIN granted[l] /\ granted'[l][i] = granted[l][i]
          <5>1. Len(granted[l]) \in Nat /\ DOMAIN granted[l] = 1..Len(granted[l])
            BY <4>1
          <5>2. \A j \in 1..Len(granted[l]) : granted'[l][j] = granted[l][j]
            BY <3>3, <4>1
          <5> QED
            BY <4>2, <5>1, <5>2
        <4> QED
          BY <1>4, <3>1, <3>3, <4>3, <4>4
      <3> QED
        BY <1>5, <3>2, <3>3
    <2> QED
      BY <1>1, <1>7, <2>1, <2>2, <2>3 DEF IInv, ClockInv
  <1>9. OneBucket'
    BY <1>1, <1>7 DEF IInv, OneBucket
  <1> QED
    BY <1>1, <1>6, <1>8, <1>9 DEF IInv

(***************************************************************************)
(* cleanup forgets nobody who holds a bucket.                              *)
(***************************************************************************)
LEMMA StaleIsIdle ==
  ASSUME IInv, NEW k \in Key, Stale(k)
  PROVE  \A q \in InFlight : req[q].key # k
  <1> SUFFICES ASSUME NEW q \in InFlight, req[q].key = k PROVE FALSE
    OBVIOUS
  <1>1. q \in Request /\ req[q].since \in 0..MaxTime
    BY SlotFacts DEF IInv, InFlight
  <1>2. req[q].since <= lastSeen[k] /\ now <= req[q].since + Stall
    BY DEF IInv, ClockInv
  <1>3. lastSeen[k] < now - cfg.window * 2 /\ Stall <= 2 * cfg.window
    BY DEF Stale, IInv
  <1>4. /\ now \in Nat /\ lastSeen[k] \in Nat /\ Stall \in Nat /\ cfg.window \in Nat
        /\ req[q].since \in Nat
    BY <1>1, Numbers DEF IInv
  <1> QED
    BY <1>2, <1>3, <1>4

LEMMA CleanupOK ==
  ASSUME IInv, cleanup
  PROVE  IInv'
  <1>1. /\ visitors' = [k \in Key |-> IF Stale(k) THEN None ELSE visitors[k]]
        /\ ticked' = FALSE
        /\ UNCHANGED <<cfg, now, lastSeen, bucket, req, granted, refused>>
    BY DEF cleanup
  <1>2. TypeOK'
    <2>1. TypeOK
      BY DEF IInv
    <2>2. visitors' \in [Key -> Bucket \cup {None}]
      BY <1>1, <2>1 DEF TypeOK
    <2>3. \A k, l \in Key : visitors'[k] = visitors'[l] => k = l \/ visitors'[k] = None
      BY <1>1, <2>1 DEF TypeOK
    <2>4. ticked' \in BOOLEAN
      BY <1>1
    <2> QED
      BY <1>1, <2>1, <2>2, <2>3, <2>4 DEF TypeOK
  <1>3. InFlight' = InFlight
    BY <1>1 DEF InFlight
  <1>4. ClockInv'
    <2>1. \A k \in Key : visitors'[k] # None => visitors'[k] = visitors[k]
      BY <1>1
    <2> QED
      BY <1>1, <1>3, <2>1 DEF IInv, ClockInv
  <1>5. OneBucket'
    <2> SUFFICES ASSUME NEW q \in InFlight PROVE visitors'[req[q].key] = req[q].bucket
      BY <1>1, <1>3 DEF OneBucket
    <2>1. req[q].key \in Key
      BY SlotFacts DEF IInv, InFlight
    <2>2. ~Stale(req[q].key)
      BY <2>1, StaleIsIdle
    <2> QED
      BY <1>1, <2>1, <2>2 DEF IInv, OneBucket
  <1> QED
    BY <1>1, <1>2, <1>4, <1>5 DEF IInv

LEMMA TickOK ==
  ASSUME IInv, Tick
  PROVE  IInv'
  <1>1. /\ now' = now + 1 /\ now < MaxTime
        /\ \A q \in InFlight : now - req[q].since < Stall
        /\ UNCHANGED <<cfg, visitors, lastSeen, bucket, req, granted, refused>>
    BY DEF Tick
  <1>2. TypeOK
    BY DEF IInv
  <1>3. TypeOK'
    <2>1. now' \in 0..MaxTime
      BY <1>1, <1>2, Numbers
    <2>2. ticked' \in BOOLEAN
      <3>1. ticked' = (ticked \/ (now + 1) % cfg.window = 0)
        BY DEF Tick
      <3> QED
        BY <3>1
    <2> QED
      BY <1>1, <1>2, <2>1, <2>2 DEF TypeOK
  <1>4. InFlight' = InFlight
    BY <1>1 DEF InFlight
  <1>5. ClockInv'
    <2>1. \A b \in Bucket : bucket[b].last <= now'
      BY <1>1, <1>2, Numbers DEF IInv, ClockInv
    <2>2. \A k \in Key : lastSeen[k] <= now'
      BY <1>1, <1>2, Numbers DEF IInv, ClockInv
    <2>3. ASSUME NEW q \in InFlight
          PROVE  req[q].since <= lastSeen[req[q].key] /\ now' <= req[q].since + Stall
      <3>1. q \in Request /\ req[q].since \in 0..MaxTime
        BY <1>2, SlotFacts DEF InFlight
      <3>2. now' <= req[q].since + Stall
        BY <1>1, <1>2, <3>1, Numbers
      <3> QED
        BY <3>2 DEF IInv, ClockInv
    <2> QED
      BY <1>1, <1>4, <2>1, <2>2, <2>3 DEF IInv, ClockInv
  <1>6. OneBucket'
    BY <1>1, <1>4 DEF IInv, OneBucket
  <1> QED
    BY <1>1, <1>3, <1>5, <1>6 DEF IInv

-----------------------------------------------------------------------------
LEMMA StutterOK == IInv /\ UNCHANGED vars => IInv'
  BY DEF IInv, vars, TypeOK, ClockInv, OneBucket, InFlight

LEMMA NextOK == IInv /\ [Next]_vars => IInv'
  BY GetVisitorOK, AllowOK, CleanupOK, TickOK, StutterOK DEF Next

\* The inductive invariant.
THEOREM Invariant == ASSUME ShortStall PROVE Spec => []IInv
  <1>1. Init => IInv
    BY InitOK
  <1> QED
    BY <1>1, NextOK, PTL DEF Spec

\* Types, and one bucket for each client: two requests of a client never draw on
\* two buckets, although cleanup may run between getVisitor and Allow.
THEOREM OneBucketEach == ASSUME ShortStall PROVE Spec => []BucketInv
  <1>1. IInv => BucketInv
    BY DEF IInv, BucketInv
  <1> QED
    BY <1>1, Invariant, PTL

-----------------------------------------------------------------------------
(***************************************************************************)
(* What each step does to the level of each client.                        *)
(***************************************************************************)

LEMMA VisitorLevels ==
  ASSUME IInv, NEW q \in Request, NEW k \in Key, getVisitor(q, k), NEW l \in Key
  PROVE  Level(l)' = Level(l)
  <1> USE RateAssumption DEF RateAssumption
  <1>1. TypeOK /\ TypeOK' /\ UNCHANGED <<cfg, now>>
    BY GetVisitorOK DEF IInv, getVisitor
  <1>2. CASE UNCHANGED <<visitors, bucket>>
    BY <1>1, <1>2 DEF Level, Tokens
  <1>3. CASE visitors[k] = None /\ \E b \in Unused :
                  /\ bucket' = [bucket EXCEPT ![b] = NewLimiter]
                  /\ visitors' = [visitors EXCEPT ![k] = b]
    <2>1. PICK b \in Unused : /\ bucket' = [bucket EXCEPT ![b] = NewLimiter]
                              /\ visitors' = [visitors EXCEPT ![k] = b]
      BY <1>3
    <2>2. b \in Bucket /\ b # None /\ \A m \in Key : visitors[m] # b
      BY <1>1 DEF Unused, Range, TypeOK
    <2>3. CASE l = k
      <3>1. visitors'[l] = b /\ bucket'[b].tokens = Full /\ bucket'[b].last = now
        BY <1>1, <2>1, <2>2, <2>3 DEF TypeOK, NewLimiter, Full
      <3>2. now \in Nat /\ cfg.requests \in Nat /\ Full \in Nat
        BY <1>1, Numbers, FullNat
      <3>3. Level(l)' = Tokens(b)'
        BY <3>1, <2>2 DEF Level
      <3>4. (now - now) * cfg.requests = 0
        BY <3>2
      <3>5. Tokens(b)' = Full
        BY <1>1, <3>1, <3>2, <3>4 DEF Tokens, Full
      <3> QED
        BY <1>3, <2>3, <3>3, <3>5 DEF Level, Full
    <2>4. CASE l # k
      <3>1. visitors'[l] = visitors[l]
        BY <1>1, <2>1, <2>4 DEF TypeOK
      <3>2. visitors[l] # None => visitors[l] \in Bucket /\ bucket'[visitors[l]] = bucket[visitors[l]]
        BY <1>1, <2>1, <2>2 DEF TypeOK
      <3> QED
        BY <1>1, <3>1, <3>2 DEF Level, Tokens
    <2> QED
      BY <2>3, <2>4
  <1> QED
    BY <1>2, <1>3 DEF getVisitor

\* Allow takes a window's worth of units from its client, or finds too few.
LEMMA AllowLevels ==
  ASSUME IInv, NEW q \in Request, Allow(q)
  PROVE  \E k \in Key :
            /\ \A l \in Key \ {k} : Level(l)' = Level(l) /\ granted'[l] = granted[l]
            /\ UNCHANGED <<cfg, now>>
            /\ \/ /\ Level(k) >= cfg.window
                  /\ Level(k)' = Level(k) - cfg.window
                  /\ granted' = [granted EXCEPT ![k] = Append(@, now)]
                  /\ UNCHANGED refused
               \/ /\ Level(k) < cfg.window
                  /\ Level(k)' = Level(k)
                  /\ refused' = [refused EXCEPT ![k] = @ + 1]
                  /\ UNCHANGED granted
  <1> PICK b : b = req[q].bucket
    OBVIOUS
  <1> PICK k : k = req[q].key
    OBVIOUS
  <1>1. TypeOK /\ q \in InFlight /\ UNCHANGED <<cfg, now, visitors>>
    BY DEF IInv, Allow, InFlight
  <1>2. k \in Key /\ b \in Bucket /\ visitors[k] = b /\ b # None
    BY <1>1, SlotFacts, RateAssumption DEF IInv, OneBucket, RateAssumption
  <1>3. Level(k) = Tokens(b)
    BY <1>2 DEF Level
  <1>4. \A l \in Key \ {k} : visitors[l] # None => visitors[l] \in Bucket /\ visitors[l] # b
    BY <1>1, <1>2 DEF TypeOK
  <1>5. CASE /\ Tokens(b) >= cfg.window
             /\ bucket' = [bucket EXCEPT ![b] = [tokens |-> Tokens(b) - cfg.window, last |-> now]]
             /\ granted' = [granted EXCEPT ![k] = Append(@, now)]
             /\ UNCHANGED refused
    <2>1. bucket'[b].tokens = Tokens(b) - cfg.window /\ bucket'[b].last = now
      BY <1>1, <1>2, <1>5 DEF TypeOK
    <2>2. \A l \in Key \ {k} : Level(l)' = Level(l)
      <3> SUFFICES ASSUME NEW l \in Key \ {k} PROVE Level(l)' = Level(l)
        OBVIOUS
      <3>1. visitors[l] # None => bucket'[visitors[l]] = bucket[visitors[l]]
        BY <1>1, <1>4, <1>5 DEF TypeOK
      <3> QED
        BY <1>1, <3>1 DEF Level, Tokens
    <2>3. Level(k)' = Tokens(b)'
      BY <1>1, <1>2 DEF Level
    <2>4. (now - now) * cfg.requests = 0
      BY <1>1, Numbers
    <2>5. Tokens(b) \in Nat /\ Tokens(b) <= Full /\ cfg.window \in Nat /\ Full \in Nat /\ now \in Nat
      BY <1>1, <1>2, TokensAre, Numbers, FullNat
    <2>6. Tokens(b)' = Tokens(b) - cfg.window
      <3>1. Tokens(b)' = IF Tokens(b) - cfg.window + 0 > Full THEN Full
                         ELSE Tokens(b) - cfg.window + 0
        BY <1>1, <2>1, <2>4 DEF Tokens, Full
      <3> QED
        BY <2>5, <3>1
    <2>7. \A l \in Key \ {k} : granted'[l] = granted[l]
      BY <1>1, <1>5 DEF TypeOK
    <2> QED
      BY <1>1, <1>2, <1>3, <1>5, <2>2, <2>3, <2>6, <2>7
  <1>6. CASE /\ Tokens(b) < cfg.window
             /\ refused' = [refused EXCEPT ![k] = @ + 1]
             /\ UNCHANGED <<bucket, granted>>
    <2>1. \A l \in Key : Level(l)' = Level(l)
      BY <1>1, <1>6 DEF Level, Tokens
    <2> QED
      BY <1>1, <1>2, <1>3, <1>6, <2>1
  <1> QED
    BY <1>5, <1>6 DEF Allow

\* More time brings no fewer tokens.
LEMMA TimesMonotone ==
  ASSUME NEW x \in Int, NEW y \in Int, NEW n \in Nat, x <= y
  PROVE  x * n <= y * n
  OBVIOUS

\* cleanup fills the bucket of a visitor it forgets; unless the idle time had
\* filled it anyway.
LEMMA CleanupLevels ==
  ASSUME IInv, cleanup, NEW k \in Key
  PROVE  Level(k)' = Level(k) \/ (~Refills /\ Stale(k) /\ Level(k)' = Full)
  <1> USE RateAssumption DEF RateAssumption
  <1>1. /\ visitors'[k] = IF Stale(k) THEN None ELSE visitors[k]
        /\ UNCHANGED <<cfg, now, bucket>>
    BY DEF cleanup
  <1>2. CASE ~Stale(k) \/ visitors[k] = None
    BY <1>1, <1>2 DEF Level, Tokens
  <1>3. CASE Stale(k) /\ visitors[k] # None
    <2> PICK b \in Bucket : b = visitors[k]
      BY <1>3 DEF IInv, TypeOK
    <2>1. Level(k) = Tokens(b) /\ Level(k)' = Full
      BY <1>1, <1>3 DEF Level, Full
    <2> SUFFICES ASSUME Refills PROVE Tokens(b) = Full
      BY <1>3, <2>1
    <2> PICK d \in Nat : d = now - bucket[b].last
      BY Numbers DEF IInv, ClockInv
    <2>2. d >= IdleTime
      <3>1. bucket[b].last <= lastSeen[k] + Stall
        BY <1>3 DEF IInv, ClockInv
      <3>2. lastSeen[k] < now - cfg.window * 2
        BY <1>3 DEF Stale
      <3>3. /\ now \in Nat /\ lastSeen[k] \in Nat /\ Stall \in Nat /\ cfg.window \in Nat
            /\ bucket[b].last \in Nat
        BY Numbers DEF IInv
      <3> QED
        BY <3>1, <3>2, <3>3 DEF IdleTime
    <2>3. IdleTime \in Int /\ cfg.requests \in Nat /\ Full \in Nat /\ bucket[b].tokens \in Nat
      <3>1. TypeOK
        BY DEF IInv
      <3>2. cfg.requests \in Nat /\ cfg.window \in Nat /\ Stall \in Nat /\ bucket[b].tokens \in Nat
        BY <3>1, Numbers
      <3>3. Full \in Nat
        BY <3>1, FullNat
      <3> QED
        BY <3>2, <3>3 DEF IdleTime
    <2>4. Full <= IdleTime * cfg.requests
      BY DEF Refills, Full
    <2>5. IdleTime * cfg.requests <= d * cfg.requests
      BY ONLY <2>2, <2>3, TimesMonotone
    <2>6. Tokens(b) = Cap(bucket[b].tokens + d * cfg.requests, Full)
      BY TokensAre
    <2> PICK x \in Nat : x = d * cfg.requests
      BY <2>3
    <2> PICK y \in Int : y = IdleTime * cfg.requests
      BY <2>3
    <2> QED
      BY <2>3, <2>4, <2>5, <2>6 DEF Cap
  <1> QED
    BY <1>2, <1>3

\* A tick refills every bucket.
LEMMA TickLevels ==
  ASSUME IInv, Tick, NEW k \in Key
  PROVE  Level(k)' = Cap(Level(k) + cfg.requests, Full)
  <1> USE RateAssumption DEF RateAssumption
  <1>1. now' = now + 1 /\ UNCHANGED <<cfg, visitors, bucket>>
    BY DEF Tick
  <1>2. Full \in Nat /\ cfg.requests \in Nat /\ now \in Nat /\ Full' = Full
    BY <1>1, Numbers, FullNat DEF IInv, Full
  <1>3. CASE visitors[k] = None
    <2>1. Level(k) = Full /\ Level(k)' = Full
      BY <1>1, <1>3 DEF Level, Full
    <2> QED
      BY <1>2, <2>1 DEF Cap
  <1>4. CASE visitors[k] # None
    <2> PICK b \in Bucket : b = visitors[k]
      BY <1>4 DEF IInv, TypeOK
    <2> PICK d \in Nat : d = now - bucket[b].last
      BY Numbers DEF IInv, ClockInv
    <2>1. bucket[b].tokens \in Nat /\ bucket[b].last \in Nat
      BY Numbers DEF IInv
    <2>2. Level(k) = Cap(bucket[b].tokens + d * cfg.requests, Full)
      BY <1>4, TokensAre DEF Level
    <2>3. Level(k)' = Cap(bucket[b].tokens + (d + 1) * cfg.requests, Full)
      <3>1. IInv'
        BY TickOK
      <3>2. Level(k)' = Tokens(b)'
        BY <1>1, <1>4 DEF Level
      <3>3. Tokens(b)' = Cap(bucket[b].tokens + (now' - bucket[b].last) * cfg.requests, Full)
        BY <1>1, <1>2 DEF Tokens, Cap, Full
      <3>4. now' - bucket[b].last = d + 1
        BY <1>1, <1>2, <2>1
      <3> QED
        BY <3>2, <3>3, <3>4
    <2>4. Cap(bucket[b].tokens + (d + 1) * cfg.requests, Full)
            = Cap(Cap(bucket[b].tokens + d * cfg.requests, Full) + cfg.requests, Full)
      <3> PICK t \in Nat : t = bucket[b].tokens
        BY <2>1
      <3> PICK n \in Nat : n = cfg.requests
        BY <1>2
      <3> PICK f \in Nat : f = Full
        BY <1>2
      <3> PICK x \in Nat : x = d * n
        OBVIOUS
      <3>1. (d + 1) * n = x + n
        OBVIOUS
      <3>2. Cap(t + (x + n), f) = Cap(Cap(t + x, f) + n, f)
        BY DEF Cap
      <3> QED
        BY <3>1, <3>2
    <2> QED
      BY <2>2, <2>3, <2>4
  <1> QED
    BY <1>3, <1>4

-----------------------------------------------------------------------------
(***************************************************************************)
(* The limiter implements TokenBucket.                                     *)
(***************************************************************************)
Levels == [k \in Key |-> Level(k)]
Counts == [k \in Key |-> Len(granted[k])]

LEMMA VisitorIsStutter ==
  ASSUME IInv, NEW q \in Request, NEW k \in Key, getVisitor(q, k)
  PROVE  UNCHANGED TB!vars
  <1>1. \A l \in Key : Level(l)' = Level(l)
    BY VisitorLevels
  <1>2. UNCHANGED <<cfg, granted, refused>>
    BY DEF getVisitor
  <1> QED
    BY <1>1, <1>2 DEF TB!vars, IdleTime

LEMMA AllowIsAllow ==
  ASSUME IInv, NEW q \in Request, Allow(q)
  PROVE  TB!Next
  <1>1. PICK k \in Key :
            /\ \A l \in Key \ {k} : Level(l)' = Level(l) /\ granted'[l] = granted[l]
            /\ UNCHANGED <<cfg, now>>
            /\ \/ /\ Level(k) >= cfg.window
                  /\ Level(k)' = Level(k) - cfg.window
                  /\ granted' = [granted EXCEPT ![k] = Append(@, now)]
                  /\ UNCHANGED refused
               \/ /\ Level(k) < cfg.window
                  /\ Level(k)' = Level(k)
                  /\ refused' = [refused EXCEPT ![k] = @ + 1]
                  /\ UNCHANGED granted
    BY AllowLevels
  <1>2. IdleTime' = IdleTime
    BY <1>1 DEF IdleTime
  <1>3. granted \in [Key -> Seq(0..MaxTime)]
    BY DEF IInv, TypeOK
  <1>4. CASE /\ Level(k) >= cfg.window
             /\ Level(k)' = Level(k) - cfg.window
             /\ granted' = [granted EXCEPT ![k] = Append(@, now)]
             /\ UNCHANGED refused
    <2>1. Levels' = [Levels EXCEPT ![k] = @ - cfg.window]
      BY <1>1, <1>4 DEF Levels
    <2>2. Counts' = [Counts EXCEPT ![k] = @ + 1]
      <3>1. Len(granted'[k]) = Len(granted[k]) + 1
        <4>1. granted[k] \in Seq(0..MaxTime) /\ granted'[k] = Append(granted[k], now)
          BY <1>3, <1>4
        <4> QED
          BY <4>1
      <3> QED
        BY <1>1, <3>1 DEF Counts
    <2>3. TB!Allow(k)
      BY <1>1, <1>2, <1>4, <2>1, <2>2 DEF TB!Allow, Levels, Counts
    <2> QED
      BY <2>3 DEF TB!Next
  <1>5. CASE /\ Level(k) < cfg.window
             /\ Level(k)' = Level(k)
             /\ refused' = [refused EXCEPT ![k] = @ + 1]
             /\ UNCHANGED granted
    <2>1. Levels' = Levels /\ Counts' = Counts
      BY <1>1, <1>5 DEF Levels, Counts
    <2>2. TB!Refuse(k)
      BY <1>1, <1>2, <1>5, <2>1 DEF TB!Refuse, Levels, Counts
    <2> QED
      BY <2>2 DEF TB!Next
  <1> QED
    BY <1>1, <1>4, <1>5

\* What cleanup forgets, nobody can tell, or it is TokenBucket's Forget.
LEMMA CleanupIsForget ==
  ASSUME IInv, cleanup
  PROVE  TB!Next \/ UNCHANGED TB!vars
  <1>1. UNCHANGED <<cfg, granted, refused>> /\ IdleTime' = IdleTime
    BY DEF cleanup, IdleTime
  <1>2. CASE \A k \in Key : Level(k)' = Level(k)
    BY <1>1, <1>2 DEF TB!vars
  <1>3. CASE ~\A k \in Key : Level(k)' = Level(k)
    <2> DEFINE ks == {k \in Key : Level(k)' # Level(k)}
    <2>1. ~Refills
      BY <1>3, CleanupLevels
    <2>2. Levels' = [k \in Key |-> IF k \in ks THEN Full ELSE Levels[k]]
      BY CleanupLevels DEF Levels
    <2>3. ~TB!Forgettable
      BY <2>1 DEF TB!Forgettable, TB!Capacity, Refills
    <2>4. TB!Forget(ks)
      BY <1>1, <2>2, <2>3 DEF TB!Forget, TB!Capacity, Full, Levels
    <2> QED
      BY <2>4 DEF TB!Next
  <1> QED
    BY <1>2, <1>3

LEMMA TickIsTick ==
  ASSUME IInv, Tick
  PROVE  TB!Next
  <1>1. UNCHANGED <<cfg, granted, refused>> /\ IdleTime' = IdleTime
    BY DEF Tick, IdleTime
  <1>2. \A k \in Key : Level(k)' = TB!Filled(Level(k))
    BY TickLevels DEF TB!Filled, TB!Capacity, Cap, Full
  <1>3. TB!Tick
    BY <1>1, <1>2 DEF TB!Tick
  <1> QED
    BY <1>3 DEF TB!Next

(***************************************************************************)
(* A client is let through exactly when a bucket kept for it for ever      *)
(* would let it through, and turned away exactly when that bucket is empty *)
(* (rate_limit.go 62-101): recycled buckets and concurrent requests        *)
(* included.                                                               *)
(***************************************************************************)
THEOREM LimiterImplementsTokenBucket ==
  ASSUME ShortStall PROVE Spec => ImplementsTokenBucket
  <1>1. Init => TB!Init
    BY DEF Init, TB!Init, TB!Capacity, Level
  <1>2. IInv /\ [Next]_vars => [TB!Next]_TB!vars
    <2> SUFFICES ASSUME IInv, [Next]_vars PROVE TB!Next \/ UNCHANGED TB!vars
      OBVIOUS
    <2>1. CASE UNCHANGED vars
      BY <2>1 DEF vars, TB!vars, Level, Tokens, IdleTime
    <2> QED
      BY <2>1, VisitorIsStutter, AllowIsAllow, CleanupIsForget, TickIsTick DEF Next
  <1> QED
    BY <1>1, <1>2, Invariant, PTL DEF Spec, ImplementsTokenBucket, TB!Spec

-----------------------------------------------------------------------------
(***************************************************************************)
(* What a client gets through.                                             *)
(***************************************************************************)

\* What a step does to one client.
Step(k) ==
    \/ now' = now /\ granted'[k] = granted[k] /\ Level(k)' = Level(k)
    \/ /\ now' = now /\ granted'[k] = granted[k]
       /\ ~Refills /\ Stale(k)
    \/ /\ now' = now + 1 /\ granted'[k] = granted[k]
       /\ Level(k)' = Cap(Level(k) + cfg.requests, Full)
    \/ /\ now' = now /\ granted'[k] = Append(granted[k], now)
       /\ Level(k) >= cfg.window /\ Level(k)' = Level(k) - cfg.window

LEMMA ClientStep ==
  ASSUME IInv, [Next]_vars, NEW k \in Key
  PROVE  cfg' = cfg /\ Step(k)
  <1>1. ASSUME NEW q \in Request, NEW l \in Key, getVisitor(q, l) PROVE cfg' = cfg /\ Step(k)
    <2>1. Level(k)' = Level(k)
      BY <1>1, VisitorLevels
    <2>2. UNCHANGED <<cfg, now, granted>>
      BY <1>1 DEF getVisitor
    <2> QED
      BY <2>1, <2>2 DEF Step
  <1>2. ASSUME NEW q \in Request, Allow(q) PROVE cfg' = cfg /\ Step(k)
    <2>1. PICK l \in Key :
            /\ \A m \in Key \ {l} : Level(m)' = Level(m) /\ granted'[m] = granted[m]
            /\ UNCHANGED <<cfg, now>>
            /\ \/ /\ Level(l) >= cfg.window
                  /\ Level(l)' = Level(l) - cfg.window
                  /\ granted' = [granted EXCEPT ![l] = Append(@, now)]
                  /\ UNCHANGED refused
               \/ /\ Level(l) < cfg.window
                  /\ Level(l)' = Level(l)
                  /\ refused' = [refused EXCEPT ![l] = @ + 1]
                  /\ UNCHANGED granted
      BY <1>2, AllowLevels
    <2>2. CASE k # l
      BY <2>1, <2>2 DEF Step
    <2>3. CASE k = l /\ UNCHANGED granted
      BY <2>1, <2>3 DEF Step, IInv, TypeOK
    <2>4. CASE k = l /\ ~UNCHANGED granted
      BY <2>1, <2>4 DEF Step, IInv, TypeOK
    <2> QED
      BY <2>2, <2>3, <2>4
  <1>3. CASE cleanup
    <2>1. UNCHANGED <<cfg, now, granted>>
      BY <1>3 DEF cleanup
    <2> QED
      BY <1>3, <2>1, CleanupLevels DEF Step
  <1>4. CASE Tick
    <2>1. now' = now + 1 /\ UNCHANGED <<cfg, granted>>
      BY <1>4 DEF Tick
    <2> QED
      BY <1>4, <2>1, TickLevels DEF Step
  <1>5. CASE UNCHANGED vars
    BY <1>5 DEF vars, Step, Level, Tokens
  <1> QED
    BY <1>1, <1>2, <1>3, <1>4, <1>5 DEF Next

\* Arithmetic of a tick, and of a grant.
LEMMA TickPays ==
  ASSUME NEW l \in Nat, NEW l2 \in Nat, NEW c \in Int, NEW f \in Nat, NEW n \in Nat,
         NEW x \in Int, l2 <= l + n, l + c <= f + n * x
  PROVE  l2 + c <= f + n * (x + 1)
  <1>1. n * (x + 1) = n * x + n /\ n * x \in Int
    OBVIOUS
  <1> QED
    BY <1>1

LEMMA GrantPays ==
  ASSUME NEW l \in Nat, NEW w \in Nat, NEW m \in Int
  PROVE  l - w + (m + 1) * w = l + m * w
  <1>1. (m + 1) * w = m * w + w /\ m * w \in Int
    OBVIOUS
  <1> QED
    BY <1>1

LEMMA LongAgo ==
  ASSUME NEW w \in Nat, NEW g \in Nat, NEW t \in Nat, NEW n \in Nat, NEW st \in Nat,
         g <= t + st, t < n - w * 2
  PROVE  ~(n - g <= 2 * w - st)
  OBVIOUS

LEMMA DropLevel ==
  ASSUME NEW l \in Nat, NEW f \in Nat, NEW x \in Int, NEW y \in Int, l + x <= f + y
  PROVE  x <= f + y
  OBVIOUS

\* A grant that was paid for stays so, and a new one is.
LEMMA PaidOK ==
  ASSUME IInv, IInv', PaidInv, [Next]_vars, NEW k \in Key, NEW i \in DOMAIN granted'[k]
  PROVE  Paid(k, i)'
  <1>1. cfg' = cfg /\ Step(k)
    BY ClientStep
  <1>2. Full' = Full /\ IdleTime' = IdleTime /\ (Refills <=> Refills')
    BY <1>1 DEF Full, IdleTime, Refills
  <1>3. /\ now \in Nat /\ Stall \in Nat /\ lastSeen[k] \in Nat
        /\ cfg.window \in Nat /\ cfg.requests \in Nat
        /\ granted[k] \in Seq(0..MaxTime) /\ Len(granted[k]) \in Nat
        /\ DOMAIN granted[k] = 1..Len(granted[k])
    BY Numbers DEF IInv
  <1>4. Full \in Nat /\ IdleTime \in Int /\ Level(k) \in Nat /\ Level(k) <= Full
    <2>1. Full \in Nat
      BY FullNat DEF IInv
    <2>2. IdleTime \in Int
      BY <1>3 DEF IdleTime
    <2> QED
      BY <2>1, <2>2, LevelNat
  <1>5. ASSUME NEW j \in DOMAIN granted[k]
        PROVE  Paid(k, j) /\ granted[k][j] \in Nat /\ granted[k][j] <= lastSeen[k] + Stall
    <2>1. Paid(k, j)
      BY DEF PaidInv, Paid
    <2>2. granted[k][j] <= lastSeen[k] + Stall
      BY DEF IInv, ClockInv
    <2>3. granted[k][j] \in Nat
      BY Numbers DEF IInv
    <2> QED
      BY <2>1, <2>2, <2>3
  <1>6. CASE now' = now /\ granted'[k] = granted[k] /\ Level(k)' = Level(k)
    BY <1>1, <1>2, <1>5, <1>6 DEF Paid
  <1>7. CASE now' = now /\ granted'[k] = granted[k] /\ ~Refills /\ Stale(k)
    <2>1. granted[k][i] \in Nat /\ granted[k][i] <= lastSeen[k] + Stall
      BY <1>5, <1>7
    <2>2. lastSeen[k] < now - cfg.window * 2
      BY <1>7 DEF Stale
    <2>3. ~(now - granted[k][i] <= IdleTime)
      <3>1. IdleTime = 2 * cfg.window - Stall
        BY DEF IdleTime
      <3> QED
        BY <1>3, <2>1, <2>2, <3>1, LongAgo
    <2> QED
      BY <1>2, <1>7, <2>3 DEF Paid
  <1>8. CASE now' = now + 1 /\ granted'[k] = granted[k] /\ Level(k)' = Cap(Level(k) + cfg.requests, Full)
    <2> SUFFICES ASSUME Refills \/ now' - granted[k][i] <= IdleTime
                 PROVE  Level(k)' + (Len(granted[k]) - i + 1) * cfg.window
                            <= Full + cfg.requests * (now' - granted[k][i])
      BY <1>1, <1>2, <1>8 DEF Paid
    <2>1. Paid(k, i) /\ granted[k][i] \in Nat /\ i \in Nat
      BY <1>3, <1>5, <1>8
    <2> DEFINE x == now - granted[k][i]
               m == Len(granted[k]) - i + 1
               c == m * cfg.window
    <2>2. x \in Int /\ m \in Int /\ now' - granted[k][i] = x + 1
      BY <1>3, <1>8, <2>1
    <2>3. Refills \/ x <= IdleTime
      BY <1>4, <2>2
    <2>4. Level(k) + c <= Full + cfg.requests * x
      BY <2>1, <2>3 DEF Paid
    <2>5. Level(k)' \in Nat /\ Level(k)' <= Level(k) + cfg.requests
      BY <1>3, <1>4, <1>8 DEF Cap
    <2> HIDE DEF x, m
    <2>6. c \in Int
      BY <1>3, <2>2
    <2> HIDE DEF c
    <2>7. Level(k)' + c <= Full + cfg.requests * (x + 1)
      BY <1>3, <1>4, <2>2, <2>4, <2>5, <2>6, TickPays
    <2> QED
      BY <2>2, <2>7 DEF c, m
  <1>9. CASE /\ now' = now /\ granted'[k] = Append(granted[k], now)
             /\ Level(k)' = Level(k) - cfg.window
    <2>1. /\ Len(granted'[k]) = Len(granted[k]) + 1 /\ i \in 1..(Len(granted[k]) + 1)
          /\ granted'[k][i] = IF i <= Len(granted[k]) THEN granted[k][i] ELSE now
      BY <1>3, <1>9
    <2> DEFINE m == Len(granted[k]) - i + 1
    <2>2. m \in Int /\ Len(granted[k]) + 1 - i + 1 = m + 1
      BY <1>3, <2>1
    <2>3. Level(k) - cfg.window + (m + 1) * cfg.window = Level(k) + m * cfg.window
      BY <1>3, <1>4, <2>2, GrantPays
    <2>4. Paid(k, i)' <=> (Refills \/ now - granted'[k][i] <= IdleTime =>
                              Level(k) + m * cfg.window
                                  <= Full + cfg.requests * (now - granted'[k][i]))
      BY <1>1, <1>2, <1>9, <2>1, <2>2, <2>3 DEF Paid
    <2>5. CASE i <= Len(granted[k])
      <3>1. Paid(k, i)
        BY <1>3, <1>5, <2>1, <2>5
      <3> QED
        BY <2>1, <2>4, <2>5, <3>1 DEF Paid
    <2>6. CASE ~(i <= Len(granted[k]))
      <3>1. i = Len(granted[k]) + 1
        BY <1>3, <2>1, <2>6
      <3>2. m = 0
        BY <1>3, <3>1
      <3>3. now - now = 0 /\ 0 * cfg.window = 0 /\ cfg.requests * 0 = 0
        BY <1>3
      <3> HIDE DEF m
      <3> QED
        BY <1>4, <2>1, <2>4, <2>6, <3>2, <3>3
    <2> QED
      BY <2>5, <2>6
  <1> QED
    BY <1>1, <1>6, <1>7, <1>8, <1>9 DEF Step

\* The grants up to a new one were paid for.
LEMMA BoundOK ==
  ASSUME IInv, IInv', PaidInv', RateBound, [Next]_vars
  PROVE  RateBound'
  <1> SUFFICES ASSUME NEW k \in Key, NEW i \in DOMAIN granted'[k], NEW j \in DOMAIN granted'[k],
                      i <= j,
                      (Refills \/ granted[k][j] - granted[k][i] <= IdleTime)'
               PROVE  ((j - i + 1) * cfg.window
                          <= cfg.burst * cfg.window
                                + cfg.requests * (granted[k][j] - granted[k][i]))'
    BY DEF RateBound
  <1>1. cfg' = cfg /\ Step(k)
    BY ClientStep
  <1>2. IdleTime' = IdleTime /\ (Refills <=> Refills')
    BY <1>1 DEF IdleTime, Refills
  <1>3. CASE granted'[k] = granted[k]
    BY <1>1, <1>2, <1>3 DEF RateBound
  <1>4. CASE /\ now' = now /\ granted'[k] = Append(granted[k], now)
             /\ Level(k) >= cfg.window /\ Level(k)' = Level(k) - cfg.window
    <2>1. /\ granted[k] \in Seq(0..MaxTime) /\ Len(granted[k]) \in Nat
          /\ DOMAIN granted[k] = 1..Len(granted[k]) /\ now \in Nat
      BY Numbers DEF IInv
    <2>2. /\ Len(granted'[k]) = Len(granted[k]) + 1
          /\ i \in 1..(Len(granted[k]) + 1) /\ j \in 1..(Len(granted[k]) + 1)
          /\ \A x \in 1..Len(granted[k]) : granted'[k][x] = granted[k][x]
          /\ granted'[k][Len(granted[k]) + 1] = now
      BY <1>4, <2>1
    <2>3. CASE j <= Len(granted[k])
      <3>1. /\ i \in DOMAIN granted[k] /\ j \in DOMAIN granted[k]
            /\ granted'[k][i] = granted[k][i] /\ granted'[k][j] = granted[k][j]
        BY <2>1, <2>2, <2>3
      <3> QED
        BY <1>1, <1>2, <3>1 DEF RateBound
    <2>4. CASE ~(j <= Len(granted[k]))
      <3>1. j = Len(granted'[k]) /\ granted'[k][j] = now'
        BY <1>4, <2>1, <2>2, <2>4
      <3>2. (Level(k) + (Len(granted[k]) - i + 1) * cfg.window
                <= Full + cfg.requests * (now - granted[k][i]))'
        BY <3>1 DEF PaidInv, Paid
      <3>3. Level(k)' \in Nat
        <4>1. Level(k) \in Nat
          BY LevelNat
        <4>2. cfg.window \in Nat
          BY Numbers DEF IInv
        <4> QED
          BY <1>4, <4>1, <4>2
      <3>4. cfg'.window \in Nat /\ cfg'.requests \in Nat /\ Full' \in Nat
        BY <1>1, Numbers, FullNat DEF IInv, Full
      <3>5. granted'[k][i] \in Nat /\ now' \in Nat
        <4>1. \A x \in 1..Len(granted[k]) : granted[k][x] \in Nat
          BY <2>1, Numbers DEF IInv
        <4>2. CASE i \in 1..Len(granted[k])
          BY <1>4, <2>1, <2>2, <4>1, <4>2
        <4>3. CASE i = Len(granted[k]) + 1
          BY <1>4, <2>1, <2>2, <4>3
        <4> QED
          BY <2>1, <2>2, <4>2, <4>3
      <3> DEFINE a == (j - i + 1) * cfg'.window
                 b == cfg'.requests * (now' - granted'[k][i])
      <3>6. a \in Int /\ b \in Int
        <4>1. j - i + 1 \in Int /\ now' - granted'[k][i] \in Int
          BY <2>1, <2>2, <3>5
        <4> QED
          BY <3>4, <4>1
      <3>7. Level(k)' + a <= Full' + b
        BY <3>1, <3>2
      <3> SUFFICES a <= Full' + b
        BY <3>1 DEF Full
      <3> HIDE DEF a, b
      <3> QED
        BY <3>3, <3>4, <3>6, <3>7, DropLevel
    <2> QED
      BY <2>3, <2>4
  <1> QED
    BY <1>1, <1>3, <1>4 DEF Step

\* In any stretch of time a client gets through no more requests than the burst
\* and the refill of that time; with a burst that two idle windows do not refill
\* only in stretches up to those two windows (rate_limit.go 62-101).
THEOREM RateIsBounded == ASSUME ShortStall PROVE Spec => []RateBound
  <1>1. Init => PaidInv /\ RateBound
    <2>1. Init => \A k \in Key : DOMAIN granted[k] = {}
      BY DEF Init
    <2> QED
      BY <2>1 DEF PaidInv, RateBound
  <1>2. IInv /\ IInv' /\ PaidInv /\ [Next]_vars => PaidInv'
    BY PaidOK DEF PaidInv, Paid
  <1>3. IInv /\ IInv' /\ PaidInv' /\ RateBound /\ [Next]_vars => RateBound'
    BY BoundOK
  <1> QED
    BY <1>1, <1>2, <1>3, Invariant, PTL DEF Spec
=============================================================================
