----------------------------- MODULE AuthProofs -----------------------------
(***************************************************************************)
(* Theorems about AuthSession, for every set of users, any number of       *)
(* requests in flight, of token pairs and of calls that fail.              *)
(***************************************************************************)
EXTENDS AuthSession, TLAPS

(***************************************************************************)
(* Requests.                                                               *)
(***************************************************************************)
Issues  == {"Login", "Refresh"}
Routes  == {"Validate", "Patch"}
Bearers == {"Refresh"} \cup Routes

Inval == {"invSession", "invAccess", "delete", "setStatus"}

\* The calls of an issuing request after its first Set: it has a pair.
Late  == {"setRefresh", "setAccess", "setAccessSession", "setStatus"}

\* The calls of each kind of request.
CallInv(q) ==
    /\ q.op = "none"     => q.pc = "idle"
    /\ q.op = "Register" => q.pc \in {"regGet", "regCreate"}
    /\ q.op = "Login"    => q.pc \in {"loginGet", "setSession"} \cup Inval \cup Late
    /\ q.op = "Refresh"  => q.pc \in {"refGet", "refSession", "setSession"} \cup Inval \cup Late
    /\ q.op = "Logout"   => q.pc \in Inval
    /\ q.op \in Routes   => q.pc \in {"valGet", "valSet", "valSetSession", "patch"}

\* A request that undoes what it issued.
Undoing(q) == q.pc = "delete" /\ q.next = "idle"

Two(ks, k, l) == \/ Len(ks) = 2 /\ ks[1] = k /\ ks[2] = l
                 \/ Len(ks) = 1 /\ ks[1] = l

In(k, ks) == \E i \in 1..Len(ks) : ks[i] = k

\* Who is at a call that deletes.
DeleteInv(q) ==
    /\ q.dels # <<>>
    /\ q.next \in {"idle", "invAccess", "setSession", "setStatus"}
    /\ q.next = "idle" => q.op \in Issues
    /\ q.next = "setSession" => q.op \in Issues
    /\ q.next = "setStatus" => q.op = "Logout"
    /\ q.next = "invAccess" =>
          \E p \in Pair :
             /\ Two(q.dels, sessionKey(q.user), refreshKey(p))
             /\ p < nextPair
             /\ \A v \in User : cache[sessionKey(v)] = p =>
                                 v = q.user /\ (faults > 0 \/ Len(q.dels) = 2)
    /\ q.next \in {"setSession", "setStatus"} =>
          \E p \in Pair : Two(q.dels, accessSessionKey(q.user), accessKey(p))

\* What a request at each call has established.
RequestInv(q) ==
    /\ CallInv(q)
    /\ q.pc \in {"idle", "refGet", "valGet"} => q.user = Miss
    /\ q.pc \notin {"idle", "refGet", "valGet"} => q.user \in User
    /\ IF q.op \in Issues /\ (q.pc \in Late \/ Undoing(q))
       THEN q.pair \in Pair /\ q.pair < nextPair /\ q.pair \notin known
       ELSE q.pair = 0
    /\ q.op \in Bearers => q.tok \in known
    /\ IF q.pc = "delete" THEN DeleteInv(q) ELSE q.dels = <<>> /\ q.next = "idle"
    /\ Undoing(q) => faults > 0
    /\ q.pc \in {"setRefresh", "setAccess"} => cache[accessKey(q.pair)] = Miss
    /\ q.op \in Issues \cup Routes /\ q.pc \notin {"loginGet", "refGet", "valGet"} =>
          q.user \in accounts

(***************************************************************************)
(* Pairs.                                                                  *)
(***************************************************************************)

\* Something says that p is u's.
Stored(p, u) ==
    \/ cache[accessKey(p)] = u \/ cache[refreshKey(p)] = u
    \/ cache[sessionKey(u)] = p \/ cache[accessSessionKey(u)] = p

Claim(p, u) ==
    \/ Stored(p, u)
    \/ \E r \in Req : /\ req[r].user = u
                      /\ \/ req[r].pair = p
                         \/ req[r].op \in Bearers /\ req[r].tok = p

\* Nothing says of two users that p is theirs.
OwnerInv ==
    /\ \A r, s \in Req : req[r].pair = req[s].pair /\ req[r].pair # 0 => r = s
    /\ \A p \in Pair, u \in User : Claim(p, u) =>
          /\ p < nextPair
          /\ \A v \in User : Claim(p, v) => u = v
          /\ \A r \in Req : req[r].pair = p => req[r].user = u
    /\ \A p \in known : p < nextPair

\* Pairs whose issue failed.
FailAt(p) ==
    /\ p \notin known /\ p < nextPair
    /\ \A r \in Req : req[r].pair = p => Undoing(req[r])
    /\ faults <= 1 => \A u \in User :
          /\ AccessLive(p, u) =>
                \E r \in Req : req[r].pair = p /\ In(accessKey(p), req[r].dels)
          /\ RefreshLive(p, u) =>
                \E r \in Req : /\ req[r].pair = p
                               /\ \/ In(sessionKey(u), req[r].dels)
                                  \/ In(refreshKey(p), req[r].dels)

FailInv ==
    /\ failed # {} => faults > 0
    /\ \A p \in failed : FailAt(p)

\* Only users with a row have sessions.
AccountInv ==
    /\ \A p \in Pair, u \in User : Stored(p, u) => u \in accounts
    /\ \A u \in User \ accounts : status[u] = "offline"

\* Types, with the cache seen through the four kinds of key.
CacheType ==
    /\ cache \in [Key -> User \cup Pair \cup {Miss}]
    /\ \A u \in User : /\ cache[sessionKey(u)] \in Pair \cup {Miss}
                       /\ cache[accessSessionKey(u)] \in Pair \cup {Miss}
    /\ \A p \in Pair : /\ cache[refreshKey(p)] \in User \cup {Miss}
                       /\ cache[accessKey(p)] \in User \cup {Miss}

Types ==
    /\ accounts \subseteq User
    /\ status \in [User -> Status]
    /\ req \in [Req -> Request]
    /\ nextPair \in 1..(MaxPairs + 1)
    /\ faults \in 0..MaxFaults
    /\ known \subseteq Pair /\ failed \subseteq Pair
    /\ spent \subseteq Pair /\ byHand \subseteq User
    /\ ended \in [User -> {"no", "ending", "yes"}]
    /\ clash \subseteq User /\ checked \subseteq User

IInv ==
    /\ CacheType
    /\ Types
    /\ \A r \in Req : RequestInv(req[r])
    /\ OwnerInv
    /\ SessionHasRefresh
    /\ FailInv
    /\ AccountInv

(***************************************************************************)
(* What the histories say of the requests in flight.                       *)
(***************************************************************************)

\* q is changing u's session; q has read a token of u and not yet written it back.
W(q, u) == /\ q.user = u /\ q.op \in {"Login", "Refresh", "Logout"}
           /\ q.pc \notin {"loginGet", "refSession"}
C(q, u) == q.user = u /\ q.pc \in {"valSet", "valSetSession"}

\* Two that overlap are recorded.
Monitor ==
    \A r, s \in Req, u \in User : W(req[r], u) =>
        /\ W(req[s], u) /\ r # s => u \in clash
        /\ C(req[s], u) => u \in checked

\* An accepted Login or Refresh ends what a Logout began.
EndInv ==
    \A r \in Req, u \in User :
        W(req[r], u) /\ req[r].op \in Issues => ended[u] = "no"

\* Pair p is nobody's session, and never will be.
Gone(p) == p < nextPair /\ \A v \in User : cache[sessionKey(v)] # p

SpentInv ==
    /\ \A p \in spent : Gone(p)
    /\ \A r \in Req : req[r].op = "Refresh" /\ req[r].pc \in Late => Gone(req[r].tok)

\* A Logout that has not yet deleted the session it found.
AtSession(q) == /\ q.op = "Logout"
                /\ \/ q.pc = "invSession"
                   \/ q.pc = "delete" /\ q.next = "invAccess" /\ Len(q.dels) = 2

LogoutInv ==
    faults = 0 => \A u \in User : ended[u] # "no" =>
        \/ cache[sessionKey(u)] = Miss
        \/ \E r \in Req : req[r].user = u /\ AtSession(req[r])

\* Who is shown online.
StatusInv ==
    \A u \in User :
        /\ u \notin byHand /\ ended[u] = "yes" => status[u] = "offline"
        /\ faults = 0 /\ u \notin clash =>
            /\ \A r \in Req : req[r].op = "Logout" /\ req[r].user = u =>
                  AtSession(req[r]) \/ cache[sessionKey(u)] = Miss
            /\ u \notin byHand /\ cache[sessionKey(u)] # Miss =>
                  \/ status[u] = "online"
                  \/ \E r \in Req : /\ req[r].user = u /\ req[r].op \in Issues
                                    /\ req[r].pc \in Late

(***************************************************************************)
(* The access keys of a user of whom nothing overlapped.                   *)
(***************************************************************************)
NoAccess(u) == \A p \in Pair : cache[accessKey(p)] # u
Only(u, p)  == \A x \in Pair : cache[accessKey(x)] = u => x = p
Tracked(u)  == \A p \in Pair : cache[accessKey(p)] = u => cache[accessSessionKey(u)] = p

\* While q changes u's session.
WriterInv(q, u) ==
    /\ \/ q.pc \in {"invSession", "invAccess"}
       \/ q.pc = "delete" /\ q.next = "invAccess"
       \/ q.pc = "setStatus"
       => Tracked(u)
    /\ q.pc = "delete" /\ q.next # "invAccess" =>
          \A p \in Pair : cache[accessKey(p)] = u => In(accessKey(p), q.dels)
    /\ q.pc \in {"setSession", "setRefresh", "setAccess"} => NoAccess(u)
    /\ q.pc = "setStatus" /\ q.op = "Logout" => NoAccess(u)
    /\ q.pc = "setAccessSession" => Only(u, q.pair)

\* While nobody does.
RestInv(u) ==
    /\ \A r \in Req : C(req[r], u) => Only(u, req[r].tok)
    /\ \A r, s \in Req : C(req[r], u) /\ C(req[s], u) => req[r].tok = req[s].tok
    /\ \/ Tracked(u)
       \/ \E r \in Req : C(req[r], u) /\ req[r].pc = "valSetSession"
    /\ ended[u] = "yes" => NoAccess(u) /\ \A r \in Req : ~C(req[r], u)

TrackAt(u) ==
    /\ \A r \in Req : W(req[r], u) => WriterInv(req[r], u)
    /\ (\A r \in Req : ~W(req[r], u)) => RestInv(u)

TrackInv == faults = 0 => \A u \in User \ (clash \cup checked) : TrackAt(u)

HInv == Monitor /\ EndInv /\ SpentInv /\ LogoutInv /\ StatusInv /\ TrackInv

-----------------------------------------------------------------------------
(***************************************************************************)
(* The keys of the cache.                                                  *)
(***************************************************************************)
LEMMA KeyFacts ==
  /\ \A u \in User : /\ sessionKey(u) \in Key /\ accessSessionKey(u) \in Key
                     /\ \A v \in User : /\ sessionKey(u) = sessionKey(v) => u = v
                                        /\ accessSessionKey(u) = accessSessionKey(v) => u = v
                                        /\ sessionKey(u) # accessSessionKey(v)
                     /\ \A p \in Pair : /\ sessionKey(u) # refreshKey(p)
                                        /\ sessionKey(u) # accessKey(p)
                                        /\ accessSessionKey(u) # refreshKey(p)
                                        /\ accessSessionKey(u) # accessKey(p)
  /\ \A p \in Pair : /\ refreshKey(p) \in Key /\ accessKey(p) \in Key
                     /\ \A x \in Pair : /\ refreshKey(p) = refreshKey(x) => p = x
                                        /\ accessKey(p) = accessKey(x) => p = x
                                        /\ refreshKey(p) # accessKey(x)
  BY DEF Key, UserKey, PairKey, sessionKey, accessSessionKey, refreshKey, accessKey

\* There are no others.
LEMMA KeyForms ==
  ASSUME NEW k \in Key
  PROVE  \/ \E u \in User : k = sessionKey(u) /\ k[1] = "session"
         \/ \E u \in User : k = accessSessionKey(u) /\ k[1] = "accessSession"
         \/ \E p \in Pair : k = refreshKey(p) /\ k[1] = "refresh" /\ k[2] = p
         \/ \E p \in Pair : k = accessKey(p) /\ k[1] = "access"
  BY DEF Key, UserKey, PairKey, sessionKey, accessSessionKey, refreshKey, accessKey

\* Miss is neither a user nor a pair.
LEMMA MissFacts == Miss \notin User /\ Miss \notin Pair /\ 0 \notin Pair /\ Pair \subseteq Nat
  BY AuthAssumption DEF AuthAssumption, Pair

LEMMA CacheTypeOK ==
  ASSUME CacheType
  PROVE  /\ DOMAIN cache = Key
         /\ \A k \in UserKey : cache[k] \in Pair \cup {Miss}
         /\ \A k \in PairKey : cache[k] \in User \cup {Miss}
  <1>1. ASSUME NEW k \in UserKey PROVE cache[k] \in Pair \cup {Miss}
    <2>1. \E u \in User : k = sessionKey(u) \/ k = accessSessionKey(u)
      BY DEF UserKey, sessionKey, accessSessionKey
    <2> QED
      BY <2>1 DEF CacheType
  <1>2. ASSUME NEW k \in PairKey PROVE cache[k] \in User \cup {Miss}
    <2>1. \E p \in Pair : k = refreshKey(p) \/ k = accessKey(p)
      BY DEF PairKey, refreshKey, accessKey
    <2> QED
      BY <2>1 DEF CacheType
  <1>3. DOMAIN cache = Key
    BY DEF CacheType
  <1> QED
    BY <1>1, <1>2, <1>3

(***************************************************************************)
(* One key of the cache changes.                                           *)
(***************************************************************************)
LEMMA PutSession ==
  ASSUME CacheType, NEW u \in User, NEW x \in Pair \cup {Miss}, Set(sessionKey(u), x)
  PROVE  /\ CacheType'
         /\ \A v \in User : cache'[sessionKey(v)] = IF v = u THEN x
                                                    ELSE cache[sessionKey(v)]
         /\ \A v \in User : cache'[accessSessionKey(v)] = cache[accessSessionKey(v)]
         /\ \A p \in Pair : /\ cache'[refreshKey(p)] = cache[refreshKey(p)]
                            /\ cache'[accessKey(p)] = cache[accessKey(p)]
  BY KeyFacts DEF Set, CacheType

LEMMA PutAccessSession ==
  ASSUME CacheType, NEW u \in User, NEW x \in Pair \cup {Miss}, Set(accessSessionKey(u), x)
  PROVE  /\ CacheType'
         /\ \A v \in User : cache'[accessSessionKey(v)] = IF v = u THEN x
                                                          ELSE cache[accessSessionKey(v)]
         /\ \A v \in User : cache'[sessionKey(v)] = cache[sessionKey(v)]
         /\ \A p \in Pair : /\ cache'[refreshKey(p)] = cache[refreshKey(p)]
                            /\ cache'[accessKey(p)] = cache[accessKey(p)]
  BY KeyFacts DEF Set, CacheType

LEMMA PutRefresh ==
  ASSUME CacheType, NEW p \in Pair, NEW x \in User \cup {Miss}, Set(refreshKey(p), x)
  PROVE  /\ CacheType'
         /\ \A v \in User : /\ cache'[sessionKey(v)] = cache[sessionKey(v)]
                            /\ cache'[accessSessionKey(v)] = cache[accessSessionKey(v)]
         /\ \A y \in Pair : cache'[refreshKey(y)] = IF y = p THEN x ELSE cache[refreshKey(y)]
         /\ \A y \in Pair : cache'[accessKey(y)] = cache[accessKey(y)]
  BY KeyFacts DEF Set, CacheType

LEMMA PutAccess ==
  ASSUME CacheType, NEW p \in Pair, NEW x \in User \cup {Miss}, Set(accessKey(p), x)
  PROVE  /\ CacheType'
         /\ \A v \in User : /\ cache'[sessionKey(v)] = cache[sessionKey(v)]
                            /\ cache'[accessSessionKey(v)] = cache[accessSessionKey(v)]
         /\ \A y \in Pair : cache'[refreshKey(y)] = cache[refreshKey(y)]
         /\ \A y \in Pair : cache'[accessKey(y)] = IF y = p THEN x ELSE cache[accessKey(y)]
  BY KeyFacts DEF Set, CacheType

\* A key is deleted or expires.
LEMMA Removed ==
  ASSUME CacheType, NEW k \in Key, Set(k, Miss)
  PROVE  /\ CacheType' /\ cache'[k] = Miss
         /\ \A j \in Key : j # k => cache'[j] = cache[j]
         /\ \A j \in Key : cache'[j] = cache[j] \/ cache'[j] = Miss
  <1>1. /\ cache'[k] = Miss
        /\ \A j \in Key : j # k => cache'[j] = cache[j]
        /\ \A j \in Key : cache'[j] = cache[j] \/ cache'[j] = Miss
    BY DEF Set, CacheType
  <1>2. cache' \in [Key -> User \cup Pair \cup {Miss}]
    BY DEF Set, CacheType
  <1>3. CacheType'
    BY <1>1, <1>2, KeyFacts DEF CacheType
  <1> QED
    BY <1>1, <1>3

-----------------------------------------------------------------------------
(***************************************************************************)
(* What every step of the request in a slot has in common: it writes only  *)
(* its own pair or the one it presents, keeps its pair, and goes forward.  *)
(***************************************************************************)
Writes(r) ==
    /\ \A u \in User, p \in Pair :
          /\ cache'[sessionKey(u)] = p =>
                \/ cache[sessionKey(u)] = p
                \/ /\ req[r].pc = "setSession" /\ req[r].user = u
                   /\ p = nextPair /\ nextPair' = nextPair + 1
          /\ cache'[refreshKey(p)] = u =>
                \/ cache[refreshKey(p)] = u
                \/ req[r].pc = "setRefresh" /\ req[r].user = u /\ req[r].pair = p
          /\ cache'[accessKey(p)] = u =>
                \/ cache[accessKey(p)] = u
                \/ req[r].pc = "setAccess" /\ req[r].user = u /\ req[r].pair = p
                \/ req[r].pc = "valSet" /\ req[r].user = u /\ req[r].tok = p
          /\ cache'[accessSessionKey(u)] = p =>
                \/ cache[accessSessionKey(u)] = p
                \/ req[r].pc = "setAccessSession" /\ req[r].user = u /\ req[r].pair = p
                \/ req[r].pc = "valSetSession" /\ req[r].user = u /\ req[r].tok = p

\* The request in r gives way to q.
Step(r, q) ==
    /\ req' = [req EXCEPT ![r] = q]
    /\ CacheType' /\ Types'
    /\ Writes(r)
    /\ \/ q.pair = 0 /\ nextPair' = nextPair
       \/ q.pair = req[r].pair /\ req[r].user \in {Miss, q.user} /\ nextPair' = nextPair
       \/ /\ q.pair \in {0, nextPair} /\ req[r].pair = 0 /\ nextPair' = nextPair + 1
          /\ q.pair # 0 => q.user = req[r].user
    /\ q.user \in User /\ q.op \in Bearers => Claim(q.tok, q.user)
    /\ Undoing(req[r]) /\ q.pair # 0 => Undoing(q)
    /\ Undoing(req[r]) /\ faults' = faults =>
          \A k \in Key : In(k, req[r].dels) =>
             \/ cache'[k] = Miss
             \/ q.pair = req[r].pair /\ In(k, q.dels)
    /\ known \subseteq known'
    /\ \A p \in known' \ known : p = req[r].pair /\ req[r].pc = "setStatus" /\ q.pair = 0
    /\ accounts \subseteq accounts' /\ faults <= faults'
    /\ \A u \in User \ accounts' : status'[u] = status[u]

\* Whose call it is.
LEMMA CallFacts ==
  ASSUME NEW q \in Request, CallInv(q)
  PROVE  /\ q.pc = "idle" => q.op = "none"
         /\ q.pc \in {"regGet", "regCreate"} => q.op = "Register"
         /\ q.pc = "loginGet" => q.op = "Login"
         /\ q.pc \in {"refGet", "refSession"} => q.op = "Refresh"
         /\ q.pc \in Inval => q.op \in Issues \cup {"Logout"}
         /\ q.pc \in {"setSession", "setRefresh", "setAccess", "setAccessSession"} =>
               q.op \in Issues
         /\ q.pc \in {"valGet", "valSet", "valSetSession", "patch"} =>
               q.op \in Routes /\ q.op \in Bearers
  BY AuthAssumption DEF AuthAssumption, CallInv, Bearers, Routes, Request, Op, Inval, Late,
     Issues

LEMMA SlotAfter ==
  ASSUME Types, NEW r \in Req, NEW q \in Request, req' = [req EXCEPT ![r] = q]
  PROVE  \A s \in Req : req'[s] = IF s = r THEN q ELSE req[s]
  BY DEF Types

\* The request in a slot.
LEMMA SlotFacts ==
  ASSUME IInv, NEW r \in Req
  PROVE  req[r] \in Request /\ CallInv(req[r]) /\ RequestInv(req[r])
  BY DEF IInv, Types, RequestInv

\* A pair in a slot was made before.
LEMMA PairFacts ==
  ASSUME IInv, NEW r \in Req, NEW p \in Request, p = req[r]
  PROVE  /\ p.pair \in Nat /\ nextPair \in Nat /\ nextPair # 0 /\ p.pair < nextPair
         /\ p.pair # 0 => /\ p.pair \in Pair /\ p.pair \notin known /\ p.op \in Issues
                          /\ p.pc \in Late \/ Undoing(p)
  <1>1. RequestInv(p) /\ nextPair \in Nat /\ nextPair # 0
    BY SlotFacts DEF IInv, Types
  <1> QED
    BY <1>1, MissFacts DEF RequestInv

\* What the other requests have established is not undone.
LEMMA OthersKept ==
  ASSUME IInv, NEW r \in Req, NEW q \in Request, Step(r, q), RequestInv(q)'
  PROVE  (\A s \in Req : RequestInv(req[s]))'
  <1> SUFFICES ASSUME NEW s \in Req PROVE RequestInv(req[s])'
    OBVIOUS
  <1>1. \A t \in Req : req'[t] = IF t = r THEN q ELSE req[t]
    BY SlotAfter DEF IInv, Step
  <1>2. CASE s = r
    BY <1>1, <1>2 DEF RequestInv
  <1>3. CASE s # r
    <2> PICK p \in Request : p = req[s]
      BY DEF IInv, Types
    <2>1. RequestInv(p) /\ req'[s] = p
      BY <1>1, <1>3 DEF IInv
    <2>2. RequestInv(req[r]) /\ req[r] \in Request /\ known \subseteq Pair
      BY DEF IInv, Types
    <2>3. /\ nextPair \in Nat /\ nextPair' \in Nat /\ nextPair <= nextPair'
          /\ faults \in Nat /\ faults' \in Nat /\ faults <= faults'
          /\ accounts \subseteq accounts' /\ known \subseteq known'
      BY DEF IInv, Types, Step
    <2>4. p.pair # 0 => req[r].pair # p.pair
      BY <1>3, <2>1 DEF IInv, OwnerInv
    <2>5. IF p.op \in Issues /\ (p.pc \in Late \/ Undoing(p))
          THEN p.pair \in Pair /\ p.pair < nextPair' /\ p.pair \notin known'
          ELSE p.pair = 0
      <3>1. IF p.op \in Issues /\ (p.pc \in Late \/ Undoing(p))
            THEN p.pair \in Pair /\ p.pair < nextPair /\ p.pair \notin known
            ELSE p.pair = 0
        BY <2>1 DEF RequestInv
      <3>2. p.pair \in Pair => p.pair \in Nat /\ p.pair # 0
        BY MissFacts
      <3> QED
        BY <2>3, <2>4, <3>1, <3>2 DEF Step
    <2>6. ASSUME p.pc = "delete" PROVE DeleteInv(p)'
      <3>1. DeleteInv(p)
        BY <2>1, <2>6 DEF RequestInv
      <3>2. ASSUME p.next = "invAccess"
            PROVE  \E x \in Pair :
                      /\ Two(p.dels, sessionKey(p.user), refreshKey(x))
                      /\ x < nextPair'
                      /\ \A v \in User : cache'[sessionKey(v)] = x =>
                                          v = p.user /\ (faults' > 0 \/ Len(p.dels) = 2)
        <4>1. PICK x \in Pair :
                 /\ Two(p.dels, sessionKey(p.user), refreshKey(x))
                 /\ x < nextPair
                 /\ \A v \in User : cache[sessionKey(v)] = x =>
                                     v = p.user /\ (faults > 0 \/ Len(p.dels) = 2)
          BY <3>1, <3>2 DEF DeleteInv
        <4>2. x \in Nat /\ x < nextPair' /\ x # nextPair
          BY <2>3, <4>1, MissFacts
        <4>3. ASSUME NEW v \in User, cache'[sessionKey(v)] = x
              PROVE  v = p.user /\ (faults' > 0 \/ Len(p.dels) = 2)
          <5>2. cache[sessionKey(v)] = x
            BY <4>2, <4>3 DEF Step, Writes
          <5>3. v = p.user /\ (faults > 0 \/ Len(p.dels) = 2)
            BY <4>1, <5>2
          <5> QED
            BY <2>3, <5>3
        <4> QED
          BY <4>1, <4>2, <4>3
      <3> QED
        BY <3>1, <3>2 DEF DeleteInv
    <2>7. ASSUME p.pc \in {"setRefresh", "setAccess"} PROVE cache'[accessKey(p.pair)] = Miss
      <3>1. CallInv(p) /\ p.op \in Issues
        BY <2>1, <2>7, CallFacts DEF RequestInv
      <3>2. p.pair \in Pair /\ p.pair \notin known /\ req[r].pair # p.pair
        BY <2>1, <2>4, <2>7, <3>1, MissFacts DEF RequestInv, Late
      <3>3. req[r].pc = "valSet" => req[r].tok # p.pair
        BY <2>2, <3>2, CallFacts DEF RequestInv
      <3>4. cache'[accessKey(p.pair)] \in User \cup {Miss} /\ cache[accessKey(p.pair)] = Miss
        BY <2>1, <2>7, <3>2 DEF Step, CacheType, RequestInv
      <3> QED
        BY <3>2, <3>3, <3>4, MissFacts DEF Step, Writes
    <2>8. RequestInv(p)'
      BY <2>1, <2>3, <2>5, <2>6, <2>7 DEF RequestInv, Undoing
    <2> QED
      BY <2>1, <2>8 DEF RequestInv
  <1> QED
    BY <1>2, <1>3

\* Nothing new is said of whose pair it is, but what the request in r says, and
\* what it stores of a new pair.
LEMMA ClaimsAfter ==
  ASSUME IInv, NEW r \in Req, NEW q \in Request, Step(r, q),
         NEW p \in Pair, NEW u \in User, Claim(p, u)'
  PROVE  \/ Claim(p, u)
         \/ q.user = u /\ q.pair = p
         \/ req[r].user = u /\ p = nextPair /\ nextPair' = nextPair + 1
  <1>1. \A t \in Req : req'[t] = IF t = r THEN q ELSE req[t]
    BY SlotAfter DEF IInv, Step
  <1>2. ASSUME req[r].user = u,
               \/ req[r].pair = p
               \/ req[r].pc \in {"valSet", "valSetSession"} /\ req[r].tok = p
        PROVE  Claim(p, u)
    <2>1. CASE req[r].pair = p
      BY <1>2, <2>1 DEF Claim
    <2>2. CASE req[r].pc \in {"valSet", "valSetSession"} /\ req[r].tok = p
      <3>1. CallInv(req[r]) /\ req[r] \in Request
        BY SlotFacts
      <3>2. req[r].op \in Bearers
        BY <2>2, <3>1, CallFacts
      <3> QED
        BY <1>2, <2>2, <3>2 DEF Claim
    <2> QED
      BY <1>2, <2>1, <2>2
  <1>3. CASE Stored(p, u)'
    <2>1. Writes(r)
      BY DEF Step
    <2>2. \/ Stored(p, u)
          \/ /\ req[r].user = u
             /\ \/ req[r].pair = p
                \/ req[r].pc \in {"valSet", "valSetSession"} /\ req[r].tok = p
          \/ req[r].user = u /\ p = nextPair /\ nextPair' = nextPair + 1
      BY <1>3, <2>1 DEF Stored, Writes
    <2> QED
      BY <1>2, <2>2 DEF Claim
  <1>4. ASSUME NEW s \in Req, req'[s].user = u,
               \/ req'[s].pair = p
               \/ req'[s].op \in Bearers /\ req'[s].tok = p
        PROVE  Claim(p, u) \/ (q.user = u /\ q.pair = p)
    <2>1. CASE s # r
      BY <1>1, <1>4, <2>1 DEF Claim
    <2>2. CASE s = r
      <3>1. /\ q.user = u
            /\ \/ q.pair = p
               \/ q.op \in Bearers /\ q.tok = p
        BY <1>1, <1>4, <2>2
      <3> QED
        BY <3>1 DEF Step
    <2> QED
      BY <2>1, <2>2
  <1>5. \/ Stored(p, u)'
        \/ \E s \in Req : /\ req'[s].user = u
                          /\ \/ req'[s].pair = p
                             \/ req'[s].op \in Bearers /\ req'[s].tok = p
    BY DEF Claim
  <1> QED
    BY <1>3, <1>4, <1>5

LEMMA OwnerKept ==
  ASSUME IInv, NEW r \in Req, NEW q \in Request, Step(r, q)
  PROVE  OwnerInv'
  <1>1. \A t \in Req : req'[t] = IF t = r THEN q ELSE req[t]
    BY SlotAfter DEF IInv, Step
  <1>2. /\ nextPair \in Nat /\ nextPair' \in Nat /\ nextPair <= nextPair' /\ nextPair # 0
        /\ OwnerInv /\ Pair \subseteq Nat
    BY MissFacts DEF IInv, Types, Step
  <1>3. \A s \in Req : req[s].pair \in Nat /\ req[s].pair < nextPair
    <2> TAKE s \in Req
    <2> PICK p \in Request : p = req[s]
      BY SlotFacts
    <2> QED
      BY PairFacts
  <1>4. ASSUME NEW s \in Req, NEW t \in Req, req'[s].pair = req'[t].pair,
               req'[s].pair # 0
        PROVE  s = t
    <2>1. q.pair # 0 => q.pair = req[r].pair \/ q.pair = nextPair
      BY DEF Step
    <2>2. \A x, y \in Req : req[x].pair = req[y].pair /\ req[x].pair # 0 => x = y
      BY <1>2 DEF OwnerInv
    <2>3. CASE s # r /\ t # r
      BY <1>1, <1>4, <2>2, <2>3
    <2>4. CASE s = r /\ t # r
      BY <1>1, <1>3, <1>4, <2>1, <2>2, <2>4
    <2>5. CASE s # r /\ t = r
      BY <1>1, <1>3, <1>4, <2>1, <2>2, <2>5
    <2> QED
      BY <2>3, <2>4, <2>5
  <1>5. ASSUME NEW p \in Pair, NEW u \in User, Claim(p, u)
        PROVE  /\ p # nextPair
               /\ q.pair = p => q.user = u
    <2>1. p < nextPair /\ p # 0 /\ \A s \in Req : req[s].pair = p => req[s].user = u
      BY <1>2, <1>5, MissFacts DEF OwnerInv
    <2>2. p # nextPair
      BY <1>2, <2>1
    <2>3. ASSUME q.pair = p PROVE q.user = u
      <3>1. req[r].pair = p /\ req[r].user \in {Miss, q.user}
        BY <2>1, <2>2, <2>3 DEF Step
      <3> QED
        BY <2>1, <3>1, MissFacts
    <2> QED
      BY <2>2, <2>3
  <1>6. ASSUME NEW p \in Pair, NEW u \in User, Claim(p, u)'
        PROVE  /\ p < nextPair'
               /\ \A v \in User : Claim(p, v)' => u = v
               /\ \A s \in Req : req'[s].pair = p => req'[s].user = u
    <2>1. \A v \in User : Claim(p, v)' =>
             \/ Claim(p, v)
             \/ q.user = v /\ q.pair = p
             \/ req[r].user = v /\ p = nextPair /\ nextPair' = nextPair + 1
      BY ClaimsAfter
    <2>2. p \in Nat /\ p # 0
      BY MissFacts
    <2>3. p < nextPair'
      <3>1. CASE Claim(p, u)
        BY <1>2, <2>2, <3>1 DEF OwnerInv
      <3>2. CASE q.pair = p
        BY <1>2, <1>3, <2>2, <3>2 DEF Step
      <3>3. CASE p = nextPair /\ nextPair' = nextPair + 1
        BY <1>2, <3>3
      <3> QED
        BY <1>6, <2>1, <3>1, <3>2, <3>3
    <2>4. q.pair = p => q.user = u
      <3>1. p = nextPair /\ q.pair = p => q.user = req[r].user
        BY <1>2, <1>3, <2>2 DEF Step
      <3> QED
        BY <1>5, <1>6, <2>1, <3>1
    <2>5. ASSUME NEW v \in User, Claim(p, v)' PROVE u = v
      <3>1. q.pair = p => q.user = v
        <4>1. p = nextPair /\ q.pair = p => q.user = req[r].user
          BY <1>2, <1>3, <2>2 DEF Step
        <4> QED
          BY <1>5, <2>1, <2>5, <4>1
      <3>2. \/ Claim(p, u) /\ Claim(p, v)
            \/ q.pair = p
            \/ p = nextPair /\ req[r].user = u /\ req[r].user = v
        BY <1>5, <1>6, <2>1, <2>5
      <3> QED
        BY <1>2, <2>4, <3>1, <3>2 DEF OwnerInv
    <2>6. ASSUME NEW s \in Req, req'[s].pair = p PROVE req'[s].user = u
      <3>1. CASE s = r
        BY <1>1, <2>4, <2>6, <3>1
      <3>2. CASE s # r
        <4>1. req[s].pair = p /\ req'[s] = req[s]
          BY <1>1, <2>6, <3>2
        <4>2. q.pair # p
          BY <1>1, <1>4, <2>2, <2>6, <3>2
        <4>3. p # nextPair
          BY <1>2, <1>3, <4>1
        <4>4. Claim(p, u)
          BY <1>6, <2>1, <4>2, <4>3
        <4> QED
          BY <1>2, <4>1, <4>4 DEF OwnerInv
      <3> QED
        BY <3>1, <3>2
    <2> QED
      BY <2>3, <2>5, <2>6
  <1>7. ASSUME NEW p \in known' PROVE p < nextPair'
    <2>1. CASE p \in known
      BY <1>2, <2>1 DEF OwnerInv, IInv, Types
    <2>2. CASE p \notin known
      BY <1>2, <1>3, <1>7, <2>2 DEF Step
    <2> QED
      BY <2>1, <2>2
  <1> QED
    BY <1>4, <1>6, <1>7 DEF OwnerInv

LEMMA AccountsKept ==
  ASSUME IInv, NEW r \in Req, NEW q \in Request, Step(r, q)
  PROVE  AccountInv'
  <1>1. ASSUME NEW p \in Pair, NEW u \in User, Stored(p, u)'
        PROVE  u \in accounts'
    <2>1. \/ Stored(p, u)
          \/ /\ req[r].user = u
             /\ req[r].pc \in {"setSession", "setRefresh", "setAccess",
                               "setAccessSession", "valSet", "valSetSession"}
      BY <1>1 DEF Stored, Step, Writes
    <2>2. req[r] \in Request /\ CallInv(req[r]) /\ RequestInv(req[r])
      BY SlotFacts
    <2>3. Stored(p, u) => u \in accounts
      BY DEF IInv, AccountInv
    <2>4. req[r].pc \in {"setSession", "setRefresh", "setAccess", "setAccessSession",
                         "valSet", "valSetSession"} => req[r].user \in accounts
      BY <2>2, CallFacts DEF RequestInv
    <2> QED
      BY <2>1, <2>3, <2>4 DEF Step
  <1>2. \A u \in User \ accounts' : status'[u] = "offline"
    BY DEF IInv, AccountInv, Step
  <1> QED
    BY <1>1, <1>2 DEF AccountInv

LEMMA FailuresKept ==
  ASSUME IInv, NEW r \in Req, NEW q \in Request, Step(r, q), NEW p \in failed
  PROVE  FailAt(p)'
  <1>1. \A t \in Req : req'[t] = IF t = r THEN q ELSE req[t]
    BY SlotAfter DEF IInv, Step
  <1>2. /\ p \in Pair /\ p # 0 /\ FailAt(p) /\ faults \in Nat /\ faults > 0
        /\ faults' \in Nat /\ faults <= faults'
    BY MissFacts DEF IInv, Types, FailInv, Step
  <1>3. p \notin known'
    <2>1. req[r].pair = p => req[r].pc # "setStatus"
      BY <1>2 DEF FailAt, Undoing
    <2> QED
      BY <1>2, <2>1 DEF FailAt, Step
  <1>4. p < nextPair' /\ p # nextPair
    <2>1. /\ p < nextPair /\ nextPair \in Nat /\ p \in Nat
          /\ nextPair' = nextPair \/ nextPair' = nextPair + 1
      BY <1>2, MissFacts DEF FailAt, IInv, Types, Step
    <2> QED
      BY <2>1
  <1>5. req[r].pair = p => Undoing(req[r])
    BY <1>2 DEF FailAt
  <1>6. q.pair = p => req[r].pair = p /\ Undoing(q)
    BY <1>2, <1>4, <1>5 DEF Step
  <1>7. ASSUME NEW s \in Req, req'[s].pair = p PROVE Undoing(req'[s])
    BY <1>1, <1>2, <1>6, <1>7 DEF FailAt
  <1>8. ASSUME faults' <= 1, NEW k \in Key, cache'[k] # Miss,
               NEW s \in Req, req[s].pair = p, In(k, req[s].dels)
        PROVE  \E t \in Req : req'[t].pair = p /\ In(k, req'[t].dels)
    <2>1. CASE s # r
      BY <1>1, <1>8, <2>1
    <2>2. CASE s = r
      <3>1. faults' = faults
        BY <1>2, <1>8
      <3>2. q.pair = p /\ In(k, q.dels)
        BY <1>5, <1>8, <2>2, <3>1 DEF Step
      <3> QED
        BY <1>1, <3>2
    <2> QED
      BY <2>1, <2>2
  <1>9. ASSUME faults' <= 1, NEW u \in User, AccessLive(p, u)'
        PROVE  \E t \in Req : req'[t].pair = p /\ In(accessKey(p), req'[t].dels)
    <2>1. req[r] \in Request /\ CallInv(req[r]) /\ RequestInv(req[r])
      BY SlotFacts
    <2>2. req[r].pc = "valSet" => req[r].tok # p
      BY <1>2, <2>1, CallFacts DEF RequestInv, FailAt
    <2>3. req[r].pair = p => req[r].pc # "setAccess"
      BY <1>5 DEF Undoing
    <2>4. AccessLive(p, u)
      BY <1>2, <1>9, <2>2, <2>3 DEF AccessLive, Step, Writes
    <2>5. accessKey(p) \in Key /\ cache'[accessKey(p)] # Miss
      BY <1>2, <1>9, KeyFacts, MissFacts DEF AccessLive
    <2>6. PICK s \in Req : req[s].pair = p /\ In(accessKey(p), req[s].dels)
      BY <1>2, <1>9, <2>4 DEF FailAt
    <2> QED
      BY <1>8, <1>9, <2>5, <2>6
  <1>10. ASSUME faults' <= 1, NEW u \in User, RefreshLive(p, u)'
         PROVE  \E t \in Req : /\ req'[t].pair = p
                               /\ \/ In(sessionKey(u), req'[t].dels)
                                  \/ In(refreshKey(p), req'[t].dels)
    <2>1. req[r].pair = p => req[r].pc # "setRefresh"
      BY <1>5 DEF Undoing
    <2>2. RefreshLive(p, u)
      BY <1>2, <1>4, <1>10, <2>1 DEF RefreshLive, Step, Writes
    <2>3. /\ refreshKey(p) \in Key /\ cache'[refreshKey(p)] # Miss
          /\ sessionKey(u) \in Key /\ cache'[sessionKey(u)] # Miss
      BY <1>2, <1>10, KeyFacts, MissFacts DEF RefreshLive
    <2>4. PICK s \in Req : /\ req[s].pair = p
                           /\ \/ In(sessionKey(u), req[s].dels)
                              \/ In(refreshKey(p), req[s].dels)
      BY <1>2, <1>10, <2>2 DEF FailAt
    <2> QED
      BY <1>8, <1>10, <2>3, <2>4
  <1> QED
    BY <1>3, <1>4, <1>7, <1>9, <1>10 DEF FailAt, Undoing, AccessLive, RefreshLive


\* Some request gives way to another in slot r.
Steps(r) == \E q \in Request : Step(r, q)

LEMMA StepInv ==
  ASSUME IInv, NEW r \in Req, NEW q \in Request, Step(r, q), RequestInv(q)',
         failed' # failed => faults' > 0 /\ \A p \in failed' \ failed : FailAt(p)',
         SessionHasRefresh'
  PROVE  IInv' /\ Steps(r)
  <1>1. CacheType' /\ Types' /\ Steps(r)
    BY DEF Step, Steps
  <1>2. (\A s \in Req : RequestInv(req[s]))'
    BY OthersKept
  <1>3. OwnerInv' /\ AccountInv'
    BY OwnerKept, AccountsKept
  <1>4. FailInv'
    <2>1. \A p \in failed : FailAt(p)'
      BY FailuresKept
    <2>2. failed # {} => faults' > 0
      BY DEF IInv, FailInv, Types, Step
    <2> QED
      BY <2>1, <2>2 DEF FailInv
  <1> QED
    BY <1>1, <1>2, <1>3, <1>4 DEF IInv

-----------------------------------------------------------------------------
(***************************************************************************)
(* Steps that leave the stores alone.                                      *)
(***************************************************************************)
LEMMA TypesAfter ==
  ASSUME Types, NEW r \in Req, NEW q \in Request, req' = [req EXCEPT ![r] = q],
         UNCHANGED <<accounts, status, known, failed, spent, byHand>>,
         nextPair' \in 1..(MaxPairs + 1), faults' \in 0..MaxFaults,
         ended' \in [User -> {"no", "ending", "yes"}],
         clash' \subseteq User, checked' \subseteq User
  PROVE  Types'
  BY DEF Types

LEMMA BeginFacts ==
  ASSUME Types, NEW u \in User, NEW e \in {"no", "ending", "yes"}, Begin(u, e)
  PROVE  /\ ended' \in [User -> {"no", "ending", "yes"}]
         /\ \A v \in User : ended'[v] = IF v = u THEN e ELSE ended[v]
         /\ clash \subseteq clash' /\ clash' \subseteq User
         /\ checked \subseteq checked' /\ checked' \subseteq User
         /\ Writing(u) # {} => u \in clash'
         /\ Checking(u) # {} => u \in checked'
  BY DEF Types, Begin

\* The sessions are as they were, and the call is not one that sets a refresh key.
LEMMA RefreshKept ==
  ASSUME IInv, NEW r \in Req, NEW q \in Request, req' = [req EXCEPT ![r] = q],
         \A u \in User, p \in Pair : cache'[sessionKey(u)] = p =>
            /\ cache[sessionKey(u)] = p
            /\ cache[refreshKey(p)] = u => cache'[refreshKey(p)] = u,
         req[r].pc # "setRefresh", faults <= faults', Types'
  PROVE  SessionHasRefresh'
  <1> SUFFICES ASSUME faults' = 0, NEW u \in User, NEW p \in Pair,
                      cache'[sessionKey(u)] = p
               PROVE  \/ cache'[refreshKey(p)] = u
                      \/ \E s \in Req : req'[s].pc = "setRefresh" /\ req'[s].pair = p
    BY DEF SessionHasRefresh
  <1>1. faults = 0
    BY DEF IInv, Types
  <1>2. \/ cache[refreshKey(p)] = u
        \/ \E s \in Req : req[s].pc = "setRefresh" /\ req[s].pair = p
    BY <1>1 DEF IInv, SessionHasRefresh
  <1>3. \A s \in Req : req'[s] = IF s = r THEN q ELSE req[s]
    <2>1. req \in [Req -> Request]
      BY DEF IInv, Types
    <2> QED
      BY <2>1
  <1> QED
    BY <1>2, <1>3

LEMMA Quiet ==
  ASSUME IInv, NEW r \in Req, NEW q \in Request, req' = [req EXCEPT ![r] = q],
         UNCHANGED <<cache, accounts, status, known, failed, nextPair>>, Types',
         faults <= faults', req[r].pc \notin {"delete", "setRefresh"}, q.pair = 0,
         q.user \in User /\ q.op \in Bearers =>
            \/ Claim(q.tok, q.user)
            \/ q.user = req[r].user /\ q.op = req[r].op /\ q.tok = req[r].tok,
         RequestInv(q)'
  PROVE  IInv' /\ Steps(r)
  <1>1. CacheType'
    BY DEF IInv, CacheType
  <1>2. Writes(r)
    BY DEF Writes
  <1>3. ~Undoing(req[r])
    BY DEF Undoing
  <1>4. q.user \in User /\ q.op \in Bearers => Claim(q.tok, q.user)
    BY DEF Claim
  <1>5. Step(r, q)
    <2>1. /\ known \subseteq known' /\ known' \ known = {}
          /\ accounts \subseteq accounts' /\ status' = status
      OBVIOUS
    <2> QED
      BY <1>1, <1>2, <1>3, <1>4, <2>1 DEF Step
  <1>6. SessionHasRefresh'
    BY RefreshKept
  <1> QED
    BY <1>5, <1>6, StepInv

\* Idle slots.
LEMMA IdleFacts ==
  /\ Idle \in Request /\ RequestInv(Idle)'
  /\ Idle.op = "none" /\ Idle.pc = "idle" /\ Idle.user = Miss /\ Idle.tok = 0
  /\ Idle.pair = 0 /\ Idle.dels = <<>> /\ Idle.next = "idle"
  <1>1. /\ Idle.op = "none" /\ Idle.pc = "idle" /\ Idle.user = Miss /\ Idle.tok = 0
        /\ Idle.pair = 0 /\ Idle.dels = <<>> /\ Idle.next = "idle"
    BY DEF Idle
  <1>2. Idle \in Request
    BY DEF Idle, Request, Op, Pc
  <1>3. RequestInv(Idle)'
    BY <1>1 DEF RequestInv, CallInv, Issues, Routes, Bearers, Undoing
  <1> QED
    BY <1>1, <1>2, <1>3

LEMMA Unchanged ==
  ASSUME UNCHANGED <<stores, nextPair, hist>>
  PROVE  /\ cache' = cache /\ accounts' = accounts /\ status' = status
         /\ nextPair' = nextPair /\ known' = known /\ failed' = failed
         /\ spent' = spent /\ byHand' = byHand /\ ended' = ended
         /\ clash' = clash /\ checked' = checked
  BY DEF stores, hist, overlap

\* A call fails and nothing is written.
LEMMA FailReturn ==
  ASSUME IInv, NEW r \in Req, FailAndReturn(r)
  PROVE  IInv' /\ Steps(r)
  <1> PICK q \in Request : q = Idle
    BY IdleFacts
  <1>1. q.op = "none" /\ q.pc = "idle" /\ q.user = Miss /\ q.pair = 0
    BY IdleFacts
  <1>2. req' = [req EXCEPT ![r] = q]
    BY DEF FailAndReturn, Return
  <1>3. /\ cache' = cache /\ accounts' = accounts /\ status' = status
        /\ known' = known /\ failed' = failed /\ nextPair' = nextPair
        /\ spent' = spent /\ byHand' = byHand /\ ended' = ended
        /\ clash' = clash /\ checked' = checked
    BY Unchanged DEF FailAndReturn
  <1>4. /\ faults \in Nat /\ faults' = faults + 1 /\ faults' \in 0..MaxFaults
        /\ faults' > 0 /\ faults <= faults'
    BY AuthAssumption DEF FailAndReturn, Fails, IInv, Types, AuthAssumption
  <1>5. Types'
    BY <1>2, <1>3, <1>4 DEF IInv, Types
  <1>6. CacheType'
    BY <1>3 DEF IInv, CacheType
  <1>7. Step(r, q)
    <2>1. Writes(r)
      BY <1>3 DEF Writes
    <2>2. q.op \notin Bearers
      BY <1>1 DEF Bearers, Routes
    <2>3. faults' # faults
      BY <1>4
    <2> QED
      BY <1>1, <1>2, <1>3, <1>4, <1>5, <1>6, <2>1, <2>2, <2>3 DEF Step
  <1>8. RequestInv(q)'
    BY IdleFacts
  <1>9. SessionHasRefresh'
    BY <1>4 DEF SessionHasRefresh
  <1> QED
    BY <1>3, <1>7, <1>8, <1>9, StepInv

-----------------------------------------------------------------------------
(***************************************************************************)
(* Requests arrive.                                                        *)
(***************************************************************************)
LEMMA StartFields ==
  ASSUME IInv, NEW r \in Req, NEW o \in Op, NEW pc \in Pc, NEW u \in User \cup {Miss},
         NEW t \in Pair \cup {0}, Start(r, o, pc, u, t)
  PROVE  /\ \E q \in Request :
              /\ q.op = o /\ q.pc = pc /\ q.user = u /\ q.tok = t /\ q.pair = 0
              /\ q.dels = <<>> /\ q.next = "idle" /\ req' = [req EXCEPT ![r] = q]
         /\ cache' = cache /\ accounts' = accounts /\ status' = status
         /\ nextPair' = nextPair /\ faults' = faults /\ known' = known
         /\ failed' = failed /\ spent' = spent /\ byHand' = byHand
         /\ req[r].op = "none" /\ req[r].pc = "idle" /\ req[r].user = Miss
         /\ req[r].pair = 0
  <1> PICK i \in Request : i = Idle
    BY IdleFacts
  <1> PICK q : q = [i EXCEPT !.op = o, !.pc = pc, !.user = u, !.tok = t]
    OBVIOUS
  <1>1. i.dels = <<>> /\ i.next = "idle" /\ i.pair = 0
    BY IdleFacts
  <1>2. /\ q.op = o /\ q.pc = pc /\ q.user = u /\ q.tok = t /\ q.pair = 0
        /\ q.dels = <<>> /\ q.next = "idle"
    BY <1>1 DEF Request
  <1>3. q \in Request
    BY DEF Request
  <1>4. req' = [req EXCEPT ![r] = q]
    BY DEF Start
  <1>5. req[r].op = "none" /\ req[r].pc = "idle" /\ req[r].user = Miss /\ req[r].pair = 0
    BY IdleFacts DEF Start
  <1> QED
    BY <1>2, <1>3, <1>4, <1>5 DEF Start, stores

\* What is left to show of a request that arrives.
LEMMA Arrives ==
  ASSUME IInv, NEW r \in Req, NEW o \in Op, NEW pc \in Pc, NEW u \in User \cup {Miss},
         NEW t \in Pair \cup {0}, Start(r, o, pc, u, t),
         ended' \in [User -> {"no", "ending", "yes"}],
         clash' \subseteq User, checked' \subseteq User,
         u \in User => o \notin Bearers,
         \A q \in Request : /\ q.op = o /\ q.pc = pc /\ q.user = u /\ q.tok = t
                            /\ q.pair = 0 /\ q.dels = <<>> /\ q.next = "idle"
                            => RequestInv(q)'
  PROVE  IInv' /\ Steps(r)
  <1>1. PICK q \in Request :
              /\ q.op = o /\ q.pc = pc /\ q.user = u /\ q.tok = t
              /\ q.pair = 0 /\ q.dels = <<>> /\ q.next = "idle"
              /\ req' = [req EXCEPT ![r] = q]
    BY StartFields
  <1>2. /\ cache' = cache /\ accounts' = accounts /\ status' = status
        /\ nextPair' = nextPair /\ faults' = faults /\ known' = known
        /\ failed' = failed /\ spent' = spent /\ byHand' = byHand
        /\ req[r].pc = "idle"
    BY StartFields
  <1>3. Types' /\ faults <= faults'
    BY <1>1, <1>2, TypesAfter DEF IInv, Types
  <1>4. RequestInv(q)'
    BY <1>1
  <1>5. req[r].pc \notin {"delete", "setRefresh"} /\ ~(q.user \in User /\ q.op \in Bearers)
    BY <1>1, <1>2
  <1> QED
    BY <1>1, <1>2, <1>3, <1>4, <1>5, Quiet

LEMMA StartRegisterOK ==
  ASSUME IInv, NEW r \in Req, NEW u \in User, StartRegister(r, u)
  PROVE  IInv' /\ Steps(r)
  <1>1. Start(r, "Register", "regGet", u, 0) /\ UNCHANGED overlap
    BY DEF StartRegister
  <1>2. "Register" \in Op /\ "regGet" \in Pc /\ "Register" \notin Bearers
    BY DEF Op, Pc, Bearers, Routes
  <1>3. ended' = ended /\ clash' = clash /\ checked' = checked
    BY <1>1 DEF overlap
  <1>4. \A q \in Request : /\ q.op = "Register" /\ q.pc = "regGet" /\ q.user = u
                           /\ q.tok = 0 /\ q.pair = 0 /\ q.dels = <<>> /\ q.next = "idle"
                           => RequestInv(q)'
    BY DEF RequestInv, CallInv, Issues, Routes, Bearers, Undoing
  <1> QED
    BY <1>1, <1>2, <1>3, <1>4, Arrives DEF IInv, Types

LEMMA StartLoginOK ==
  ASSUME IInv, NEW r \in Req, NEW u \in User, StartLogin(r, u)
  PROVE  IInv' /\ Steps(r)
  <1>1. Start(r, "Login", "loginGet", u, 0) /\ UNCHANGED overlap
    BY DEF StartLogin
  <1>2. "Login" \in Op /\ "loginGet" \in Pc /\ "Login" \notin Bearers
    BY DEF Op, Pc, Bearers, Routes
  <1>3. ended' = ended /\ clash' = clash /\ checked' = checked
    BY <1>1 DEF overlap
  <1>4. \A q \in Request : /\ q.op = "Login" /\ q.pc = "loginGet" /\ q.user = u
                           /\ q.tok = 0 /\ q.pair = 0 /\ q.dels = <<>> /\ q.next = "idle"
                           => RequestInv(q)'
    BY DEF RequestInv, CallInv, Issues, Routes, Bearers, Undoing, Late
  <1> QED
    BY <1>1, <1>2, <1>3, <1>4, Arrives DEF IInv, Types

LEMMA StartRefreshOK ==
  ASSUME IInv, NEW r \in Req, NEW t \in Pair, StartRefresh(r, t)
  PROVE  IInv' /\ Steps(r)
  <1>1. Start(r, "Refresh", "refGet", Miss, t) /\ UNCHANGED overlap /\ t \in known
    BY DEF StartRefresh
  <1>2. "Refresh" \in Op /\ "refGet" \in Pc /\ Miss \notin User
    BY MissFacts DEF Op, Pc
  <1>3. ended' = ended /\ clash' = clash /\ checked' = checked /\ t \in known'
    BY <1>1 DEF overlap, Start
  <1>4. \A q \in Request : /\ q.op = "Refresh" /\ q.pc = "refGet" /\ q.user = Miss
                           /\ q.tok = t /\ q.pair = 0 /\ q.dels = <<>> /\ q.next = "idle"
                           => RequestInv(q)'
    BY <1>3 DEF RequestInv, CallInv, Issues, Routes, Bearers, Undoing, Late
  <1> QED
    BY <1>1, <1>2, <1>3, <1>4, Arrives DEF IInv, Types

LEMMA StartLogoutOK ==
  ASSUME IInv, NEW r \in Req, NEW u \in User, StartLogout(r, u)
  PROVE  IInv' /\ Steps(r)
  <1>1. PICK e \in {"no", "ending"} : Begin(u, e)
    BY DEF StartLogout
  <1>2. Start(r, "Logout", "invSession", u, 0)
    BY DEF StartLogout
  <1>3. "Logout" \in Op /\ "invSession" \in Pc /\ "Logout" \notin Bearers
    BY DEF Op, Pc, Bearers, Routes
  <1>4. /\ ended' \in [User -> {"no", "ending", "yes"}]
        /\ clash' \subseteq User /\ checked' \subseteq User
    BY <1>1, BeginFacts DEF IInv
  <1>5. \A q \in Request : /\ q.op = "Logout" /\ q.pc = "invSession" /\ q.user = u
                           /\ q.tok = 0 /\ q.pair = 0 /\ q.dels = <<>> /\ q.next = "idle"
                           => RequestInv(q)'
    BY DEF RequestInv, CallInv, Issues, Routes, Bearers, Undoing, Inval
  <1> QED
    BY <1>2, <1>3, <1>4, <1>5, Arrives

LEMMA StartValidateOK ==
  ASSUME IInv, NEW r \in Req, NEW o \in Route, NEW t \in Pair, StartValidate(r, o, t)
  PROVE  IInv' /\ Steps(r)
  <1>1. Start(r, o, "valGet", Miss, t) /\ UNCHANGED overlap /\ t \in known
    BY DEF StartValidate
  <1>2. o \in Op /\ "valGet" \in Pc /\ o \in Routes /\ Miss \notin User
    BY AuthAssumption, MissFacts DEF Op, Pc, Routes, AuthAssumption
  <1>3. ended' = ended /\ clash' = clash /\ checked' = checked /\ t \in known'
    BY <1>1 DEF overlap, Start
  <1>4. \A q \in Request : /\ q.op = o /\ q.pc = "valGet" /\ q.user = Miss
                           /\ q.tok = t /\ q.pair = 0 /\ q.dels = <<>> /\ q.next = "idle"
                           => RequestInv(q)'
    BY <1>2, <1>3 DEF RequestInv, CallInv, Issues, Routes, Bearers, Undoing
  <1> QED
    BY <1>1, <1>2, <1>3, <1>4, Arrives DEF IInv, Types

-----------------------------------------------------------------------------
(***************************************************************************)
(* Calls that read.                                                        *)
(***************************************************************************)
LEMMA GoFields ==
  ASSUME IInv, NEW r \in Req, NEW pc \in Pc, Go(r, pc)
  PROVE  \E q \in Request :
            /\ q.op = req[r].op /\ q.pc = pc /\ q.user = req[r].user /\ q.tok = req[r].tok
            /\ q.pair = req[r].pair /\ q.dels = req[r].dels /\ q.next = req[r].next
            /\ req' = [req EXCEPT ![r] = q]
  <1> PICK p \in Request : p = req[r]
    BY DEF IInv, Types
  <1> PICK q : q = [p EXCEPT !.pc = pc]
    OBVIOUS
  <1>1. /\ q.op = p.op /\ q.pc = pc /\ q.user = p.user /\ q.tok = p.tok
        /\ q.pair = p.pair /\ q.dels = p.dels /\ q.next = p.next
    BY DEF Request
  <1>2. q \in Request
    BY DEF Request
  <1>3. req' = [req EXCEPT ![r] = q]
    BY DEF Go
  <1> QED
    BY <1>1, <1>2, <1>3


LEMMA ReturnQuiet ==
  ASSUME IInv, NEW r \in Req, Works, Return(r), UNCHANGED <<stores, nextPair, hist>>,
         req[r].pc \in {"regGet", "loginGet", "refGet", "refSession", "valGet"}
  PROVE  IInv' /\ Steps(r)
  <1> PICK q \in Request : q = Idle
    BY IdleFacts
  <1>1. /\ q.op = "none" /\ q.user = Miss /\ q.pair = 0
        /\ req' = [req EXCEPT ![r] = q] /\ RequestInv(q)'
    BY IdleFacts DEF Return
  <1>2. /\ cache' = cache /\ accounts' = accounts /\ status' = status
        /\ nextPair' = nextPair /\ known' = known /\ failed' = failed
        /\ spent' = spent /\ byHand' = byHand /\ ended' = ended
        /\ clash' = clash /\ checked' = checked
    BY Unchanged
  <1>3. faults' = faults /\ faults <= faults'
    BY DEF Works, IInv, Types
  <1>4. Types'
    BY <1>1, <1>2, <1>3 DEF IInv, Types
  <1>5. q.op \notin Bearers /\ req[r].pc \notin {"delete", "setRefresh"}
    BY <1>1 DEF Bearers, Routes
  <1> QED
    BY <1>1, <1>2, <1>3, <1>4, <1>5, Quiet

\* A call that works, writes nothing and makes q of the request.
LEMMA GoesOn ==
  ASSUME IInv, NEW r \in Req, NEW q \in Request, req' = [req EXCEPT ![r] = q], Works,
         UNCHANGED <<stores, nextPair, known, failed, spent, byHand>>,
         ended' \in [User -> {"no", "ending", "yes"}],
         clash' \subseteq User, checked' \subseteq User,
         req[r].pc \notin {"delete", "setRefresh"}, q.pair = 0,
         q.user \in User /\ q.op \in Bearers =>
            \/ Claim(q.tok, q.user)
            \/ q.user = req[r].user /\ q.op = req[r].op /\ q.tok = req[r].tok,
         RequestInv(q)'
  PROVE  IInv' /\ Steps(r)
  <1>1. cache' = cache /\ accounts' = accounts /\ status' = status
    BY DEF stores
  <1>2. faults' = faults /\ faults <= faults'
    BY DEF Works, IInv, Types
  <1>3. Types'
    BY <1>1, <1>2, TypesAfter DEF IInv, Types
  <1> QED
    BY <1>1, <1>2, <1>3, Quiet

\* A call that works without any history.
LEMMA NoHistory ==
  ASSUME IInv, UNCHANGED <<stores, nextPair, hist>>
  PROVE  /\ UNCHANGED <<stores, nextPair, known, failed, spent, byHand>>
         /\ ended' \in [User -> {"no", "ending", "yes"}]
         /\ clash' \subseteq User /\ checked' \subseteq User
  BY Unchanged DEF IInv, Types

LEMMA RegisterGetOK ==
  ASSUME IInv, NEW r \in Req, RegisterGet(r)
  PROVE  IInv' /\ Steps(r)
  <1>1. CASE FailAndReturn(r)
    BY <1>1, FailReturn
  <1>2. CASE ~FailAndReturn(r)
    <2>1. /\ req[r].pc = "regGet" /\ Works /\ (Return(r) \/ Go(r, "regCreate"))
          /\ UNCHANGED <<stores, nextPair, hist>>
      BY <1>2 DEF RegisterGet
    <2>2. CASE Return(r)
      BY <2>1, <2>2, ReturnQuiet
    <2>3. CASE Go(r, "regCreate")
      <3> PICK p \in Request : p = req[r]
        BY SlotFacts
      <3>1. PICK q \in Request :
              /\ q.op = p.op /\ q.pc = "regCreate" /\ q.user = p.user /\ q.tok = p.tok
              /\ q.pair = p.pair /\ q.dels = p.dels /\ q.next = p.next
              /\ req' = [req EXCEPT ![r] = q]
        BY <2>3, GoFields DEF Pc
      <3>2. p.pc = "regGet" /\ p.op = "Register" /\ RequestInv(p)
        BY <2>1, SlotFacts, CallFacts
      <3>3. p.pair = 0
        BY <3>2 DEF RequestInv, Issues
      <3>4. RequestInv(q)'
        BY <3>1, <3>2, <3>3 DEF RequestInv, CallInv, Issues, Routes, Bearers, Undoing
      <3>5. req[r].pc \notin {"delete", "setRefresh"}
        BY <3>2
      <3> QED
        BY <2>1, <3>1, <3>3, <3>4, <3>5, GoesOn, NoHistory
    <2> QED
      BY <2>1, <2>2, <2>3
  <1> QED
    BY <1>1, <1>2

LEMMA LoginGetOK ==
  ASSUME IInv, NEW r \in Req, LoginGet(r)
  PROVE  IInv' /\ Steps(r)
  <1>1. CASE FailAndReturn(r)
    BY <1>1, FailReturn
  <1>2. CASE ~FailAndReturn(r)
    <2> PICK p \in Request : p = req[r]
      BY SlotFacts
    <2>1. /\ p.pc = "loginGet" /\ Works
          /\ \/ p.user \in accounts /\ Go(r, "invSession") /\ Begin(p.user, "no")
             \/ Return(r) /\ UNCHANGED overlap
          /\ UNCHANGED <<stores, nextPair, known, failed, spent, byHand>>
      BY <1>2 DEF LoginGet
    <2>2. p.op = "Login" /\ RequestInv(p)
      BY <2>1, SlotFacts, CallFacts
    <2>3. p.user \in User /\ p.pair = 0
      BY <2>1, <2>2 DEF RequestInv, Late, Undoing
    <2>4. CASE Return(r) /\ UNCHANGED overlap
      BY <2>1, <2>4, ReturnQuiet DEF hist
    <2>5. CASE p.user \in accounts /\ Go(r, "invSession") /\ Begin(p.user, "no")
      <3>1. PICK q \in Request :
              /\ q.op = p.op /\ q.pc = "invSession" /\ q.user = p.user /\ q.tok = p.tok
              /\ q.pair = p.pair /\ q.dels = p.dels /\ q.next = p.next
              /\ req' = [req EXCEPT ![r] = q]
        BY <2>5, GoFields DEF Pc
      <3>2. /\ ended' \in [User -> {"no", "ending", "yes"}]
            /\ clash' \subseteq User /\ checked' \subseteq User
        BY <2>3, <2>5, BeginFacts DEF IInv
      <3>3. accounts' = accounts
        BY <2>1 DEF stores
      <3>4. RequestInv(q)'
        BY <2>1, <2>2, <2>3, <2>5, <3>1, <3>3
           DEF RequestInv, CallInv, Issues, Routes, Bearers, Undoing, Inval, Late
      <3>5. req[r].pc \notin {"delete", "setRefresh"}
        BY <2>1
      <3> QED
        BY <2>1, <2>3, <3>1, <3>2, <3>4, <3>5, GoesOn
    <2> QED
      BY <2>1, <2>4, <2>5
  <1> QED
    BY <1>1, <1>2

\* The token presented names its user.
Named(r, u, pc) == req' = [req EXCEPT ![r].user = u, ![r].pc = pc]

LEMMA NamedFields ==
  ASSUME IInv, NEW r \in Req, NEW u \in User, NEW pc \in Pc, Named(r, u, pc)
  PROVE  \E q \in Request :
            /\ q.op = req[r].op /\ q.pc = pc /\ q.user = u /\ q.tok = req[r].tok
            /\ q.pair = req[r].pair /\ q.dels = req[r].dels /\ q.next = req[r].next
            /\ req' = [req EXCEPT ![r] = q]
  <1> PICK p \in Request : p = req[r]
    BY DEF IInv, Types
  <1> PICK q : q = [p EXCEPT !.user = u, !.pc = pc]
    OBVIOUS
  <1>1. /\ q.op = p.op /\ q.pc = pc /\ q.user = u /\ q.tok = p.tok
        /\ q.pair = p.pair /\ q.dels = p.dels /\ q.next = p.next
    BY DEF Request
  <1>2. q \in Request
    BY DEF Request
  <1>3. req' = [req EXCEPT ![r] = q]
    BY DEF Named
  <1> QED
    BY <1>1, <1>2, <1>3

\* What ReadToken calls have in common: the token names its user, or nobody.
LEMMA NamedOK ==
  ASSUME IInv, NEW r \in Req, NEW p \in Request, p = req[r], NEW u \in User,
         p.pc \in {"refGet", "valGet"}, p.op \in Bearers, p.tok \in Pair, p.pair = 0,
         Stored(p.tok, u), Works, NEW pc \in {"refSession", "valSet"},
         p.op = "Refresh" => pc = "refSession", p.op \in Routes => pc = "valSet",
         Named(r, u, pc),
         UNCHANGED <<stores, nextPair, known, failed, spent, byHand>>,
         ended' \in [User -> {"no", "ending", "yes"}],
         clash' \subseteq User, checked' \subseteq User
  PROVE  IInv' /\ Steps(r)
  <1>1. PICK q \in Request :
          /\ q.op = p.op /\ q.pc = pc /\ q.user = u /\ q.tok = p.tok
          /\ q.pair = p.pair /\ q.dels = p.dels /\ q.next = p.next
          /\ req' = [req EXCEPT ![r] = q]
    BY NamedFields DEF Pc
  <1>2. RequestInv(p)
    BY SlotFacts
  <1>3. Claim(q.tok, q.user) /\ u \in accounts /\ accounts' = accounts
    BY <1>1 DEF Claim, IInv, AccountInv, stores
  <1>4. p.tok \in known /\ p.dels = <<>> /\ p.next = "idle"
    BY <1>2 DEF RequestInv
  <1>5. RequestInv(q)'
    BY <1>1, <1>3, <1>4 DEF RequestInv, CallInv, Issues, Routes, Bearers, Undoing, Late
  <1>6. req[r].pc \notin {"delete", "setRefresh"}
    OBVIOUS
  <1> QED
    BY <1>1, <1>3, <1>5, <1>6, GoesOn

LEMMA RefreshGetOK ==
  ASSUME IInv, NEW r \in Req, RefreshGet(r)
  PROVE  IInv' /\ Steps(r)
  <1>1. CASE FailAndReturn(r)
    BY <1>1, FailReturn
  <1>2. CASE ~FailAndReturn(r)
    <2> PICK p \in Request : p = req[r]
      BY SlotFacts
    <2> PICK u : u = cache[refreshKey(p.tok)]
      OBVIOUS
    <2>1. /\ p.pc = "refGet" /\ Works
          /\ IF u = Miss THEN Return(r)
             ELSE req' = [req EXCEPT ![r].user = u, ![r].pc = "refSession"]
          /\ UNCHANGED <<stores, nextPair, hist>>
      BY <1>2 DEF RefreshGet
    <2>2. p.op = "Refresh" /\ p.op \in Bearers /\ p.op \notin Routes /\ RequestInv(p)
      BY <2>1, SlotFacts, CallFacts DEF Bearers, Routes
    <2>3. p.tok \in Pair /\ p.pair = 0 /\ u \in User \cup {Miss}
      BY <2>1, <2>2 DEF RequestInv, Late, Undoing, IInv, Types, CacheType
    <2>4. CASE u = Miss
      BY <2>1, <2>4, ReturnQuiet
    <2>5. CASE u # Miss
      <3>1. u \in User /\ Named(r, u, "refSession") /\ Stored(p.tok, u)
        BY <2>1, <2>3, <2>5 DEF Named, Stored
      <3> QED
        BY <2>1, <2>2, <2>3, <3>1, NoHistory, NamedOK
    <2> QED
      BY <2>4, <2>5
  <1> QED
    BY <1>1, <1>2

LEMMA ValidateGetOK ==
  ASSUME IInv, NEW r \in Req, ValidateGet(r)
  PROVE  IInv' /\ Steps(r)
  <1>1. CASE FailAndReturn(r)
    BY <1>1, FailReturn
  <1>2. CASE ~FailAndReturn(r)
    <2> PICK p \in Request : p = req[r]
      BY SlotFacts
    <2> PICK u : u = cache[accessKey(p.tok)]
      OBVIOUS
    <2>1. /\ p.pc = "valGet" /\ Works
          /\ IF u = Miss THEN Return(r) /\ UNCHANGED checked
             ELSE /\ req' = [req EXCEPT ![r].user = u, ![r].pc = "valSet"]
                  /\ checked' = IF Writing(u) = {} THEN checked ELSE checked \cup {u}
          /\ UNCHANGED <<stores, nextPair, known, failed, spent, byHand, ended, clash>>
      BY <1>2 DEF ValidateGet
    <2>2. p.op \in Routes /\ p.op \in Bearers /\ p.op # "Refresh" /\ RequestInv(p)
      BY <2>1, SlotFacts, CallFacts DEF Routes
    <2>3. p.tok \in Pair /\ p.pair = 0 /\ u \in User \cup {Miss}
      BY <2>1, <2>2 DEF RequestInv, Routes, Issues, IInv, Types, CacheType
    <2>4. CASE u = Miss
      BY <2>1, <2>4, ReturnQuiet DEF hist, overlap
    <2>5. CASE u # Miss
      <3>1. u \in User /\ Named(r, u, "valSet") /\ Stored(p.tok, u)
        BY <2>1, <2>3, <2>5 DEF Named, Stored
      <3>2. /\ ended' \in [User -> {"no", "ending", "yes"}]
            /\ clash' \subseteq User /\ checked' \subseteq User
        BY <2>1, <2>5, <3>1 DEF IInv, Types
      <3> QED
        BY <2>1, <2>2, <2>3, <3>1, <3>2, NamedOK
    <2> QED
      BY <2>4, <2>5
  <1> QED
    BY <1>1, <1>2

LEMMA RefreshSessionOK ==
  ASSUME IInv, NEW r \in Req, RefreshSession(r)
  PROVE  IInv' /\ Steps(r)
  <1>1. CASE FailAndReturn(r)
    BY <1>1, FailReturn
  <1>2. CASE ~FailAndReturn(r)
    <2> PICK p \in Request : p = req[r]
      BY SlotFacts
    <2>1. /\ p.pc = "refSession" /\ Works
          /\ IF IsActive(r) THEN Go(r, "invSession") /\ Begin(p.user, "no")
             ELSE Return(r) /\ UNCHANGED overlap
          /\ UNCHANGED <<stores, nextPair, known, failed, spent, byHand>>
      BY <1>2 DEF RefreshSession
    <2>2. p.op = "Refresh" /\ RequestInv(p)
      BY <2>1, SlotFacts, CallFacts
    <2>3. p.tok \in known /\ p.pair = 0 /\ p.user \in User
      BY <2>1, <2>2 DEF RequestInv, Bearers, Late, Undoing
    <2>4. CASE ~IsActive(r)
      BY <2>1, <2>4, ReturnQuiet DEF hist
    <2>5. CASE IsActive(r)
      <3>1. Go(r, "invSession") /\ Begin(p.user, "no")
        BY <2>1, <2>5
      <3>2. PICK q \in Request :
              /\ q.op = p.op /\ q.pc = "invSession" /\ q.user = p.user /\ q.tok = p.tok
              /\ q.pair = p.pair /\ q.dels = p.dels /\ q.next = p.next
              /\ req' = [req EXCEPT ![r] = q]
        BY <3>1, GoFields DEF Pc
      <3>3. /\ ended' \in [User -> {"no", "ending", "yes"}]
            /\ clash' \subseteq User /\ checked' \subseteq User
        BY <2>3, <3>1, BeginFacts DEF IInv
      <3>4. accounts' = accounts
        BY <2>1 DEF stores
      <3>5. RequestInv(q)'
        BY <2>1, <2>2, <2>3, <3>2, <3>4
           DEF RequestInv, CallInv, Issues, Routes, Bearers, Undoing, Inval, Late
      <3>6. req[r].pc \notin {"delete", "setRefresh"}
        BY <2>1
      <3> QED
        BY <2>1, <2>3, <3>2, <3>3, <3>5, <3>6, GoesOn
    <2> QED
      BY <2>4, <2>5
  <1> QED
    BY <1>1, <1>2

LEMMA DeletingFields ==
  ASSUME IInv, NEW r \in Req, NEW ks \in Seq(Key), NEW pc \in Pc, Deleting(r, ks, pc)
  PROVE  \E q \in Request :
            /\ q.op = req[r].op /\ q.pc = "delete" /\ q.user = req[r].user
            /\ q.tok = req[r].tok /\ q.pair = req[r].pair /\ q.dels = ks /\ q.next = pc
            /\ req' = [req EXCEPT ![r] = q]
  <1> PICK p \in Request : p = req[r]
    BY DEF IInv, Types
  <1> PICK q : q = [p EXCEPT !.pc = "delete", !.dels = ks, !.next = pc]
    OBVIOUS
  <1>1. /\ q.op = p.op /\ q.pc = "delete" /\ q.user = p.user /\ q.tok = p.tok
        /\ q.pair = p.pair /\ q.dels = ks /\ q.next = pc
    BY DEF Request
  <1>2. q \in Request
    <2>1. "delete" \in Pc
      BY DEF Pc
    <2> QED
      BY <2>1 DEF Request
  <1>3. req' = [req EXCEPT ![r] = q]
    BY DEF Deleting
  <1> QED
    BY <1>1, <1>2, <1>3

LEMMA TwoKeys ==
  ASSUME NEW k \in Key, NEW l \in Key
  PROVE  /\ <<k, l>> \in Seq(Key) /\ <<k, l>> # <<>> /\ Len(<<k, l>>) = 2
         /\ Two(<<k, l>>, k, l) /\ In(k, <<k, l>>) /\ In(l, <<k, l>>)
  <1>1. <<k, l>> \in Seq(Key) /\ <<k, l>> # <<>> /\ Len(<<k, l>>) = 2
    OBVIOUS
  <1>2. <<k, l>>[1] = k /\ <<k, l>>[2] = l
    OBVIOUS
  <1>3. 1 \in 1..Len(<<k, l>>) /\ 2 \in 1..Len(<<k, l>>)
    BY <1>1
  <1> QED
    BY <1>1, <1>2, <1>3 DEF Two, In

LEMMA InvalidateSessionOK ==
  ASSUME IInv, NEW r \in Req, InvalidateSession(r)
  PROVE  IInv' /\ Steps(r)
  <1>1. CASE FailAndReturn(r)
    BY <1>1, FailReturn
  <1>2. CASE ~FailAndReturn(r)
    <2> PICK p \in Request : p = req[r]
      BY SlotFacts
    <2> PICK y : y = cache[sessionKey(p.user)]
      OBVIOUS
    <2>1. /\ p.pc = "invSession" /\ Works
          /\ IF y = Miss THEN Go(r, "invAccess")
             ELSE Deleting(r, SessionKeys(p.user, y), "invAccess")
          /\ UNCHANGED <<stores, nextPair, hist>>
      BY <1>2 DEF InvalidateSession
    <2>2. p.op \in Issues \cup {"Logout"} /\ CallInv(p) /\ RequestInv(p)
      BY <2>1, SlotFacts, CallFacts DEF Inval
    <2>3. /\ p.user \in User /\ y \in Pair \cup {Miss} /\ p.pair = 0
          /\ p.dels = <<>> /\ p.next = "idle"
      BY <2>1, <2>2 DEF RequestInv, IInv, CacheType, Late, Undoing
    <2>4. /\ cache' = cache /\ accounts' = accounts /\ known' = known
          /\ nextPair' = nextPair /\ faults' = faults
          /\ req[r].pc \notin {"delete", "setRefresh"}
      BY <2>1, Unchanged DEF Works
    <2>5. CASE y = Miss
      <3>1. PICK q \in Request :
              /\ q.op = p.op /\ q.pc = "invAccess" /\ q.user = p.user /\ q.tok = p.tok
              /\ q.pair = p.pair /\ q.dels = p.dels /\ q.next = p.next
              /\ req' = [req EXCEPT ![r] = q]
        BY <2>1, <2>5, GoFields DEF Pc
      <3>2. RequestInv(q)'
        BY <2>1, <2>2, <2>3, <2>4, <3>1
           DEF RequestInv, CallInv, Issues, Routes, Bearers, Undoing, Inval, Late
      <3> QED
        BY <2>1, <2>3, <2>4, <3>1, <3>2, NoHistory, GoesOn
    <2>6. CASE y # Miss
      <3> PICK ks \in Seq(Key) : ks = SessionKeys(p.user, y)
        BY <2>3, <2>6, TwoKeys, KeyFacts DEF SessionKeys
      <3>1. PICK q \in Request :
              /\ q.op = p.op /\ q.pc = "delete" /\ q.user = p.user /\ q.tok = p.tok
              /\ q.pair = p.pair /\ q.dels = ks /\ q.next = "invAccess"
              /\ req' = [req EXCEPT ![r] = q]
        BY <2>1, <2>6, DeletingFields DEF Pc
      <3>2. /\ ks # <<>> /\ Len(ks) = 2
            /\ Two(ks, sessionKey(p.user), refreshKey(y))
        BY <2>3, <2>6, TwoKeys, KeyFacts DEF SessionKeys
      <3>3. Claim(y, p.user) /\ y \in Pair
        BY <2>3, <2>6 DEF Claim, Stored
      <3>4. y < nextPair
        BY <2>3, <3>3 DEF IInv, OwnerInv
      <3>5. ASSUME NEW v \in User, cache[sessionKey(v)] = y PROVE v = p.user
        BY <2>3, <3>3, <3>5 DEF IInv, OwnerInv, Claim, Stored
      <3>6. DeleteInv(q)'
        BY <2>3, <2>4, <3>1, <3>2, <3>3, <3>4, <3>5 DEF DeleteInv
      <3>7. RequestInv(q)'
        BY <2>1, <2>2, <2>3, <2>4, <3>1, <3>6
           DEF RequestInv, CallInv, Issues, Routes, Bearers, Undoing, Inval, Late
      <3> QED
        BY <2>1, <2>3, <2>4, <3>1, <3>7, NoHistory, GoesOn
    <2> QED
      BY <2>5, <2>6
  <1> QED
    BY <1>1, <1>2

LEMMA InvalidateAccessOK ==
  ASSUME IInv, NEW r \in Req, InvalidateAccess(r)
  PROVE  IInv' /\ Steps(r)
  <1>1. CASE FailAndReturn(r)
    BY <1>1, FailReturn
  <1>2. CASE ~FailAndReturn(r)
    <2> PICK p \in Request : p = req[r]
      BY SlotFacts
    <2> PICK y : y = cache[accessSessionKey(p.user)]
      OBVIOUS
    <2> PICK pc : pc = IF p.op = "Logout" THEN "setStatus" ELSE "setSession"
      OBVIOUS
    <2>1. /\ p.pc = "invAccess" /\ Works
          /\ IF y = Miss THEN Go(r, pc)
             ELSE Deleting(r, AccessKeys(p.user, y), pc)
          /\ UNCHANGED <<stores, nextPair, hist>>
      BY <1>2 DEF InvalidateAccess, AfterInvalidate
    <2>2. /\ p.op \in Issues \cup {"Logout"} /\ CallInv(p) /\ RequestInv(p)
          /\ pc \in Pc
      BY <2>1, SlotFacts, CallFacts DEF Inval, Pc
    <2>3. /\ p.user \in User /\ y \in Pair \cup {Miss} /\ p.pair = 0
          /\ p.dels = <<>> /\ p.next = "idle"
      BY <2>1, <2>2 DEF RequestInv, IInv, CacheType, Late, Undoing
    <2>4. /\ cache' = cache /\ accounts' = accounts /\ known' = known
          /\ nextPair' = nextPair /\ faults' = faults
          /\ req[r].pc \notin {"delete", "setRefresh"}
      BY <2>1, Unchanged DEF Works
    <2>5. CASE y = Miss
      <3>1. PICK q \in Request :
              /\ q.op = p.op /\ q.pc = pc /\ q.user = p.user /\ q.tok = p.tok
              /\ q.pair = p.pair /\ q.dels = p.dels /\ q.next = p.next
              /\ req' = [req EXCEPT ![r] = q]
        BY <2>1, <2>2, <2>5, GoFields
      <3>2. RequestInv(q)'
        BY <2>1, <2>2, <2>3, <2>4, <3>1
           DEF RequestInv, CallInv, Issues, Routes, Bearers, Undoing, Inval, Late
      <3> QED
        BY <2>1, <2>3, <2>4, <3>1, <3>2, NoHistory, GoesOn
    <2>6. CASE y # Miss
      <3> PICK ks \in Seq(Key) : ks = AccessKeys(p.user, y)
        BY <2>3, <2>6, TwoKeys, KeyFacts DEF AccessKeys
      <3>1. PICK q \in Request :
              /\ q.op = p.op /\ q.pc = "delete" /\ q.user = p.user /\ q.tok = p.tok
              /\ q.pair = p.pair /\ q.dels = ks /\ q.next = pc
              /\ req' = [req EXCEPT ![r] = q]
        BY <2>1, <2>2, <2>6, DeletingFields
      <3>2. ks # <<>> /\ Two(ks, accessSessionKey(p.user), accessKey(y))
        BY <2>3, <2>6, TwoKeys, KeyFacts DEF AccessKeys
      <3>3. DeleteInv(q)'
        BY <2>2, <2>3, <2>6, <3>1, <3>2 DEF DeleteInv
      <3>4. RequestInv(q)'
        BY <2>1, <2>2, <2>3, <2>4, <3>1, <3>3
           DEF RequestInv, CallInv, Issues, Routes, Bearers, Undoing, Inval, Late
      <3> QED
        BY <2>1, <2>3, <2>4, <3>1, <3>4, NoHistory, GoesOn
    <2> QED
      BY <2>5, <2>6
  <1> QED
    BY <1>1, <1>2

-----------------------------------------------------------------------------
(***************************************************************************)
(* Calls that write a row of the users table.                              *)
(***************************************************************************)

\* The request returns and the cache stays as it is.
LEMMA ReturnStep ==
  ASSUME IInv, NEW r \in Req, NEW q \in Request, q = Idle, Works,
         req' = [req EXCEPT ![r] = q], cache' = cache, nextPair' = nextPair,
         failed' = failed, Types', req[r].pc \notin {"delete", "setRefresh"},
         known \subseteq known',
         \A x \in known' \ known : x = req[r].pair /\ req[r].pc = "setStatus",
         accounts \subseteq accounts', \A v \in User \ accounts' : status'[v] = status[v]
  PROVE  IInv' /\ Steps(r)
  <1>1. q.op = "none" /\ q.pc = "idle" /\ q.user = Miss /\ q.pair = 0 /\ RequestInv(q)'
    BY IdleFacts
  <1>2. faults' = faults /\ faults <= faults'
    BY DEF Works, IInv, Types
  <1>3. CacheType' /\ Writes(r)
    BY DEF IInv, CacheType, Writes
  <1>4. ~Undoing(req[r]) /\ q.op \notin Bearers
    BY <1>1 DEF Undoing, Bearers, Routes
  <1>5. Step(r, q)
    BY <1>1, <1>2, <1>3, <1>4 DEF Step
  <1>6. SessionHasRefresh'
    BY <1>2, RefreshKept
  <1> QED
    BY <1>1, <1>5, <1>6, StepInv

LEMMA RegisterCreateOK ==
  ASSUME IInv, NEW r \in Req, RegisterCreate(r)
  PROVE  IInv' /\ Steps(r)
  <1>1. CASE FailAndReturn(r)
    BY <1>1, FailReturn
  <1>2. CASE ~FailAndReturn(r)
    <2> PICK p \in Request : p = req[r]
      BY SlotFacts
    <2> PICK q \in Request : q = Idle
      BY IdleFacts
    <2>1. /\ p.pc = "regCreate" /\ Works /\ Return(r)
          /\ accounts' = accounts \cup {p.user}
          /\ UNCHANGED <<cache, status, nextPair, hist>>
      BY <1>2 DEF RegisterCreate
    <2>2. p.op = "Register" /\ RequestInv(p) /\ p.user \in User
      BY <2>1, SlotFacts, CallFacts DEF RequestInv
    <2>3. /\ cache' = cache /\ status' = status
          /\ nextPair' = nextPair /\ known' = known /\ failed' = failed
          /\ spent' = spent /\ byHand' = byHand /\ ended' = ended
          /\ clash' = clash /\ checked' = checked
          /\ accounts \subseteq accounts' /\ accounts' \subseteq User
      BY <2>1, <2>2 DEF hist, overlap, IInv, Types
    <2>4. faults' = faults /\ req' = [req EXCEPT ![r] = q]
      BY <2>1 DEF Works, Return
    <2>5. Types'
      BY <2>3, <2>4 DEF IInv, Types
    <2>6. req[r].pc \notin {"delete", "setRefresh"} /\ known' \ known = {}
      BY <2>1, <2>3
    <2> QED
      BY <2>1, <2>3, <2>4, <2>5, <2>6, ReturnStep
  <1> QED
    BY <1>1, <1>2

LEMMA PatchStatusOK ==
  ASSUME IInv, NEW r \in Req, NEW u \in User, NEW st \in Status, PatchStatus(r, u, st)
  PROVE  IInv' /\ Steps(r)
  <1>1. CASE FailAndReturn(r)
    BY <1>1, FailReturn
  <1>2. CASE ~FailAndReturn(r)
    <2> PICK q \in Request : q = Idle
      BY IdleFacts
    <2>1. /\ req[r].pc = "patch" /\ Works /\ Return(r)
          /\ status' = IF u \in accounts THEN [status EXCEPT ![u] = st] ELSE status
          /\ byHand' = byHand \cup ({u} \cap accounts)
          /\ cache' = cache /\ accounts' = accounts /\ nextPair' = nextPair
          /\ known' = known /\ failed' = failed /\ spent' = spent
          /\ ended' = ended /\ clash' = clash /\ checked' = checked
      BY <1>2 DEF PatchStatus, overlap
    <2>2. /\ status' \in [User -> Status] /\ byHand' \subseteq User
          /\ \A v \in User : status'[v] # status[v] => v = u /\ u \in accounts
      BY <2>1 DEF IInv, Types
    <2>3. faults' = faults /\ req' = [req EXCEPT ![r] = q]
      BY <2>1 DEF Works, Return
    <2>4. Types'
      BY <2>1, <2>2, <2>3 DEF IInv, Types
    <2>5. /\ req[r].pc \notin {"delete", "setRefresh"} /\ known' \ known = {}
          /\ \A v \in User \ accounts' : status'[v] = status[v]
      BY <2>1, <2>2
    <2> QED
      BY <2>1, <2>3, <2>4, <2>5, ReturnStep
  <1> QED
    BY <1>1, <1>2

\* What the last call of Login, Refresh and Logout writes.
LEMMA StatusWrite ==
  ASSUME IInv, NEW r \in Req, SetStatus(r), ~FailAndReturn(r),
         NEW p \in Request, p = req[r]
  PROVE  /\ p.pc = "setStatus" /\ Works /\ Return(r)
         /\ p.op \in Issues \cup {"Logout"} /\ (p.op \in Issues <=> p.op # "Logout")
         /\ p.user \in User /\ (p.op \in Issues => p.user \in accounts /\ p.pair \in Pair)
         /\ status' \in [User -> Status] /\ byHand' = byHand \ {p.user}
         /\ \A v \in User : status'[v] = IF v = p.user /\ v \in accounts
                                         THEN NewStatus(p.op) ELSE status[v]
         /\ ended' \in [User -> {"no", "ending", "yes"}]
         /\ \A v \in User : ended'[v] = IF v = p.user /\ p.op = "Logout" /\ ended[v] = "ending"
                                        THEN "yes" ELSE ended[v]
         /\ known \subseteq known' /\ known' \subseteq Pair
         /\ \A x \in known' \ known : x = p.pair
         /\ spent' = IF p.op = "Refresh" THEN spent \cup {p.tok} ELSE spent
         /\ cache' = cache /\ accounts' = accounts /\ nextPair' = nextPair
         /\ failed' = failed /\ clash' = clash /\ checked' = checked
  <1> PICK u : u = p.user
    OBVIOUS
  <1>1. /\ p.pc = "setStatus" /\ Works /\ Return(r)
        /\ status' = IF u \in accounts THEN [status EXCEPT ![u] = NewStatus(p.op)]
                     ELSE status
        /\ byHand' = byHand \ {u}
        /\ known' = IF p.op = "Logout" THEN known ELSE known \cup {p.pair}
        /\ spent' = IF p.op = "Refresh" THEN spent \cup {p.tok} ELSE spent
        /\ ended' = IF p.op = "Logout" /\ ended[u] = "ending"
                    THEN [ended EXCEPT ![u] = "yes"] ELSE ended
        /\ cache' = cache /\ accounts' = accounts /\ nextPair' = nextPair
        /\ failed' = failed /\ clash' = clash /\ checked' = checked
    BY DEF SetStatus
  <1>2. p.op \in Issues \cup {"Logout"} /\ CallInv(p) /\ RequestInv(p)
    BY <1>1, SlotFacts, CallFacts DEF Inval
  <1>3. /\ u \in User
        /\ p.op \in Issues => u \in accounts /\ p.pair \in Pair
        /\ p.op \in Issues <=> p.op # "Logout"
    BY <1>1, <1>2 DEF RequestInv, Issues, Late
  <1>4. /\ status' \in [User -> Status]
        /\ \A v \in User : status'[v] = IF v = u /\ v \in accounts THEN NewStatus(p.op)
                                        ELSE status[v]
    BY <1>1, <1>3 DEF IInv, Types, NewStatus, Status
  <1>5. /\ ended' \in [User -> {"no", "ending", "yes"}]
        /\ \A v \in User : ended'[v] = IF v = u /\ p.op = "Logout" /\ ended[v] = "ending"
                                       THEN "yes" ELSE ended[v]
    BY <1>1, <1>3 DEF IInv, Types
  <1>6. /\ known \subseteq known' /\ known' \subseteq Pair
        /\ \A x \in known' \ known : x = p.pair
    BY <1>1, <1>2, <1>3 DEF IInv, Types
  <1> QED
    BY <1>1, <1>2, <1>3, <1>4, <1>5, <1>6

LEMMA SetStatusOK ==
  ASSUME IInv, NEW r \in Req, SetStatus(r)
  PROVE  IInv' /\ Steps(r)
  <1>1. CASE FailAndReturn(r)
    BY <1>1, FailReturn
  <1>2. CASE ~FailAndReturn(r)
    <2> PICK p \in Request : p = req[r]
      BY SlotFacts
    <2> PICK q \in Request : q = Idle
      BY IdleFacts
    <2>1. /\ p.pc = "setStatus" /\ Works /\ Return(r)
          /\ p.op \in Issues \cup {"Logout"}
          /\ p.user \in User /\ (p.op \in Issues => p.user \in accounts /\ p.pair \in Pair)
          /\ status' \in [User -> Status] /\ byHand' = byHand \ {p.user}
          /\ \A v \in User : status'[v] = IF v = p.user /\ v \in accounts
                                          THEN NewStatus(p.op) ELSE status[v]
          /\ ended' \in [User -> {"no", "ending", "yes"}]
          /\ known \subseteq known' /\ known' \subseteq Pair
          /\ \A x \in known' \ known : x = p.pair
          /\ spent' = IF p.op = "Refresh" THEN spent \cup {p.tok} ELSE spent
          /\ cache' = cache /\ accounts' = accounts /\ nextPair' = nextPair
          /\ failed' = failed /\ clash' = clash /\ checked' = checked
      BY <1>2, StatusWrite
    <2>2. spent' \subseteq Pair /\ byHand' \subseteq User
      <3>1. p.op = "Refresh" => p.tok \in known
        BY SlotFacts DEF RequestInv, Bearers
      <3> QED
        BY <2>1, <3>1 DEF IInv, Types
    <2>3. faults' = faults /\ req' = [req EXCEPT ![r] = q]
      BY <2>1 DEF Works, Return
    <2>4. Types'
      BY <2>1, <2>2, <2>3 DEF IInv, Types
    <2>5. /\ req[r].pc \notin {"delete", "setRefresh"}
          /\ \A x \in known' \ known : x = req[r].pair /\ req[r].pc = "setStatus"
          /\ \A v \in User \ accounts' : status'[v] = status[v]
      BY <2>1
    <2> QED
      BY <2>1, <2>3, <2>4, <2>5, ReturnStep
  <1> QED
    BY <1>1, <1>2

-----------------------------------------------------------------------------
(***************************************************************************)
(* Calls that write the cache.                                             *)
(***************************************************************************)

\* A write fails, before or after its effect, and the request returns.
LEMMA FailWrite ==
  ASSUME IInv, NEW r \in Req, Fails, Return(r), CacheType', Writes(r), req[r].pc # "delete",
         UNCHANGED <<accounts, status, known, spent, byHand, overlap>>,
         \/ nextPair' = nextPair
         \/ req[r].pair = 0 /\ nextPair \in Pair /\ nextPair' = nextPair + 1,
         failed' \subseteq Pair, \A p \in failed' \ failed : FailAt(p)'
  PROVE  IInv' /\ Steps(r)
  <1> PICK q \in Request : q = Idle
    BY IdleFacts
  <1>1. q.op = "none" /\ q.pc = "idle" /\ q.user = Miss /\ q.pair = 0 /\ RequestInv(q)'
    BY IdleFacts
  <1>2. req' = [req EXCEPT ![r] = q]
    BY DEF Return
  <1>3. /\ faults \in Nat /\ faults' = faults + 1 /\ faults' \in 0..MaxFaults
        /\ faults' > 0 /\ faults <= faults' /\ faults' # faults
    BY AuthAssumption DEF Fails, IInv, Types, AuthAssumption
  <1>4. nextPair' \in 1..(MaxPairs + 1)
    BY AuthAssumption DEF IInv, Types, AuthAssumption, Pair
  <1>5. Types'
    BY <1>2, <1>3, <1>4 DEF IInv, Types, overlap
  <1>6. q.op \notin Bearers /\ ~Undoing(req[r])
    BY <1>1 DEF Bearers, Routes, Undoing
  <1>7. Step(r, q)
    BY <1>1, <1>2, <1>3, <1>5, <1>6 DEF Step
  <1>8. SessionHasRefresh'
    BY <1>3 DEF SessionHasRefresh
  <1> QED
    BY <1>1, <1>3, <1>7, <1>8, StepInv

\* A request that presented a token writes, and goes on as q.
LEMMA BearerStep ==
  ASSUME IInv, NEW r \in Req, NEW q \in Request, req' = [req EXCEPT ![r] = q], Works,
         UNCHANGED <<accounts, status, nextPair, hist>>,
         CacheType', Writes(r), req[r].pc \in {"valSet", "valSetSession"}, q.pair = 0,
         q.user \in User /\ q.op \in Bearers =>
            q.user = req[r].user /\ q.op = req[r].op /\ q.tok = req[r].tok,
         \A u \in User : cache'[sessionKey(u)] = cache[sessionKey(u)],
         \A p \in Pair : cache'[refreshKey(p)] = cache[refreshKey(p)],
         RequestInv(q)'
  PROVE  IInv' /\ Steps(r)
  <1>1. /\ known' = known /\ failed' = failed /\ spent' = spent
        /\ byHand' = byHand /\ ended' = ended /\ clash' = clash /\ checked' = checked
    BY DEF hist, overlap
  <1>2. faults' = faults /\ faults <= faults'
    BY DEF Works, IInv, Types
  <1>3. Types'
    BY <1>1, <1>2 DEF IInv, Types
  <1>4. q.user \in User /\ q.op \in Bearers => Claim(q.tok, q.user)
    BY DEF Claim
  <1>5. Step(r, q)
    BY <1>1, <1>2, <1>3, <1>4 DEF Step, Undoing
  <1>6. SessionHasRefresh'
    BY <1>2, <1>3, RefreshKept
  <1> QED
    BY <1>1, <1>5, <1>6, StepInv

\* The call's effect on the cache, and the request that makes it.
LEMMA TokenWrite ==
  ASSUME IInv, NEW r \in Req, ValidateSet(r), NEW p \in Request, p = req[r]
  PROVE  /\ p.pc = "valSet" /\ p.op \in Routes /\ p.op \in Bearers
         /\ UNCHANGED <<accounts, status, nextPair, hist>>
         /\ p.tok \in Pair /\ p.tok \in known /\ p.pair = 0
         /\ p.user \in User /\ p.user \in accounts /\ p.dels = <<>> /\ p.next = "idle"
         /\ Set(accessKey(p.tok), p.user) =>
              /\ CacheType' /\ Writes(r)
              /\ \A v \in User : /\ cache'[sessionKey(v)] = cache[sessionKey(v)]
                                 /\ cache'[accessSessionKey(v)] = cache[accessSessionKey(v)]
              /\ \A y \in Pair : cache'[refreshKey(y)] = cache[refreshKey(y)]
              /\ \A y \in Pair : cache'[accessKey(y)] = IF y = p.tok THEN p.user
                                                        ELSE cache[accessKey(y)]
  <1>1. p.pc = "valSet" /\ UNCHANGED <<accounts, status, nextPair, hist>>
    BY DEF ValidateSet
  <1>2. p.op \in Routes /\ p.op \in Bearers /\ CallInv(p) /\ RequestInv(p)
    BY <1>1, SlotFacts, CallFacts
  <1>3. /\ p.tok \in Pair /\ p.pair = 0 /\ p.user \in User /\ CacheType
        /\ p.user \in accounts /\ p.dels = <<>> /\ p.next = "idle" /\ p.tok \in known
    BY <1>1, <1>2 DEF RequestInv, Routes, Issues, IInv, Types
  <1>4. ASSUME Set(accessKey(p.tok), p.user)
        PROVE  /\ CacheType' /\ Writes(r)
               /\ \A v \in User : /\ cache'[sessionKey(v)] = cache[sessionKey(v)]
                                  /\ cache'[accessSessionKey(v)] = cache[accessSessionKey(v)]
               /\ \A y \in Pair : cache'[refreshKey(y)] = cache[refreshKey(y)]
               /\ \A y \in Pair : cache'[accessKey(y)] = IF y = p.tok THEN p.user
                                                         ELSE cache[accessKey(y)]
    <2>1. /\ CacheType'
          /\ \A v \in User : /\ cache'[sessionKey(v)] = cache[sessionKey(v)]
                             /\ cache'[accessSessionKey(v)] = cache[accessSessionKey(v)]
          /\ \A y \in Pair : cache'[refreshKey(y)] = cache[refreshKey(y)]
          /\ \A y \in Pair : cache'[accessKey(y)] = IF y = p.tok THEN p.user
                                                    ELSE cache[accessKey(y)]
      BY <1>3, <1>4, PutAccess
    <2>2. Writes(r)
      BY <1>1, <2>1 DEF Writes
    <2> QED
      BY <2>1, <2>2
  <1> QED
    BY <1>1, <1>2, <1>3, <1>4

LEMMA ValidateSetOK ==
  ASSUME IInv, NEW r \in Req, ValidateSet(r)
  PROVE  IInv' /\ Steps(r)
  <1> PICK p \in Request : p = req[r]
    BY SlotFacts
  <1>1. /\ p.pc = "valSet" /\ p.op \in Routes /\ p.op \in Bearers
        /\ UNCHANGED <<accounts, status, nextPair, hist>>
        /\ p.tok \in Pair /\ p.tok \in known /\ p.pair = 0
        /\ p.user \in User /\ p.user \in accounts /\ p.dels = <<>> /\ p.next = "idle"
    BY TokenWrite
  <1>2. Set(accessKey(p.tok), p.user) =>
          /\ CacheType' /\ Writes(r)
          /\ \A v \in User : cache'[sessionKey(v)] = cache[sessionKey(v)]
          /\ \A y \in Pair : cache'[refreshKey(y)] = cache[refreshKey(y)]
    BY TokenWrite
  <1>3. /\ known' = known /\ failed' = failed /\ spent' = spent
        /\ byHand' = byHand /\ accounts' = accounts /\ status' = status
        /\ nextPair' = nextPair /\ UNCHANGED overlap
    BY <1>1 DEF hist
  <1>4. CASE Fails /\ Return(r)
    <2>1. Set(accessKey(p.tok), p.user) \/ cache' = cache
      BY <1>1, <1>4 DEF ValidateSet, Go, Works, Fails, IInv, Types
    <2>2. CacheType' /\ Writes(r)
      <3>1. CASE cache' = cache
        BY <3>1 DEF IInv, CacheType, Writes
      <3> QED
        BY <1>2, <2>1, <3>1
    <2>3. failed' \subseteq Pair /\ failed' \ failed = {}
      BY <1>3 DEF IInv, Types
    <2> QED
      BY <1>1, <1>3, <1>4, <2>2, <2>3, FailWrite
  <1>5. CASE ~(Fails /\ Return(r))
    <2>1. Works /\ Set(accessKey(p.tok), p.user) /\ Go(r, "valSetSession")
      BY <1>5 DEF ValidateSet
    <2>2. PICK q \in Request :
            /\ q.op = p.op /\ q.pc = "valSetSession" /\ q.user = p.user /\ q.tok = p.tok
            /\ q.pair = p.pair /\ q.dels = p.dels /\ q.next = p.next
            /\ req' = [req EXCEPT ![r] = q]
      BY <2>1, GoFields DEF Pc
    <2>3. RequestInv(q)'
      BY <1>1, <1>3, <2>2
         DEF RequestInv, CallInv, Issues, Routes, Bearers, Undoing
    <2>4. /\ q.pair = 0 /\ req[r].pc \in {"valSet", "valSetSession"}
          /\ q.user = req[r].user /\ q.op = req[r].op /\ q.tok = req[r].tok
      BY <1>1, <2>2
    <2> QED
      BY <1>1, <1>2, <2>1, <2>2, <2>3, <2>4, BearerStep
  <1> QED
    BY <1>4, <1>5

\* As TokenWrite.
LEMMA ActiveWrite ==
  ASSUME IInv, NEW r \in Req, ValidateSetSession(r), NEW p \in Request, p = req[r]
  PROVE  /\ p.pc = "valSetSession" /\ p.op \in Routes /\ p.op \in Bearers
         /\ UNCHANGED <<accounts, status, nextPair, hist>>
         /\ p.tok \in Pair /\ p.tok \in known /\ p.pair = 0
         /\ p.user \in User /\ p.user \in accounts /\ p.dels = <<>> /\ p.next = "idle"
         /\ Set(accessSessionKey(p.user), p.tok) =>
              /\ CacheType' /\ Writes(r)
              /\ \A v \in User : /\ cache'[sessionKey(v)] = cache[sessionKey(v)]
                                 /\ cache'[accessSessionKey(v)] =
                                       IF v = p.user THEN p.tok
                                       ELSE cache[accessSessionKey(v)]
              /\ \A y \in Pair : /\ cache'[refreshKey(y)] = cache[refreshKey(y)]
                                 /\ cache'[accessKey(y)] = cache[accessKey(y)]
  <1>1. p.pc = "valSetSession" /\ UNCHANGED <<accounts, status, nextPair, hist>>
    BY DEF ValidateSetSession
  <1>2. p.op \in Routes /\ p.op \in Bearers /\ CallInv(p) /\ RequestInv(p)
    BY <1>1, SlotFacts, CallFacts
  <1>3. /\ p.tok \in Pair /\ p.pair = 0 /\ p.user \in User /\ CacheType
        /\ p.user \in accounts /\ p.dels = <<>> /\ p.next = "idle" /\ p.tok \in known
    BY <1>1, <1>2 DEF RequestInv, Routes, Issues, IInv, Types
  <1>4. ASSUME Set(accessSessionKey(p.user), p.tok)
        PROVE  /\ CacheType' /\ Writes(r)
               /\ \A v \in User : /\ cache'[sessionKey(v)] = cache[sessionKey(v)]
                                  /\ cache'[accessSessionKey(v)] =
                                        IF v = p.user THEN p.tok
                                        ELSE cache[accessSessionKey(v)]
               /\ \A y \in Pair : /\ cache'[refreshKey(y)] = cache[refreshKey(y)]
                                  /\ cache'[accessKey(y)] = cache[accessKey(y)]
    <2>1. /\ CacheType'
          /\ \A v \in User : /\ cache'[sessionKey(v)] = cache[sessionKey(v)]
                             /\ cache'[accessSessionKey(v)] =
                                   IF v = p.user THEN p.tok ELSE cache[accessSessionKey(v)]
          /\ \A y \in Pair : /\ cache'[refreshKey(y)] = cache[refreshKey(y)]
                             /\ cache'[accessKey(y)] = cache[accessKey(y)]
      BY <1>3, <1>4, PutAccessSession
    <2>2. Writes(r)
      BY <1>1, <2>1 DEF Writes
    <2> QED
      BY <2>1, <2>2
  <1> QED
    BY <1>1, <1>2, <1>3, <1>4

LEMMA ValidateSetSessionOK ==
  ASSUME IInv, NEW r \in Req, ValidateSetSession(r)
  PROVE  IInv' /\ Steps(r)
  <1> PICK p \in Request : p = req[r]
    BY SlotFacts
  <1>1. /\ p.pc = "valSetSession" /\ p.op \in Routes /\ p.op \in Bearers
        /\ UNCHANGED <<accounts, status, nextPair, hist>>
        /\ p.tok \in Pair /\ p.tok \in known /\ p.pair = 0
        /\ p.user \in User /\ p.user \in accounts /\ p.dels = <<>> /\ p.next = "idle"
    BY ActiveWrite
  <1>2. Set(accessSessionKey(p.user), p.tok) =>
          /\ CacheType' /\ Writes(r)
          /\ \A v \in User : cache'[sessionKey(v)] = cache[sessionKey(v)]
          /\ \A y \in Pair : cache'[refreshKey(y)] = cache[refreshKey(y)]
    BY ActiveWrite
  <1>3. /\ known' = known /\ failed' = failed /\ spent' = spent
        /\ byHand' = byHand /\ accounts' = accounts /\ status' = status
        /\ nextPair' = nextPair /\ UNCHANGED overlap
    BY <1>1 DEF hist
  <1>4. CASE Fails /\ Return(r)
    <2>1. Set(accessSessionKey(p.user), p.tok) \/ cache' = cache
      BY <1>1, <1>4 DEF ValidateSetSession, ActiveAccess, Works, Fails, IInv, Types
    <2>2. CacheType' /\ Writes(r)
      <3>1. CASE cache' = cache
        BY <3>1 DEF IInv, CacheType, Writes
      <3> QED
        BY <1>2, <2>1, <3>1
    <2>3. failed' \subseteq Pair /\ failed' \ failed = {}
      BY <1>3 DEF IInv, Types
    <2> QED
      BY <1>1, <1>3, <1>4, <2>2, <2>3, FailWrite
  <1>5. CASE ~(Fails /\ Return(r))
    <2>1. /\ Works /\ Set(accessSessionKey(p.user), p.tok)
          /\ IF p.op = "Patch" THEN Go(r, "patch") ELSE Return(r)
      BY <1>5 DEF ValidateSetSession, ActiveAccess
    <2>2. PICK q \in Request :
            /\ q.pair = 0 /\ req' = [req EXCEPT ![r] = q] /\ RequestInv(q)'
            /\ \/ q.pc = "idle" /\ q.user = Miss /\ q.op = "none"
               \/ q.pc = "patch" /\ q.user = p.user /\ q.op = p.op /\ q.tok = p.tok
      <3>1. CASE p.op = "Patch"
        <4>1. PICK q \in Request :
                /\ q.op = p.op /\ q.pc = "patch" /\ q.user = p.user /\ q.tok = p.tok
                /\ q.pair = p.pair /\ q.dels = p.dels /\ q.next = p.next
                /\ req' = [req EXCEPT ![r] = q]
          BY <2>1, <3>1, GoFields DEF Pc
        <4>2. RequestInv(q)'
          BY <1>1, <1>3, <4>1
             DEF RequestInv, CallInv, Issues, Routes, Bearers, Undoing
        <4> QED
          BY <1>1, <4>1, <4>2
      <3>2. CASE p.op # "Patch"
        BY <2>1, <3>2, IdleFacts DEF Return
      <3> QED
        BY <3>1, <3>2
    <2>3. /\ req[r].pc \in {"valSet", "valSetSession"}
          /\ q.user \in User /\ q.op \in Bearers =>
                q.user = req[r].user /\ q.op = req[r].op /\ q.tok = req[r].tok
      BY <1>1, <2>2, MissFacts
    <2> QED
      BY <1>1, <1>2, <2>1, <2>2, <2>3, BearerStep
  <1> QED
    BY <1>4, <1>5

-----------------------------------------------------------------------------
(***************************************************************************)
(* issueTokens.                                                            *)
(***************************************************************************)
Issuing == {"setRefresh", "setAccess", "setAccessSession"}

LEMMA IssueFacts ==
  ASSUME IInv, NEW r \in Req, NEW p \in Request, p = req[r], p.pc \in Issuing
  PROVE  /\ p.op \in Issues /\ p.pair \in Pair /\ p.pair # 0 /\ p.pair \notin known
         /\ p.pair < nextPair
         /\ p.user \in User /\ p.user \in accounts /\ p.dels = <<>> /\ p.next = "idle"
         /\ p.op \in Bearers => p.tok \in known
         /\ p.pc # "setAccessSession" => cache[accessKey(p.pair)] = Miss
         /\ \A s \in Req : req[s].pair = p.pair => s = r
         /\ \A u \in User : cache[sessionKey(u)] = p.pair => u = p.user
         /\ \A u \in User : cache[refreshKey(p.pair)] = u => u = p.user
  <1>1. CallInv(p) /\ RequestInv(p)
    BY SlotFacts
  <1>2. p.op \in Issues /\ p.pc \in Late
    BY <1>1, CallFacts DEF Issuing, Late
  <1>3. p.pair \in Pair /\ p.pair # 0
    BY <1>1, <1>2, MissFacts DEF RequestInv
  <1>4. \A s \in Req : req[s].pair = p.pair => s = r
    BY <1>3 DEF IInv, OwnerInv
  <1>5. ASSUME NEW u \in User, Stored(p.pair, u) PROVE u = p.user
    BY <1>3, <1>5 DEF IInv, OwnerInv, Claim
  <1>6. \A u \in User : cache[sessionKey(u)] = p.pair \/ cache[refreshKey(p.pair)] = u
           => u = p.user
    BY <1>5 DEF Stored
  <1>7. p.pc \in Issuing
    OBVIOUS
  <1> QED
    BY <1>1, <1>2, <1>3, <1>4, <1>6, <1>7 DEF RequestInv, Issuing, Undoing

\* A Set failed, and what was stored before is to be deleted.
LEMMA FailUndo ==
  ASSUME IInv, NEW r \in Req, NEW p \in Request, p = req[r], p.pc \in Issuing,
         Fails, NEW ks \in Seq(Key), ks # <<>>, Deleting(r, ks, "idle"),
         CacheType', Writes(r), failed' = failed \cup {p.pair},
         UNCHANGED <<accounts, status, nextPair, known, spent, byHand, overlap>>,
         \A u \in User : AccessLive(p.pair, u)' => In(accessKey(p.pair), ks),
         \A u \in User : RefreshLive(p.pair, u)' =>
                            In(sessionKey(u), ks) \/ In(refreshKey(p.pair), ks)
  PROVE  IInv' /\ Steps(r)
  <1>1. /\ p.op \in Issues /\ p.pair \in Pair /\ p.pair # 0 /\ p.pair \notin known
        /\ p.pair < nextPair /\ p.user \in User /\ p.user \in accounts
        /\ p.op \in Bearers => p.tok \in known
        /\ \A s \in Req : req[s].pair = p.pair => s = r
    BY IssueFacts
  <1>2. PICK q \in Request :
            /\ q.op = p.op /\ q.pc = "delete" /\ q.user = p.user
            /\ q.tok = p.tok /\ q.pair = p.pair /\ q.dels = ks /\ q.next = "idle"
            /\ req' = [req EXCEPT ![r] = q]
    BY DeletingFields DEF Pc
  <1>3. /\ faults \in Nat /\ faults' = faults + 1 /\ faults' \in 0..MaxFaults
        /\ faults' > 0 /\ faults <= faults' /\ faults' # faults
    BY AuthAssumption DEF Fails, IInv, Types, AuthAssumption
  <1>4. Types'
    BY <1>1, <1>2, <1>3 DEF IInv, Types, overlap
  <1>5. q.user \in User /\ q.op \in Bearers => Claim(q.tok, q.user)
    BY <1>2 DEF Claim
  <1>6. Undoing(q) /\ ~Undoing(req[r])
    BY <1>2 DEF Undoing, Issuing
  <1>7. Step(r, q)
    <2>1. /\ q.pair = req[r].pair /\ req[r].user \in {Miss, q.user}
          /\ nextPair' = nextPair /\ known' = known /\ accounts' = accounts
          /\ status' = status
      BY <1>2
    <2> QED
      BY <1>2, <1>3, <1>4, <1>5, <1>6, <2>1 DEF Step
  <1>8. RequestInv(q)'
    BY <1>1, <1>2, <1>3, <1>6
       DEF RequestInv, CallInv, DeleteInv, Inval, Issues, Routes, Bearers, Undoing
  <1>9. FailAt(p.pair)'
    <2>1. \A s \in Req : req'[s] = IF s = r THEN q ELSE req[s]
      BY <1>2, SlotAfter DEF IInv
    <2>2. \A s \in Req : req'[s].pair = p.pair => s = r
      BY <1>1, <2>1
    <2>3. req'[r].pair = p.pair /\ req'[r].dels = ks /\ req'[r].pc = "delete"
          /\ req'[r].next = "idle"
      BY <1>2, <2>1
    <2> QED
      BY <1>1, <2>2, <2>3 DEF FailAt, Undoing, AccessLive, RefreshLive
  <1>10. failed' # failed => faults' > 0 /\ \A x \in failed' \ failed : FailAt(x)'
    <2>1. ASSUME NEW x \in failed' \ failed PROVE FailAt(x)'
      <3>1. x = p.pair
        OBVIOUS
      <3> QED
        BY <1>9, <3>1 DEF FailAt, AccessLive, RefreshLive
    <2> QED
      BY <1>3, <2>1
  <1>11. SessionHasRefresh'
    BY <1>3 DEF SessionHasRefresh
  <1> QED
    BY <1>7, <1>8, <1>10, <1>11, StepInv

\* A Set works, and the request goes on as q.
LEMMA IssueGo ==
  ASSUME IInv, NEW r \in Req, NEW p \in Request, p = req[r], p.pc \in Issuing,
         NEW q \in Request, req' = [req EXCEPT ![r] = q], Works,
         q.op = p.op, q.user = p.user, q.tok = p.tok, q.pair = p.pair,
         q.dels = p.dels, q.next = p.next, q.pc \in Late,
         UNCHANGED <<accounts, status, nextPair, known, failed, spent, byHand, overlap>>,
         CacheType', Writes(r),
         q.pc \in {"setRefresh", "setAccess"} => cache'[accessKey(p.pair)] = Miss,
         SessionHasRefresh'
  PROVE  IInv' /\ Steps(r)
  <1>1. /\ p.op \in Issues /\ p.pair \in Pair /\ p.pair # 0 /\ p.pair \notin known
        /\ p.pair < nextPair
        /\ p.user \in User /\ p.user \in accounts /\ p.dels = <<>> /\ p.next = "idle"
        /\ p.op \in Bearers => p.tok \in known
    BY IssueFacts
  <1>2. faults' = faults /\ faults <= faults'
    BY DEF Works, IInv, Types
  <1>3. Types'
    BY <1>2 DEF IInv, Types, overlap
  <1>4. q.user \in User /\ q.op \in Bearers => Claim(q.tok, q.user)
    BY DEF Claim
  <1>5. ~Undoing(req[r]) /\ known' \ known = {}
    BY DEF Undoing, Issuing
  <1>6. Step(r, q)
    <2>1. /\ q.pair = req[r].pair /\ req[r].user \in {Miss, q.user}
          /\ nextPair' = nextPair /\ known' = known /\ accounts' = accounts
          /\ status' = status
      OBVIOUS
    <2> QED
      BY <1>2, <1>3, <1>4, <1>5, <2>1 DEF Step
  <1>7. RequestInv(q)'
    BY <1>1, <1>2
       DEF RequestInv, CallInv, Late, Inval, Issues, Routes, Bearers, Undoing
  <1> QED
    BY <1>6, <1>7, StepInv

\* The next pair: nothing is stored under it.
LEMMA FreshPair ==
  ASSUME IInv, nextPair \in Pair
  PROVE  /\ nextPair \notin known /\ nextPair # 0
         /\ nextPair \in Nat /\ nextPair < nextPair + 1
         /\ nextPair + 1 \in 1..(MaxPairs + 1)
         /\ cache[refreshKey(nextPair)] = Miss /\ cache[accessKey(nextPair)] = Miss
         /\ \A s \in Req : req[s].pair # nextPair
  <1>1. nextPair \in Nat /\ nextPair # 0 /\ nextPair + 1 \in 1..(MaxPairs + 1)
    BY AuthAssumption DEF Pair, AuthAssumption
  <1>2. ASSUME NEW u \in User, Stored(nextPair, u) PROVE FALSE
    <2>1. nextPair < nextPair
      BY <1>2 DEF IInv, OwnerInv, Claim
    <2> QED
      BY <1>1, <2>1
  <1>3. cache[refreshKey(nextPair)] = Miss /\ cache[accessKey(nextPair)] = Miss
    BY <1>2 DEF Stored, IInv, CacheType
  <1>4. nextPair \notin known
    BY <1>1 DEF IInv, OwnerInv
  <1>5. \A s \in Req : req[s].pair # nextPair
    <2> TAKE s \in Req
    <2>1. req[s] \in Request /\ RequestInv(req[s])
      BY SlotFacts
    <2>2. req[s].pair = 0 \/ req[s].pair < nextPair
      BY <2>1 DEF RequestInv
    <2> QED
      BY <1>1, <2>2
  <1> QED
    BY <1>1, <1>3, <1>4, <1>5

\* What the four Sets do to the cache, and who makes them.
LEMMA SessionWrite ==
  ASSUME IInv, NEW r \in Req, IssueSession(r), NEW p \in Request, p = req[r]
  PROVE  /\ p.pc = "setSession" /\ p.op \in Issues /\ p.pair = 0
         /\ p.user \in User /\ p.user \in accounts /\ p.dels = <<>> /\ p.next = "idle"
         /\ p.op \in Bearers => p.tok \in known
         /\ nextPair \in Pair /\ nextPair' = nextPair + 1
         /\ \/ /\ Works /\ Set(sessionKey(p.user), nextPair) /\ failed' = failed
               /\ \E q \in Request :
                    /\ q.op = p.op /\ q.pc = "setRefresh" /\ q.user = p.user
                    /\ q.tok = p.tok /\ q.pair = nextPair /\ q.dels = <<>>
                    /\ q.next = "idle" /\ req' = [req EXCEPT ![r] = q]
            \/ /\ Fails /\ (Set(sessionKey(p.user), nextPair) \/ cache' = cache)
               /\ Return(r) /\ failed' = failed \cup {nextPair}
         /\ UNCHANGED <<accounts, status, known, spent, byHand, overlap>>
         /\ Set(sessionKey(p.user), nextPair) =>
              /\ CacheType' /\ Writes(r)
              /\ \A v \in User : /\ cache'[sessionKey(v)] =
                                       IF v = p.user THEN nextPair ELSE cache[sessionKey(v)]
                                 /\ cache'[accessSessionKey(v)] = cache[accessSessionKey(v)]
              /\ \A y \in Pair : /\ cache'[refreshKey(y)] = cache[refreshKey(y)]
                                 /\ cache'[accessKey(y)] = cache[accessKey(y)]
  <1>1. p.pc = "setSession" /\ nextPair \in Pair /\ nextPair' = nextPair + 1
    BY DEF IssueSession
  <1>2. CallInv(p) /\ RequestInv(p) /\ p.op \in Issues
    BY <1>1, SlotFacts, CallFacts
  <1>3. /\ p.user \in User /\ p.user \in accounts /\ p.dels = <<>> /\ p.next = "idle"
        /\ p.op \in Bearers => p.tok \in known
        /\ p.pair = 0
    BY <1>1, <1>2 DEF RequestInv, Late, Undoing
  <1>4. ASSUME Set(sessionKey(p.user), nextPair)
        PROVE  /\ CacheType' /\ Writes(r)
               /\ \A v \in User : /\ cache'[sessionKey(v)] =
                                        IF v = p.user THEN nextPair ELSE cache[sessionKey(v)]
                                  /\ cache'[accessSessionKey(v)] = cache[accessSessionKey(v)]
               /\ \A y \in Pair : /\ cache'[refreshKey(y)] = cache[refreshKey(y)]
                                  /\ cache'[accessKey(y)] = cache[accessKey(y)]
    <2>1. /\ CacheType'
          /\ \A v \in User : /\ cache'[sessionKey(v)] =
                                   IF v = p.user THEN nextPair ELSE cache[sessionKey(v)]
                             /\ cache'[accessSessionKey(v)] = cache[accessSessionKey(v)]
          /\ \A y \in Pair : /\ cache'[refreshKey(y)] = cache[refreshKey(y)]
                             /\ cache'[accessKey(y)] = cache[accessKey(y)]
      BY <1>1, <1>3, <1>4, PutSession DEF IInv
    <2>2. Writes(r)
      BY <1>1, <2>1 DEF Writes
    <2> QED
      BY <2>1, <2>2
  <1>5. ASSUME req' = [req EXCEPT ![r].pc = "setRefresh", ![r].pair = nextPair]
        PROVE  \E q \in Request :
                    /\ q.op = p.op /\ q.pc = "setRefresh" /\ q.user = p.user
                    /\ q.tok = p.tok /\ q.pair = nextPair /\ q.dels = <<>>
                    /\ q.next = "idle" /\ req' = [req EXCEPT ![r] = q]
    <2> PICK q : q = [p EXCEPT !.pc = "setRefresh", !.pair = nextPair]
      OBVIOUS
    <2>1. /\ q.op = p.op /\ q.pc = "setRefresh" /\ q.user = p.user
          /\ q.tok = p.tok /\ q.pair = nextPair /\ q.dels = p.dels /\ q.next = p.next
      BY DEF Request
    <2>2. q \in Request
      BY <1>1 DEF Request, Pc
    <2>3. req' = [req EXCEPT ![r] = q]
      BY <1>5
    <2> QED
      BY <1>3, <2>1, <2>2, <2>3
  <1> QED
    BY <1>1, <1>2, <1>3, <1>4, <1>5 DEF IssueSession

LEMMA RefreshWrite ==
  ASSUME IInv, NEW r \in Req, IssueRefresh(r), NEW p \in Request, p = req[r]
  PROVE  /\ p.pc = "setRefresh" /\ p.pc \in Issuing /\ p.op \in Issues
         /\ p.user \in User /\ p.pair \in Pair
         /\ \/ /\ Works /\ Set(refreshKey(p.pair), p.user) /\ Go(r, "setAccess") /\ failed' = failed
            \/ /\ Fails /\ (Set(refreshKey(p.pair), p.user) \/ cache' = cache)
               /\ Deleting(r, <<sessionKey(p.user)>>, "idle") /\ failed' = failed \cup {p.pair}
         /\ UNCHANGED <<accounts, status, nextPair, known, spent, byHand, overlap>>
         /\ Set(refreshKey(p.pair), p.user) =>
              /\ CacheType' /\ Writes(r)
              /\ \A v \in User : /\ cache'[sessionKey(v)] = cache[sessionKey(v)]
                                 /\ cache'[accessSessionKey(v)] = cache[accessSessionKey(v)]
              /\ \A y \in Pair : /\ cache'[refreshKey(y)] =
                                       IF y = p.pair THEN p.user ELSE cache[refreshKey(y)]
                                 /\ cache'[accessKey(y)] = cache[accessKey(y)]
  <1>1. /\ p.pc = "setRefresh"
        /\ \/ /\ Works /\ Set(refreshKey(p.pair), p.user) /\ Go(r, "setAccess") /\ failed' = failed
           \/ /\ Fails /\ (Set(refreshKey(p.pair), p.user) \/ cache' = cache)
              /\ Deleting(r, <<sessionKey(p.user)>>, "idle") /\ failed' = failed \cup {p.pair}
        /\ UNCHANGED <<accounts, status, nextPair, known, spent, byHand, overlap>>
    BY DEF IssueRefresh, Issue
  <1>2. p.op \in Issues /\ p.user \in User /\ p.pair \in Pair /\ p.pc \in Issuing
    BY <1>1, IssueFacts DEF Issuing
  <1>3. ASSUME Set(refreshKey(p.pair), p.user)
        PROVE  /\ CacheType'
               /\ \A v \in User : /\ cache'[sessionKey(v)] = cache[sessionKey(v)]
                                  /\ cache'[accessSessionKey(v)] = cache[accessSessionKey(v)]
               /\ \A y \in Pair : /\ cache'[refreshKey(y)] =
                                        IF y = p.pair THEN p.user ELSE cache[refreshKey(y)]
                                  /\ cache'[accessKey(y)] = cache[accessKey(y)]
    BY <1>2, <1>3, PutRefresh DEF IInv
  <1>4. Set(refreshKey(p.pair), p.user) => Writes(r)
    BY <1>1, <1>3 DEF Writes
  <1> QED
    BY <1>1, <1>2, <1>3, <1>4

UndoAccess(p) == <<sessionKey(p.user), refreshKey(p.pair), accessKey(p.pair)>>

LEMMA AccessWrite ==
  ASSUME IInv, NEW r \in Req, IssueAccess(r), NEW p \in Request, p = req[r]
  PROVE  /\ p.pc = "setAccess" /\ p.pc \in Issuing /\ p.op \in Issues
         /\ p.user \in User /\ p.pair \in Pair
         /\ \/ /\ Works /\ Set(accessKey(p.pair), p.user) /\ Go(r, "setAccessSession") /\ failed' = failed
            \/ /\ Fails /\ (Set(accessKey(p.pair), p.user) \/ cache' = cache)
               /\ Deleting(r, UndoAccess(p), "idle") /\ failed' = failed \cup {p.pair}
         /\ UNCHANGED <<accounts, status, nextPair, known, spent, byHand, overlap>>
         /\ Set(accessKey(p.pair), p.user) =>
              /\ CacheType' /\ Writes(r)
              /\ \A v \in User : /\ cache'[sessionKey(v)] = cache[sessionKey(v)]
                                 /\ cache'[accessSessionKey(v)] = cache[accessSessionKey(v)]
              /\ \A y \in Pair : /\ cache'[refreshKey(y)] = cache[refreshKey(y)]
                                 /\ cache'[accessKey(y)] =
                                       IF y = p.pair THEN p.user ELSE cache[accessKey(y)]
  <1>1. /\ p.pc = "setAccess"
        /\ \/ /\ Works /\ Set(accessKey(p.pair), p.user) /\ Go(r, "setAccessSession") /\ failed' = failed
           \/ /\ Fails /\ (Set(accessKey(p.pair), p.user) \/ cache' = cache)
              /\ Deleting(r, UndoAccess(p), "idle") /\ failed' = failed \cup {p.pair}
        /\ UNCHANGED <<accounts, status, nextPair, known, spent, byHand, overlap>>
    BY DEF IssueAccess, Issue, UndoAccess
  <1>2. p.op \in Issues /\ p.user \in User /\ p.pair \in Pair /\ p.pc \in Issuing
    BY <1>1, IssueFacts DEF Issuing
  <1>3. ASSUME Set(accessKey(p.pair), p.user)
        PROVE  /\ CacheType'
               /\ \A v \in User : /\ cache'[sessionKey(v)] = cache[sessionKey(v)]
                                  /\ cache'[accessSessionKey(v)] = cache[accessSessionKey(v)]
               /\ \A y \in Pair : /\ cache'[refreshKey(y)] = cache[refreshKey(y)]
                                  /\ cache'[accessKey(y)] =
                                        IF y = p.pair THEN p.user ELSE cache[accessKey(y)]
    BY <1>2, <1>3, PutAccess DEF IInv
  <1>4. Set(accessKey(p.pair), p.user) => Writes(r)
    BY <1>1, <1>3 DEF Writes
  <1> QED
    BY <1>1, <1>2, <1>3, <1>4

LEMMA AccessSessionWrite ==
  ASSUME IInv, NEW r \in Req, IssueAccessSession(r), NEW p \in Request, p = req[r]
  PROVE  /\ p.pc = "setAccessSession" /\ p.pc \in Issuing /\ p.op \in Issues
         /\ p.user \in User /\ p.pair \in Pair
         /\ \/ /\ Works /\ Set(accessSessionKey(p.user), p.pair) /\ Go(r, "setStatus") /\ failed' = failed
            \/ /\ Fails /\ (Set(accessSessionKey(p.user), p.pair) \/ cache' = cache)
               /\ Deleting(r, AllKeys(p.user, p.pair), "idle") /\ failed' = failed \cup {p.pair}
         /\ UNCHANGED <<accounts, status, nextPair, known, spent, byHand, overlap>>
         /\ Set(accessSessionKey(p.user), p.pair) =>
              /\ CacheType' /\ Writes(r)
              /\ \A v \in User : /\ cache'[sessionKey(v)] = cache[sessionKey(v)]
                                 /\ cache'[accessSessionKey(v)] =
                                       IF v = p.user THEN p.pair
                                       ELSE cache[accessSessionKey(v)]
              /\ \A y \in Pair : /\ cache'[refreshKey(y)] = cache[refreshKey(y)]
                                 /\ cache'[accessKey(y)] = cache[accessKey(y)]
  <1>1. /\ p.pc = "setAccessSession"
        /\ \/ /\ Works /\ Set(accessSessionKey(p.user), p.pair) /\ Go(r, "setStatus") /\ failed' = failed
           \/ /\ Fails /\ (Set(accessSessionKey(p.user), p.pair) \/ cache' = cache)
              /\ Deleting(r, AllKeys(p.user, p.pair), "idle") /\ failed' = failed \cup {p.pair}
        /\ UNCHANGED <<accounts, status, nextPair, known, spent, byHand, overlap>>
    BY DEF IssueAccessSession, Issue
  <1>2. p.op \in Issues /\ p.user \in User /\ p.pair \in Pair /\ p.pc \in Issuing
    BY <1>1, IssueFacts DEF Issuing
  <1>3. ASSUME Set(accessSessionKey(p.user), p.pair)
        PROVE  /\ CacheType'
               /\ \A v \in User : /\ cache'[sessionKey(v)] = cache[sessionKey(v)]
                                  /\ cache'[accessSessionKey(v)] =
                                        IF v = p.user THEN p.pair
                                        ELSE cache[accessSessionKey(v)]
               /\ \A y \in Pair : /\ cache'[refreshKey(y)] = cache[refreshKey(y)]
                                  /\ cache'[accessKey(y)] = cache[accessKey(y)]
    BY <1>2, <1>3, PutAccessSession DEF IInv
  <1>4. Set(accessSessionKey(p.user), p.pair) => Writes(r)
    BY <1>1, <1>3 DEF Writes
  <1> QED
    BY <1>1, <1>2, <1>3, <1>4

LEMMA IssueSessionOK ==
  ASSUME IInv, NEW r \in Req, IssueSession(r)
  PROVE  IInv' /\ Steps(r)
  <1> PICK p \in Request : p = req[r]
    BY SlotFacts
  <1>1. /\ p.pc = "setSession" /\ p.op \in Issues /\ p.pair = 0
        /\ p.user \in User /\ p.user \in accounts /\ p.dels = <<>> /\ p.next = "idle"
        /\ p.op \in Bearers => p.tok \in known
        /\ nextPair \in Pair /\ nextPair' = nextPair + 1
        /\ UNCHANGED <<accounts, status, known, spent, byHand, overlap>>
    BY SessionWrite
  <1>2. Set(sessionKey(p.user), nextPair) =>
          /\ CacheType' /\ Writes(r)
          /\ \A v \in User : cache'[sessionKey(v)] =
                                   IF v = p.user THEN nextPair ELSE cache[sessionKey(v)]
          /\ \A y \in Pair : /\ cache'[refreshKey(y)] = cache[refreshKey(y)]
                             /\ cache'[accessKey(y)] = cache[accessKey(y)]
    BY SessionWrite
  <1>3. /\ nextPair \notin known /\ nextPair # 0 /\ nextPair \in Nat
        /\ nextPair < nextPair' /\ nextPair' \in 1..(MaxPairs + 1)
        /\ cache[refreshKey(nextPair)] = Miss /\ cache[accessKey(nextPair)] = Miss
        /\ \A s \in Req : req[s].pair # nextPair
    BY <1>1, FreshPair
  <1>4. CASE Fails /\ Return(r) /\ failed' = failed \cup {nextPair}
    <2>1. Set(sessionKey(p.user), nextPair) \/ cache' = cache
      BY <1>1, <1>4, SessionWrite DEF Works, Fails, IInv, Types
    <2>2. /\ CacheType' /\ Writes(r)
          /\ cache'[refreshKey(nextPair)] = Miss /\ cache'[accessKey(nextPair)] = Miss
      <3>1. CASE cache' = cache
        BY <1>3, <3>1 DEF IInv, CacheType, Writes
      <3> QED
        BY <1>1, <1>2, <1>3, <2>1, <3>1
    <2>3. failed' \subseteq Pair /\ failed' \ failed \subseteq {nextPair}
      BY <1>1, <1>4 DEF IInv, Types
    <2>4. PICK n \in Pair : n = nextPair
      BY <1>1
    <2>5. FailAt(n)'
      <3>1. PICK q \in Request : q.pair = 0 /\ req' = [req EXCEPT ![r] = q]
        BY <1>4, IdleFacts DEF Return
      <3>2. \A s \in Req : req'[s] = IF s = r THEN q ELSE req[s]
        BY <3>1, SlotAfter DEF IInv
      <3>3. \A s \in Req : req'[s].pair # n
        BY <1>3, <2>4, <3>1, <3>2
      <3>4. n < nextPair' /\ n \notin known'
        BY <1>1, <1>3, <2>4
      <3>5. \A u \in User : cache'[accessKey(n)] # u /\ cache'[refreshKey(n)] # u
        BY <2>2, <2>4, MissFacts
      <3> QED
        BY <3>3, <3>4, <3>5 DEF FailAt, AccessLive, RefreshLive
    <2>6. \A x \in failed' \ failed : FailAt(x)'
      <3> TAKE x \in failed' \ failed
      <3>1. x = n
        BY <2>3, <2>4
      <3> QED
        BY <2>5, <3>1 DEF FailAt, AccessLive, RefreshLive, Undoing
    <2> QED
      BY <1>1, <1>4, <2>2, <2>3, <2>6, FailWrite
  <1>5. CASE ~(Fails /\ Return(r) /\ failed' = failed \cup {nextPair})
    <2>1. /\ Works /\ Set(sessionKey(p.user), nextPair) /\ failed' = failed
          /\ \E q \in Request :
               /\ q.op = p.op /\ q.pc = "setRefresh" /\ q.user = p.user
               /\ q.tok = p.tok /\ q.pair = nextPair /\ q.dels = <<>>
               /\ q.next = "idle" /\ req' = [req EXCEPT ![r] = q]
      BY <1>5, SessionWrite
    <2>2. PICK q \in Request :
               /\ q.op = p.op /\ q.pc = "setRefresh" /\ q.user = p.user
               /\ q.tok = p.tok /\ q.pair = nextPair /\ q.dels = <<>>
               /\ q.next = "idle" /\ req' = [req EXCEPT ![r] = q]
      BY <2>1
    <2>3. faults' = faults /\ faults <= faults'
      BY <2>1 DEF Works, IInv, Types
    <2>4. Types'
      BY <1>1, <1>3, <2>1, <2>2, <2>3 DEF IInv, Types, overlap
    <2>5. q.user \in User /\ q.op \in Bearers => Claim(q.tok, q.user)
      BY <2>2 DEF Claim
    <2>6. ~Undoing(req[r]) /\ known' \ known = {}
      BY <1>1 DEF Undoing
    <2>7. Step(r, q)
      <3>1. /\ q.pair = nextPair /\ req[r].pair = 0 /\ q.user = req[r].user
            /\ known' = known /\ accounts' = accounts /\ status' = status
        BY <1>1, <2>2
      <3> QED
        BY <1>1, <1>2, <2>1, <2>2, <2>3, <2>4, <2>5, <2>6, <3>1 DEF Step
    <2>8. RequestInv(q)'
      BY <1>1, <1>2, <1>3, <2>1, <2>2
         DEF RequestInv, CallInv, Late, Inval, Issues, Routes, Bearers, Undoing
    <2>9. SessionHasRefresh'
      <3> SUFFICES ASSUME faults = 0, NEW u \in User, NEW x \in Pair,
                          cache'[sessionKey(u)] = x
                   PROVE  \/ cache'[refreshKey(x)] = u
                          \/ \E s \in Req : req'[s].pc = "setRefresh" /\ req'[s].pair = x
        BY <2>3 DEF SessionHasRefresh
      <3>1. \A s \in Req : req'[s] = IF s = r THEN q ELSE req[s]
        BY <2>2, SlotAfter DEF IInv
      <3>2. CASE u = p.user
        BY <1>2, <2>1, <2>2, <3>1, <3>2
      <3>3. CASE u # p.user
        <4>1. cache[sessionKey(u)] = x
          BY <1>2, <2>1, <3>3
        <4>2. \/ cache[refreshKey(x)] = u
              \/ \E s \in Req : req[s].pc = "setRefresh" /\ req[s].pair = x
          BY <4>1 DEF IInv, SessionHasRefresh
        <4> QED
          BY <1>1, <1>2, <2>1, <3>1, <4>2
      <3> QED
        BY <3>2, <3>3
    <2> QED
      BY <2>1, <2>7, <2>8, <2>9, StepInv
  <1> QED
    BY <1>4, <1>5

LEMMA IssueRefreshOK ==
  ASSUME IInv, NEW r \in Req, IssueRefresh(r)
  PROVE  IInv' /\ Steps(r)
  <1> PICK p \in Request : p = req[r]
    BY SlotFacts
  <1> PICK ks : ks = <<sessionKey(p.user)>>
    OBVIOUS
  <1>1. /\ p.pc = "setRefresh" /\ p.pc \in Issuing /\ p.op \in Issues
        /\ p.user \in User /\ p.pair \in Pair
        /\ UNCHANGED <<accounts, status, nextPair, known, spent, byHand, overlap>>
    BY RefreshWrite
  <1>2. \/ /\ Works /\ Set(refreshKey(p.pair), p.user) /\ Go(r, "setAccess") /\ failed' = failed
        \/ /\ Fails /\ (Set(refreshKey(p.pair), p.user) \/ cache' = cache)
           /\ Deleting(r, ks, "idle") /\ failed' = failed \cup {p.pair}
    BY RefreshWrite
  <1>3. Set(refreshKey(p.pair), p.user) =>
          /\ CacheType' /\ Writes(r)
          /\ \A v \in User : cache'[sessionKey(v)] = cache[sessionKey(v)]
          /\ \A y \in Pair : /\ cache'[refreshKey(y)] =
                                   IF y = p.pair THEN p.user ELSE cache[refreshKey(y)]
                             /\ cache'[accessKey(y)] = cache[accessKey(y)]
    BY RefreshWrite
  <1>4. CASE Fails /\ (Set(refreshKey(p.pair), p.user) \/ cache' = cache)
             /\ Deleting(r, ks, "idle") /\ failed' = failed \cup {p.pair}
    <2>1. CacheType' /\ Writes(r)
      <3>1. CASE cache' = cache
        BY <3>1 DEF IInv, CacheType, Writes
      <3> QED
        BY <1>3, <1>4, <3>1
    <2>2. ks \in Seq(Key) /\ ks # <<>> /\ In(sessionKey(p.user), ks)
      <3>1. ks \in Seq(Key) /\ ks # <<>> /\ 1 \in 1..Len(ks) /\ ks[1] = sessionKey(p.user)
        BY <1>1, KeyFacts
      <3> QED
        BY <3>1 DEF In
    <2>3. \A u \in User : AccessLive(p.pair, u)' => In(accessKey(p.pair), ks)
      <3>1. cache[accessKey(p.pair)] = Miss
        BY <1>1, IssueFacts
      <3>2. cache'[accessKey(p.pair)] = Miss
        BY <1>1, <1>3, <1>4, <3>1
      <3> QED
        BY <3>2, MissFacts DEF AccessLive
    <2>4. \A u \in User : RefreshLive(p.pair, u)' =>
                             In(sessionKey(u), ks) \/ In(refreshKey(p.pair), ks)
      <3> SUFFICES ASSUME NEW u \in User, cache'[sessionKey(u)] = p.pair
                   PROVE  u = p.user
        BY <2>2 DEF RefreshLive
      <3>1. cache[sessionKey(u)] = p.pair
        BY <1>3, <1>4
      <3> QED
        BY <1>1, <3>1, IssueFacts
    <2> QED
      BY <1>1, <1>4, <2>1, <2>2, <2>3, <2>4, FailUndo
  <1>5. CASE Works /\ Set(refreshKey(p.pair), p.user) /\ Go(r, "setAccess") /\ failed' = failed
    <2>1. PICK q \in Request :
            /\ q.op = p.op /\ q.pc = "setAccess" /\ q.user = p.user /\ q.tok = p.tok
            /\ q.pair = p.pair /\ q.dels = p.dels /\ q.next = p.next
            /\ req' = [req EXCEPT ![r] = q]
      BY <1>5, GoFields DEF Pc
    <2>2. faults' = faults /\ faults <= faults' /\ q.pc \in Late
      BY <1>5, <2>1 DEF Works, IInv, Types, Late
    <2>3. cache'[accessKey(p.pair)] = Miss
      <3>1. cache[accessKey(p.pair)] = Miss
        BY <1>1, IssueFacts
      <3> QED
        BY <1>1, <1>3, <1>5, <3>1
    <2>4. SessionHasRefresh'
      <3> SUFFICES ASSUME faults = 0, NEW u \in User, NEW x \in Pair,
                          cache'[sessionKey(u)] = x
                   PROVE  \/ cache'[refreshKey(x)] = u
                          \/ \E s \in Req : req'[s].pc = "setRefresh" /\ req'[s].pair = x
        BY <2>2 DEF SessionHasRefresh
      <3>1. \A s \in Req : req'[s] = IF s = r THEN q ELSE req[s]
        BY <2>1, SlotAfter DEF IInv
      <3>2. cache[sessionKey(u)] = x
        BY <1>3, <1>5
      <3>3. CASE x = p.pair
        <4>1. u = p.user
          BY <1>1, <3>2, <3>3, IssueFacts
        <4> QED
          BY <1>1, <1>3, <1>5, <3>3, <4>1
      <3>4. CASE x # p.pair
        <4>1. \/ cache[refreshKey(x)] = u
              \/ \E s \in Req : req[s].pc = "setRefresh" /\ req[s].pair = x
          BY <3>2 DEF IInv, SessionHasRefresh
        <4> QED
          BY <1>3, <1>5, <3>1, <3>4, <4>1
      <3> QED
        BY <3>3, <3>4
    <2> QED
      BY <1>1, <1>3, <1>5, <2>1, <2>2, <2>3, <2>4, IssueGo
  <1> QED
    BY <1>2, <1>4, <1>5

LEMMA IssueAccessOK ==
  ASSUME IInv, NEW r \in Req, IssueAccess(r)
  PROVE  IInv' /\ Steps(r)
  <1> PICK p \in Request : p = req[r]
    BY SlotFacts
  <1> PICK ks : ks = UndoAccess(p)
    OBVIOUS
  <1>1. /\ p.pc = "setAccess" /\ p.pc \in Issuing /\ p.op \in Issues
        /\ p.user \in User /\ p.pair \in Pair
        /\ UNCHANGED <<accounts, status, nextPair, known, spent, byHand, overlap>>
    BY AccessWrite
  <1>2. \/ /\ Works /\ Set(accessKey(p.pair), p.user) /\ Go(r, "setAccessSession") /\ failed' = failed
        \/ /\ Fails /\ (Set(accessKey(p.pair), p.user) \/ cache' = cache)
           /\ Deleting(r, ks, "idle") /\ failed' = failed \cup {p.pair}
    BY AccessWrite
  <1>3. Set(accessKey(p.pair), p.user) =>
          /\ CacheType' /\ Writes(r)
          /\ \A v \in User : cache'[sessionKey(v)] = cache[sessionKey(v)]
          /\ \A y \in Pair : cache'[refreshKey(y)] = cache[refreshKey(y)]
    BY AccessWrite
  <1>4. CASE Fails /\ (Set(accessKey(p.pair), p.user) \/ cache' = cache)
             /\ Deleting(r, ks, "idle") /\ failed' = failed \cup {p.pair}
    <2>1. CacheType' /\ Writes(r)
      <3>1. CASE cache' = cache
        BY <3>1 DEF IInv, CacheType, Writes
      <3> QED
        BY <1>3, <1>4, <3>1
    <2>2. /\ ks \in Seq(Key) /\ ks # <<>>
          /\ In(accessKey(p.pair), ks) /\ In(refreshKey(p.pair), ks)
      <3>1. /\ ks \in Seq(Key) /\ ks # <<>> /\ Len(ks) = 3
            /\ ks[2] = refreshKey(p.pair) /\ ks[3] = accessKey(p.pair)
        BY <1>1, KeyFacts DEF UndoAccess
      <3>2. 2 \in 1..Len(ks) /\ 3 \in 1..Len(ks)
        BY <3>1
      <3> QED
        BY <3>1, <3>2 DEF In
    <2>3. \A u \in User : AccessLive(p.pair, u)' => In(accessKey(p.pair), ks)
      BY <2>2
    <2>4. \A u \in User : RefreshLive(p.pair, u)' =>
                             In(sessionKey(u), ks) \/ In(refreshKey(p.pair), ks)
      BY <2>2
    <2> QED
      BY <1>1, <1>4, <2>1, <2>2, <2>3, <2>4, FailUndo
  <1>5. CASE Works /\ Set(accessKey(p.pair), p.user) /\ Go(r, "setAccessSession") /\ failed' = failed
    <2>1. PICK q \in Request :
            /\ q.op = p.op /\ q.pc = "setAccessSession" /\ q.user = p.user /\ q.tok = p.tok
            /\ q.pair = p.pair /\ q.dels = p.dels /\ q.next = p.next
            /\ req' = [req EXCEPT ![r] = q]
      BY <1>5, GoFields DEF Pc
    <2>2. faults' = faults /\ faults <= faults' /\ q.pc \in Late
      BY <1>5, <2>1 DEF Works, IInv, Types, Late
    <2>3. q.pc \notin {"setRefresh", "setAccess"}
      BY <2>1
    <2>4. SessionHasRefresh'
      <3>1. /\ Types' /\ req[r].pc # "setRefresh"
            /\ \A u \in User, x \in Pair :
                  /\ cache'[sessionKey(u)] = x => cache[sessionKey(u)] = x
                  /\ cache[refreshKey(x)] = u => cache'[refreshKey(x)] = u
        BY <1>1, <1>3, <1>5, <2>1, <2>2 DEF IInv, Types, overlap
      <3> QED
        BY <2>1, <2>2, <3>1, RefreshKept
    <2> QED
      BY <1>1, <1>3, <1>5, <2>1, <2>2, <2>3, <2>4, IssueGo
  <1> QED
    BY <1>2, <1>4, <1>5

LEMMA IssueAccessSessionOK ==
  ASSUME IInv, NEW r \in Req, IssueAccessSession(r)
  PROVE  IInv' /\ Steps(r)
  <1> PICK p \in Request : p = req[r]
    BY SlotFacts
  <1> PICK ks : ks = AllKeys(p.user, p.pair)
    OBVIOUS
  <1>1. /\ p.pc = "setAccessSession" /\ p.pc \in Issuing /\ p.op \in Issues
        /\ p.user \in User /\ p.pair \in Pair
        /\ UNCHANGED <<accounts, status, nextPair, known, spent, byHand, overlap>>
    BY AccessSessionWrite
  <1>2. \/ /\ Works /\ Set(accessSessionKey(p.user), p.pair) /\ Go(r, "setStatus") /\ failed' = failed
        \/ /\ Fails /\ (Set(accessSessionKey(p.user), p.pair) \/ cache' = cache)
           /\ Deleting(r, ks, "idle") /\ failed' = failed \cup {p.pair}
    BY AccessSessionWrite
  <1>3. Set(accessSessionKey(p.user), p.pair) =>
          /\ CacheType' /\ Writes(r)
          /\ \A v \in User : cache'[sessionKey(v)] = cache[sessionKey(v)]
          /\ \A y \in Pair : cache'[refreshKey(y)] = cache[refreshKey(y)]
    BY AccessSessionWrite
  <1>4. CASE Fails /\ (Set(accessSessionKey(p.user), p.pair) \/ cache' = cache)
             /\ Deleting(r, ks, "idle") /\ failed' = failed \cup {p.pair}
    <2>1. CacheType' /\ Writes(r)
      <3>1. CASE cache' = cache
        BY <3>1 DEF IInv, CacheType, Writes
      <3> QED
        BY <1>3, <1>4, <3>1
    <2>2. /\ ks \in Seq(Key) /\ ks # <<>>
          /\ In(accessKey(p.pair), ks) /\ In(refreshKey(p.pair), ks)
      <3>1. /\ ks \in Seq(Key) /\ ks # <<>> /\ Len(ks) = 4
            /\ ks[2] = refreshKey(p.pair) /\ ks[3] = accessKey(p.pair)
        BY <1>1, KeyFacts DEF AllKeys
      <3>2. 2 \in 1..Len(ks) /\ 3 \in 1..Len(ks)
        BY <3>1
      <3> QED
        BY <3>1, <3>2 DEF In
    <2>3. \A u \in User : AccessLive(p.pair, u)' => In(accessKey(p.pair), ks)
      BY <2>2
    <2>4. \A u \in User : RefreshLive(p.pair, u)' =>
                             In(sessionKey(u), ks) \/ In(refreshKey(p.pair), ks)
      BY <2>2
    <2> QED
      BY <1>1, <1>4, <2>1, <2>2, <2>3, <2>4, FailUndo
  <1>5. CASE Works /\ Set(accessSessionKey(p.user), p.pair) /\ Go(r, "setStatus") /\ failed' = failed
    <2>1. PICK q \in Request :
            /\ q.op = p.op /\ q.pc = "setStatus" /\ q.user = p.user /\ q.tok = p.tok
            /\ q.pair = p.pair /\ q.dels = p.dels /\ q.next = p.next
            /\ req' = [req EXCEPT ![r] = q]
      BY <1>5, GoFields DEF Pc
    <2>2. faults' = faults /\ faults <= faults' /\ q.pc \in Late
      BY <1>5, <2>1 DEF Works, IInv, Types, Late
    <2>3. q.pc \notin {"setRefresh", "setAccess"}
      BY <2>1
    <2>4. SessionHasRefresh'
      <3>1. /\ Types' /\ req[r].pc # "setRefresh"
            /\ \A u \in User, x \in Pair :
                  /\ cache'[sessionKey(u)] = x => cache[sessionKey(u)] = x
                  /\ cache[refreshKey(x)] = u => cache'[refreshKey(x)] = u
        BY <1>1, <1>3, <1>5, <2>1, <2>2 DEF IInv, Types, overlap
      <3> QED
        BY <2>1, <2>2, <3>1, RefreshKept
    <2> QED
      BY <1>1, <1>3, <1>5, <2>1, <2>2, <2>3, <2>4, IssueGo
  <1> QED
    BY <1>2, <1>4, <1>5
-----------------------------------------------------------------------------
(***************************************************************************)
(* Deletes.                                                                *)
(***************************************************************************)

\* The rest of a list of keys.
LEMMA RestOf ==
  ASSUME NEW ks \in Seq(Key), ks # <<>>
  PROVE  /\ Head(ks) \in Key /\ Head(ks) = ks[1] /\ Tail(ks) \in Seq(Key)
         /\ Len(ks) \in Nat /\ (Tail(ks) = <<>> <=> Len(ks) = 1)
         /\ Len(Tail(ks)) = Len(ks) - 1
         /\ Len(ks) = 2 => Tail(ks)[1] = ks[2]
         /\ \A j : In(j, ks) => j = ks[1] \/ In(j, Tail(ks))
  <1>1. /\ Head(ks) \in Key /\ Head(ks) = ks[1] /\ Tail(ks) \in Seq(Key)
        /\ Len(ks) \in Nat /\ (Tail(ks) = <<>> <=> Len(ks) = 1)
        /\ Len(Tail(ks)) = Len(ks) - 1
    <2>1. Len(ks) \in Nat /\ Len(ks) # 0
      OBVIOUS
    <2>2. Head(ks) = ks[1] /\ ks[1] \in Key
      BY <2>1
    <2>3. Tail(ks) \in Seq(Key) /\ Len(Tail(ks)) = Len(ks) - 1
      OBVIOUS
    <2>4. \A t \in Seq(Key) : t = <<>> <=> Len(t) = 0
      OBVIOUS
    <2>5. Tail(ks) = <<>> <=> Len(ks) - 1 = 0
      BY <2>3, <2>4
    <2> QED
      BY <2>1, <2>2, <2>3, <2>5
  <1>2. \A i \in 1..Len(Tail(ks)) : Tail(ks)[i] = ks[i + 1]
    OBVIOUS
  <1>3. ASSUME NEW j, In(j, ks), j # ks[1] PROVE In(j, Tail(ks))
    <2> PICK i \in 1..Len(ks) : ks[i] = j
      BY <1>3 DEF In
    <2>1. i # 1
      BY <1>3
    <2>2. i - 1 \in 1..Len(Tail(ks)) /\ (i - 1) + 1 = i
      BY <1>1, <2>1
    <2>3. Tail(ks)[i - 1] = j
      BY <1>2, <2>2
    <2> QED
      BY <2>2, <2>3 DEF In
  <1>4. Len(ks) = 2 => Tail(ks)[1] = ks[2]
    BY <1>1, <1>2
  <1> QED
    BY <1>1, <1>3, <1>4

\* One Delete of the request in r, which goes on as q.
Deleted(r, q) ==
    /\ req[r].pc = "delete" /\ req' = [req EXCEPT ![r] = q]
    /\ \/ Works /\ Set(req[r].dels[1], Miss)
       \/ Fails /\ cache' = cache
    /\ accounts' = accounts /\ status' = status /\ nextPair' = nextPair /\ known' = known
    /\ failed' = failed /\ spent' = spent /\ byHand' = byHand /\ ended' = ended
    /\ clash' = clash /\ checked' = checked
    /\ \/ /\ Len(req[r].dels) = 1 /\ req[r].next = "idle"
          /\ q = Idle
       \/ /\ Len(req[r].dels) # 1 /\ q.dels = Tail(req[r].dels)
          /\ q.pc = "delete" /\ q.next = req[r].next
          /\ q.op = req[r].op /\ q.user = req[r].user /\ q.tok = req[r].tok
          /\ q.pair = req[r].pair
       \/ /\ Len(req[r].dels) = 1 /\ req[r].next # "idle"
          /\ q.dels = <<>> /\ q.pc = req[r].next /\ q.next = "idle"
          /\ q.op = req[r].op /\ q.user = req[r].user /\ q.tok = req[r].tok
          /\ q.pair = req[r].pair

LEMMA DeleteFacts ==
  ASSUME IInv, NEW r \in Req, NEW p \in Request, p = req[r], p.pc = "delete"
  PROVE  /\ CallInv(p) /\ DeleteInv(p) /\ RequestInv(p)
         /\ p.op \in Issues \cup {"Logout"} /\ p.user \in User
         /\ p.op \notin Issues => p.pair = 0
         /\ p.dels \in Seq(Key) /\ p.dels # <<>>
  BY SlotFacts, CallFacts DEF RequestInv, DeleteInv, Inval, Request

LEMMA DeleteFields ==
  ASSUME IInv, NEW r \in Req, Delete(r)
  PROVE  \E q \in Request : Deleted(r, q)
  <1> PICK p \in Request : p = req[r]
    BY SlotFacts
  <1> PICK ks \in Seq(Key) : ks = p.dels
    BY DEF Request
  <1> PICK rest \in Seq(Key) : rest = Tail(ks)
    <2>1. p.pc = "delete"
      BY DEF Delete
    <2>2. ks # <<>>
      BY <2>1, DeleteFacts
    <2> QED
      BY <2>2, RestOf
  <1>1. /\ p.pc = "delete"
        /\ (Works /\ Set(Head(ks), Miss)) \/ (Fails /\ cache' = cache)
        /\ IF rest # <<>> THEN req' = [req EXCEPT ![r].dels = rest]
           ELSE IF p.next = "idle" THEN Return(r)
           ELSE req' = [req EXCEPT ![r].dels = <<>>, ![r].pc = p.next, ![r].next = "idle"]
        /\ accounts' = accounts /\ status' = status /\ nextPair' = nextPair
        /\ known' = known /\ failed' = failed /\ spent' = spent
        /\ byHand' = byHand /\ ended' = ended
        /\ clash' = clash /\ checked' = checked
    BY DEF Delete, hist, overlap
  <1>2. ks # <<>>
    BY <1>1, DeleteFacts
  <1>3. Head(ks) = ks[1] /\ Len(ks) \in Nat /\ (rest = <<>> <=> Len(ks) = 1) /\ Len(ks) # 0
    BY <1>2, RestOf
  <1>4. CASE rest # <<>>
    <2> PICK q : q = [p EXCEPT !.dels = rest]
      OBVIOUS
    <2>1. q \in Request
      BY DEF Request
    <2>2. /\ q.dels = rest /\ q.pc = p.pc /\ q.next = p.next /\ q.op = p.op
          /\ q.user = p.user /\ q.tok = p.tok /\ q.pair = p.pair
      BY DEF Request
    <2>3. req' = [req EXCEPT ![r] = q]
      BY <1>1, <1>4
    <2>4. Len(ks) # 1
      BY <1>3, <1>4
    <2> QED
      BY <1>1, <1>3, <2>1, <2>2, <2>3, <2>4 DEF Deleted
  <1>5. CASE rest = <<>> /\ p.next = "idle"
    <2>1. req' = [req EXCEPT ![r] = Idle] /\ Idle \in Request
      BY <1>1, <1>5, IdleFacts DEF Return
    <2> QED
      BY <1>1, <1>3, <1>5, <2>1 DEF Deleted
  <1>6. CASE rest = <<>> /\ p.next # "idle"
    <2> PICK q : q = [p EXCEPT !.dels = <<>>, !.pc = p.next, !.next = "idle"]
      OBVIOUS
    <2>1. q \in Request
      <3>1. <<>> \in Seq(Key) /\ "idle" \in Pc /\ p.next \in Pc
        BY DEF Request, Pc
      <3> QED
        BY <3>1 DEF Request
    <2>2. /\ q.dels = <<>> /\ q.pc = p.next /\ q.next = "idle" /\ q.op = p.op
          /\ q.user = p.user /\ q.tok = p.tok /\ q.pair = p.pair
      BY DEF Request
    <2>3. req' = [req EXCEPT ![r] = q]
      BY <1>1, <1>6
    <2>4. /\ p.pc = "delete" /\ Len(ks) = 1 /\ p.next # "idle"
          /\ (Works /\ Set(ks[1], Miss)) \/ (Fails /\ cache' = cache)
          /\ accounts' = accounts /\ status' = status /\ nextPair' = nextPair
          /\ known' = known /\ failed' = failed /\ spent' = spent
          /\ byHand' = byHand /\ ended' = ended
          /\ clash' = clash /\ checked' = checked
      BY <1>1, <1>3, <1>6
    <2> QED
      BY <2>1, <2>2, <2>3, <2>4 DEF Deleted
  <1> QED
    BY <1>4, <1>5, <1>6

LEMMA DeletedCache ==
  ASSUME IInv, NEW r \in Req, NEW q \in Request, Deleted(r, q)
  PROVE  /\ CacheType' /\ Types' /\ Writes(r)
         /\ faults \in Nat /\ faults' \in Nat /\ faults <= faults'
         /\ \A j \in Key : cache'[j] = cache[j] \/ cache'[j] = Miss
         /\ faults' = faults =>
               /\ req[r].dels[1] \in Key /\ cache'[req[r].dels[1]] = Miss
               /\ \A j \in Key : j # req[r].dels[1] => cache'[j] = cache[j]
  <1> PICK p \in Request : p = req[r]
    BY SlotFacts
  <1> PICK k : k = p.dels[1]
    OBVIOUS
  <1>1. /\ p.pc = "delete" /\ req' = [req EXCEPT ![r] = q]
        /\ (Works /\ Set(k, Miss)) \/ (Fails /\ cache' = cache)
        /\ accounts' = accounts /\ status' = status /\ nextPair' = nextPair
        /\ known' = known /\ failed' = failed /\ spent' = spent
        /\ byHand' = byHand /\ ended' = ended
        /\ clash' = clash /\ checked' = checked
    BY DEF Deleted
  <1>2. k \in Key
    BY <1>1, DeleteFacts, RestOf
  <1>3. /\ faults \in Nat /\ faults' \in 0..MaxFaults /\ faults <= faults'
        /\ Works => faults' = faults
        /\ Fails => faults' # faults
    BY <1>1, AuthAssumption DEF Works, Fails, IInv, Types, AuthAssumption
  <1>4. Types'
    BY <1>1, <1>3 DEF IInv, Types
  <1>5. CacheType
    BY DEF IInv
  <1>6. /\ CacheType'
        /\ \A j \in Key : cache'[j] = cache[j] \/ cache'[j] = Miss
        /\ faults' = faults =>
              /\ cache'[k] = Miss /\ \A j \in Key : j # k => cache'[j] = cache[j]
    <2>1. CASE Works /\ Set(k, Miss)
      BY <1>2, <1>5, <2>1, Removed
    <2>2. CASE Fails /\ cache' = cache
      BY <1>3, <1>5, <2>2 DEF CacheType
    <2> QED
      BY <1>1, <2>1, <2>2
  <1>7. Writes(r)
    <2>1. \A u \in User, x \in Pair : u # Miss /\ x # Miss
      BY MissFacts
    <2> QED
      BY <1>6, <2>1, KeyFacts DEF Writes
  <1> QED
    BY <1>2, <1>3, <1>4, <1>6, <1>7

LEMMA DeletedStep ==
  ASSUME IInv, NEW r \in Req, NEW q \in Request, Deleted(r, q)
  PROVE  Step(r, q)
  <1> PICK p \in Request : p = req[r]
    BY SlotFacts
  <1>1. /\ p.pc = "delete" /\ req' = [req EXCEPT ![r] = q]
        /\ accounts' = accounts /\ status' = status /\ nextPair' = nextPair
        /\ known' = known
    BY DEF Deleted
  <1>2. \/ Len(p.dels) = 1 /\ p.next = "idle" /\ q = Idle
        \/ /\ Len(p.dels) # 1 /\ q.dels = Tail(p.dels) /\ q.pc = "delete"
           /\ q.next = p.next /\ q.op = p.op /\ q.user = p.user /\ q.tok = p.tok
           /\ q.pair = p.pair
        \/ /\ Len(p.dels) = 1 /\ p.next # "idle" /\ q.op = p.op /\ q.user = p.user
           /\ q.tok = p.tok /\ q.pair = p.pair
    BY DEF Deleted
  <1>3. /\ CacheType' /\ Types' /\ Writes(r) /\ faults <= faults'
        /\ faults' = faults => cache'[p.dels[1]] = Miss
    BY DeletedCache
  <1>4. \/ q.pair = 0 /\ q.user = Miss
        \/ q.op = p.op /\ q.user = p.user /\ q.tok = p.tok /\ q.pair = p.pair
    BY <1>2, IdleFacts
  <1>5. q.user \in User /\ q.op \in Bearers => Claim(q.tok, q.user)
    BY <1>4, MissFacts DEF Claim
  <1>6. q.pair # 0 /\ Undoing(p) => Undoing(q)
    BY <1>2, IdleFacts DEF Undoing
  <1>7. ASSUME Undoing(p), faults' = faults, NEW k \in Key, In(k, p.dels)
        PROVE  cache'[k] = Miss \/ (q.pair = p.pair /\ In(k, q.dels))
    <2>1. CASE k = p.dels[1]
      BY <1>3, <1>7, <2>1
    <2>2. CASE k # p.dels[1]
      <3>1. p.dels \in Seq(Key) /\ p.dels # <<>>
        BY <1>1, DeleteFacts
      <3>2. In(k, Tail(p.dels)) /\ (Tail(p.dels) = <<>> <=> Len(p.dels) = 1)
        BY <1>7, <2>2, <3>1, RestOf
      <3>3. Tail(p.dels) # <<>>
        BY <3>2 DEF In
      <3>4. Len(p.dels) # 1
        BY <3>2, <3>3
      <3>5. q.dels = Tail(p.dels) /\ q.pair = p.pair
        BY <1>2, <3>4
      <3> QED
        BY <3>2, <3>5
    <2> QED
      BY <2>1, <2>2
  <1>8. q.pair = 0 \/ (q.pair = p.pair /\ p.user \in {Miss, q.user})
    BY <1>4
  <1>9. p.pc \notin Late \cup {"setSession"} /\ known' \ known = {}
    BY <1>1 DEF Late
  <1> QED
    BY <1>1, <1>3, <1>5, <1>6, <1>7, <1>8, <1>9 DEF Step

LEMMA DeletedRequest ==
  ASSUME IInv, NEW r \in Req, NEW q \in Request, Deleted(r, q)
  PROVE  RequestInv(q)'
  <1> PICK p \in Request : p = req[r]
    BY SlotFacts
  <1>1. p.pc = "delete" /\ accounts' = accounts /\ nextPair' = nextPair /\ known' = known
    BY DEF Deleted
  <1>2. /\ CallInv(p) /\ DeleteInv(p) /\ RequestInv(p)
        /\ p.op \in Issues \cup {"Logout"} /\ p.user \in User
        /\ p.op \notin Issues => p.pair = 0
        /\ p.dels \in Seq(Key) /\ p.dels # <<>>
    BY <1>1, DeleteFacts
  <1>3. /\ faults \in Nat /\ faults' \in Nat /\ faults <= faults'
        /\ \A j \in Key : cache'[j] = cache[j] \/ cache'[j] = Miss
        /\ faults' = faults =>
              /\ cache'[p.dels[1]] = Miss
              /\ \A j \in Key : j # p.dels[1] => cache'[j] = cache[j]
    BY DeletedCache
  <1>4. /\ p.op \in Issues => p.user \in accounts
        /\ IF Undoing(p) THEN p.pair \in Pair /\ p.pair < nextPair /\ p.pair \notin known
           ELSE p.pair = 0
        /\ p.op \in Bearers => p.tok \in known
    BY <1>1, <1>2 DEF RequestInv, Late, Issues, Undoing, DeleteInv
  <1>5. CASE q = Idle
    <2>1. RequestInv(Idle)'
      BY IdleFacts
    <2> QED
      BY <1>5, <2>1 DEF RequestInv, DeleteInv, Two
  <1>6. CASE /\ Len(p.dels) # 1 /\ q.dels = Tail(p.dels) /\ q.pc = "delete"
             /\ q.next = p.next /\ q.op = p.op /\ q.user = p.user /\ q.tok = p.tok
             /\ q.pair = p.pair
    <2>1. /\ Len(p.dels) \in Nat /\ q.dels # <<>> /\ Len(q.dels) = Len(p.dels) - 1
          /\ Len(p.dels) = 2 => q.dels[1] = p.dels[2]
      <3>1. /\ Len(p.dels) \in Nat /\ Tail(p.dels) # <<>>
            /\ Len(Tail(p.dels)) = Len(p.dels) - 1
            /\ Len(p.dels) = 2 => Tail(p.dels)[1] = p.dels[2]
        BY <1>2, <1>6, RestOf
      <3>2. q.dels = Tail(p.dels)
        BY <1>6
      <3> QED
        BY <3>1, <3>2
    <2>2. ASSUME NEW k, NEW l, Two(p.dels, k, l)
          PROVE  Two(q.dels, k, l) /\ Len(p.dels) = 2 /\ p.dels[1] = k /\ Len(q.dels) = 1
      <3>1. Len(p.dels) = 2 /\ p.dels[1] = k /\ p.dels[2] = l
        <4>1. Len(p.dels) # 1
          BY <1>6, <2>1
        <4>2. \/ Len(p.dels) = 2 /\ p.dels[1] = k /\ p.dels[2] = l
              \/ Len(p.dels) = 1
          BY <2>2, Zenon DEF Two
        <4> QED
          BY <4>1, <4>2
      <3>2. Len(q.dels) = 1 /\ q.dels[1] = l
        BY <2>1, <3>1
      <3> QED
        BY <3>1, <3>2 DEF Two
    <2>3. ASSUME p.next = "invAccess"
          PROVE  \E x \in Pair :
                    /\ Two(q.dels, sessionKey(p.user), refreshKey(x))
                    /\ x < nextPair'
                    /\ \A v \in User : cache'[sessionKey(v)] = x =>
                                        v = p.user /\ (faults' > 0 \/ Len(q.dels) = 2)
      <3> PICK x \in Pair :
                    /\ Two(p.dels, sessionKey(p.user), refreshKey(x))
                    /\ x < nextPair
                    /\ \A v \in User : cache[sessionKey(v)] = x => v = p.user
        BY <1>2, <2>3 DEF DeleteInv
      <3>1. Two(q.dels, sessionKey(p.user), refreshKey(x)) /\ p.dels[1] = sessionKey(p.user)
        BY <2>2
      <3>2. x < nextPair'
        BY <1>1
      <3>3. ASSUME NEW v \in User, cache'[sessionKey(v)] = x
            PROVE  v = p.user /\ faults' > 0
        <4>1. cache[sessionKey(v)] = x
          BY <1>3, <3>3, KeyFacts, MissFacts
        <4>2. v = p.user
          BY <4>1
        <4>3. cache'[p.dels[1]] # Miss
          BY <3>1, <3>3, <4>2, MissFacts
        <4>4. faults' # faults
          BY <1>3, <4>3
        <4> QED
          BY <1>3, <4>2, <4>4
      <3> QED
        BY <3>1, <3>2, <3>3
    <2>4. ASSUME p.next \in {"setSession", "setStatus"}
          PROVE  \E x \in Pair : Two(q.dels, accessSessionKey(p.user), accessKey(x))
      <3> PICK x \in Pair : Two(p.dels, accessSessionKey(p.user), accessKey(x))
        BY <1>2, <2>4 DEF DeleteInv
      <3> QED
        BY <2>2
    <2>5. DeleteInv(q)'
      BY <1>2, <1>6, <2>1, <2>3, <2>4 DEF DeleteInv
    <2>6. Undoing(q) => faults' > 0
      <3>1. Undoing(p) => faults > 0
        BY <1>2 DEF RequestInv
      <3> QED
        BY <1>1, <1>3, <1>6, <3>1 DEF Undoing
    <2>8. CallInv(q)
      BY <1>2, <1>6 DEF CallInv, Inval, Issues, Routes
    <2> QED
      BY <1>1, <1>2, <1>4, <1>6, <2>5, <2>6, <2>8 DEF RequestInv, Issues, Routes, Late, Undoing
  <1>7. CASE /\ Len(p.dels) = 1 /\ p.next # "idle"
             /\ q.dels = <<>> /\ q.pc = p.next /\ q.next = "idle"
             /\ q.op = p.op /\ q.user = p.user /\ q.tok = p.tok /\ q.pair = p.pair
    <2>1. /\ p.next \in {"invAccess", "setSession", "setStatus"}
          /\ p.next = "setSession" => p.op \in Issues
          /\ p.next = "setStatus" => p.op = "Logout"
      BY <1>2, <1>7 DEF DeleteInv
    <2>2. CallInv(q)
      BY <1>2, <1>7, <2>1 DEF CallInv, Inval, Late, Issues, Routes
    <2>4. ~Undoing(q) /\ q.pc \notin {"idle", "refGet", "valGet", "delete"}
      BY <1>7, <2>1 DEF Undoing
    <2> QED
      BY <1>1, <1>2, <1>4, <1>7, <2>1, <2>2, <2>4 DEF RequestInv, Issues, Routes, Late, Undoing
  <1> QED
    BY <1>5, <1>6, <1>7 DEF Deleted

LEMMA DeletedRefresh ==
  ASSUME IInv, NEW r \in Req, NEW q \in Request, Deleted(r, q)
  PROVE  SessionHasRefresh'
  <1> PICK p \in Request : p = req[r]
    BY SlotFacts
  <1>1. p.pc = "delete" /\ req' = [req EXCEPT ![r] = q]
    BY DEF Deleted
  <1>2. /\ DeleteInv(p) /\ RequestInv(p) /\ p.user \in User
    BY <1>1, DeleteFacts
  <1>3. /\ faults \in Nat /\ faults' \in Nat /\ faults <= faults'
        /\ \A j \in Key : cache'[j] = cache[j] \/ cache'[j] = Miss
        /\ faults' = faults =>
              /\ cache'[p.dels[1]] = Miss
              /\ \A j \in Key : j # p.dels[1] => cache'[j] = cache[j]
    BY DeletedCache
  <1>4. ASSUME faults' = 0, NEW u \in User, NEW x \in Pair, cache'[sessionKey(u)] = x
        PROVE  /\ cache[sessionKey(u)] = x
               /\ cache[refreshKey(x)] = u => cache'[refreshKey(x)] = u
    <2>1. cache[sessionKey(u)] = x
      BY <1>3, <1>4, KeyFacts, MissFacts
    <2>2. faults = 0 /\ faults' = faults
      BY <1>3, <1>4
    <2>3. p.next # "idle"
      BY <1>1, <1>2, <2>2 DEF RequestInv, Undoing
    <2>4. p.dels[1] # refreshKey(x)
      <3>1. CASE p.next = "invAccess"
        <4> PICK y \in Pair :
                 /\ Two(p.dels, sessionKey(p.user), refreshKey(y))
                 /\ \A v \in User : cache[sessionKey(v)] = y => faults > 0 \/ Len(p.dels) = 2
          BY <1>2, <3>1 DEF DeleteInv
        <4>1. CASE p.dels[1] = sessionKey(p.user)
          BY <1>2, <4>1, KeyFacts
        <4>2. CASE Len(p.dels) = 1 /\ p.dels[1] = refreshKey(y)
          <5>1. y # x
            BY <2>1, <2>2, <4>2
          <5> QED
            BY <4>2, <5>1, KeyFacts
        <4> QED
          BY <4>1, <4>2 DEF Two
      <3>2. CASE p.next \in {"setSession", "setStatus"}
        <4> PICK y \in Pair : Two(p.dels, accessSessionKey(p.user), accessKey(y))
          BY <1>2, <3>2 DEF DeleteInv
        <4>1. p.dels[1] = accessSessionKey(p.user) \/ p.dels[1] = accessKey(y)
          BY DEF Two
        <4> QED
          BY <1>2, <4>1, KeyFacts
      <3> QED
        BY <1>2, <2>3, <3>1, <3>2 DEF DeleteInv
    <2>5. cache'[refreshKey(x)] = cache[refreshKey(x)]
      BY <1>3, <2>2, <2>4, KeyFacts
    <2> QED
      BY <2>1, <2>5
  <1>5. req[r].pc # "setRefresh"
    BY <1>1
  <1>6. Types'
    BY DeletedCache
  <1>7. CASE faults' = 0
    BY <1>1, <1>3, <1>4, <1>5, <1>6, <1>7, RefreshKept
  <1>8. CASE faults' # 0
    BY <1>8 DEF SessionHasRefresh
  <1> QED
    BY <1>7, <1>8

LEMMA DeleteOK ==
  ASSUME IInv, NEW r \in Req, Delete(r)
  PROVE  IInv' /\ Steps(r)
  <1> PICK q \in Request : Deleted(r, q)
    BY DeleteFields
  <1>1. Step(r, q) /\ RequestInv(q)' /\ SessionHasRefresh'
    BY DeletedStep, DeletedRequest, DeletedRefresh
  <1>2. failed' = failed
    BY DEF Deleted
  <1> QED
    BY <1>1, <1>2, StepInv

-----------------------------------------------------------------------------
(***************************************************************************)
(* Expiry.                                                                 *)
(***************************************************************************)

\* Nothing but the cache changes, and there only k.
LEMMA ExpireFacts ==
  ASSUME IInv, NEW k \in Key, Expire(k)
  PROVE  /\ accounts' = accounts /\ status' = status /\ req' = req /\ nextPair' = nextPair
         /\ faults' = faults /\ known' = known /\ failed' = failed /\ spent' = spent
         /\ byHand' = byHand /\ ended' = ended
         /\ clash' = clash /\ checked' = checked
         /\ CacheType' /\ Types'
         /\ \A j \in Key : j # k => cache'[j] = cache[j]
         /\ \A u \in User, p \in Pair :
               /\ cache'[sessionKey(u)] = p => cache[sessionKey(u)] = p
               /\ cache'[accessSessionKey(u)] = p => cache[accessSessionKey(u)] = p
               /\ cache'[refreshKey(p)] = u => cache[refreshKey(p)] = u
               /\ cache'[accessKey(p)] = u => cache[accessKey(p)] = u
               /\ cache[refreshKey(p)] = Miss => cache'[refreshKey(p)] = Miss
               /\ cache[accessKey(p)] = Miss => cache'[accessKey(p)] = Miss
         /\ \A u \in User : /\ cache'[sessionKey(u)] # Miss =>
                                  cache'[sessionKey(u)] = cache[sessionKey(u)]
                            /\ cache[sessionKey(u)] = Miss => cache'[sessionKey(u)] = Miss
  <1>1. /\ accounts' = accounts /\ status' = status /\ req' = req /\ nextPair' = nextPair
        /\ faults' = faults /\ known' = known /\ failed' = failed /\ spent' = spent
        /\ byHand' = byHand /\ ended' = ended
        /\ clash' = clash /\ checked' = checked
    BY DEF Expire, hist, overlap
  <1>2. CacheType /\ Set(k, Miss)
    BY DEF Expire, IInv
  <1>3. /\ CacheType'
        /\ \A j \in Key : j # k => cache'[j] = cache[j]
        /\ \A j \in Key : cache'[j] = cache[j] \/ cache'[j] = Miss
    BY <1>2, Removed
  <1>4. Types'
    BY <1>1 DEF IInv, Types
  <1> QED
    BY <1>1, <1>3, <1>4, KeyFacts, MissFacts

LEMMA ExpireRequests ==
  ASSUME IInv, NEW k \in Key, Expire(k), NEW r \in Req
  PROVE  RequestInv(req[r])'
  <1> PICK q \in Request : q = req[r]
    BY SlotFacts
  <1>1. /\ RequestInv(q) /\ req' = req /\ accounts' = accounts /\ nextPair' = nextPair
        /\ known' = known /\ faults' = faults
    BY SlotFacts, ExpireFacts
  <1>2. q.pc = "delete" => DeleteInv(q)'
    <2>1. q.pc = "delete" => DeleteInv(q)
      BY <1>1 DEF RequestInv
    <2>2. \A u \in User, p \in Pair : cache'[sessionKey(u)] = p => cache[sessionKey(u)] = p
      BY ExpireFacts
    <2> QED
      BY <1>1, <2>1, <2>2 DEF DeleteInv
  <1>3. \A p \in Pair : /\ cache[refreshKey(p)] = Miss => cache'[refreshKey(p)] = Miss
                        /\ cache[accessKey(p)] = Miss => cache'[accessKey(p)] = Miss
    <2> TAKE p \in Pair
    <2>1. CacheType /\ CacheType'
      BY ExpireFacts DEF IInv
    <2>2. \A u \in User : /\ cache'[refreshKey(p)] = u => cache[refreshKey(p)] = u
                          /\ cache'[accessKey(p)] = u => cache[accessKey(p)] = u
      BY ExpireFacts
    <2> QED
      BY <2>1, <2>2, MissFacts DEF CacheType
  <1>4. q.pc \in {"setRefresh", "setAccess"} => cache'[accessKey(q.pair)] = Miss
    <2>1. q.pc \in {"setRefresh", "setAccess"} => q.op \in Issues /\ q.pc \in Late
      BY <1>1, CallFacts DEF RequestInv, Late
    <2> QED
      BY <1>1, <1>3, <2>1 DEF RequestInv
  <1>5. RequestInv(q)'
    BY <1>1, <1>2, <1>4 DEF RequestInv, Undoing
  <1> QED
    BY <1>1, <1>5 DEF RequestInv

LEMMA ExpirePairs ==
  ASSUME IInv, NEW k \in Key, Expire(k)
  PROVE  OwnerInv' /\ SessionHasRefresh' /\ FailInv' /\ AccountInv'
  <1>1. /\ accounts' = accounts /\ status' = status /\ req' = req /\ nextPair' = nextPair
        /\ faults' = faults /\ known' = known /\ failed' = failed
    BY ExpireFacts
  <1>2. \A u \in User, p \in Pair :
           /\ cache'[sessionKey(u)] = p => cache[sessionKey(u)] = p
           /\ cache'[accessSessionKey(u)] = p => cache[accessSessionKey(u)] = p
           /\ cache'[refreshKey(p)] = u => cache[refreshKey(p)] = u
           /\ cache'[accessKey(p)] = u => cache[accessKey(p)] = u
    BY ExpireFacts
  <1>3. \A j \in Key : j # k => cache'[j] = cache[j]
    BY ExpireFacts
  <1>4. \A u \in User, p \in Pair : Stored(p, u)' => Stored(p, u)
    BY <1>2 DEF Stored
  <1>5. OwnerInv'
    <2>1. \A u \in User, p \in Pair : Claim(p, u)' => Claim(p, u)
      BY <1>1, <1>4 DEF Claim
    <2>2. OwnerInv
      BY DEF IInv
    <2>3. \A p \in Pair, u \in User : Claim(p, u)' =>
             /\ p < nextPair
             /\ \A v \in User : Claim(p, v)' => u = v
             /\ \A r \in Req : req[r].pair = p => req[r].user = u
      BY <2>1, <2>2 DEF OwnerInv
    <2> QED
      BY <1>1, <2>2, <2>3 DEF OwnerInv
  <1>6. SessionHasRefresh'
    <2> SUFFICES ASSUME faults = 0, NEW u \in User, NEW p \in Pair,
                        cache'[sessionKey(u)] = p
                 PROVE  \/ cache'[refreshKey(p)] = u
                        \/ \E r \in Req : req[r].pc = "setRefresh" /\ req[r].pair = p
      BY <1>1 DEF SessionHasRefresh
    <2>1. cache[sessionKey(u)] = p
      BY <1>2
    <2>2. \/ cache[refreshKey(p)] = u
          \/ \E r \in Req : req[r].pc = "setRefresh" /\ req[r].pair = p
      BY <2>1 DEF IInv, SessionHasRefresh
    <2>3. ASSUME cache[refreshKey(p)] = u, k = refreshKey(p) PROVE FALSE
      <3>1. k[1] = "refresh" /\ k[2] = p
        BY <2>3 DEF refreshKey
      <3>2. faults # 0 \/ cache[sessionKey(cache[k])] # k[2]
        BY <3>1 DEF Expire, MayExpire, IInv, Types
      <3> QED
        BY <2>1, <2>3, <3>1, <3>2
    <2> QED
      BY <1>3, <2>2, <2>3, KeyFacts
  <1>7. FailInv'
    <2>1. ASSUME NEW p \in failed PROVE FailAt(p)'
      <3>1. FailAt(p) /\ p \in Pair
        BY <2>1 DEF IInv, FailInv, Types
      <3>2. \A u \in User : /\ AccessLive(p, u)' => AccessLive(p, u)
                            /\ RefreshLive(p, u)' => RefreshLive(p, u)
        BY <1>2, <3>1 DEF AccessLive, RefreshLive
      <3> QED
        BY <1>1, <3>1, <3>2 DEF FailAt, Undoing, AccessLive, RefreshLive
    <2>2. failed # {} => faults > 0
      BY DEF IInv, FailInv
    <2> QED
      BY <1>1, <2>1, <2>2 DEF FailInv, FailAt, AccessLive, RefreshLive
  <1>8. AccountInv'
    BY <1>1, <1>4 DEF IInv, AccountInv
  <1> QED
    BY <1>5, <1>6, <1>7, <1>8

LEMMA ExpireOK ==
  ASSUME IInv, NEW k \in Key, Expire(k)
  PROVE  IInv'
  <1>1. CacheType' /\ Types'
    BY ExpireFacts
  <1>2. (\A r \in Req : RequestInv(req[r]))'
    BY ExpireRequests
  <1>3. OwnerInv' /\ SessionHasRefresh' /\ FailInv' /\ AccountInv'
    BY ExpirePairs
  <1> QED
    BY <1>1, <1>2, <1>3 DEF IInv

-----------------------------------------------------------------------------
(***************************************************************************)
(* The inductive invariant of the stores.                                  *)
(***************************************************************************)
LEMMA InitInv ==
  ASSUME Init
  PROVE  IInv
  <1>1. /\ accounts = {} /\ nextPair = 1 /\ faults = 0 /\ known = {} /\ failed = {}
        /\ byHand = {} /\ \A u \in User : status[u] = "offline" /\ ended[u] = "no"
        /\ spent = {} /\ clash = {} /\ checked = {}
        /\ \A r \in Req : req[r] = Idle
        /\ \A j \in Key : cache[j] = Miss
    BY DEF Init
  <1>2. CacheType
    <2>1. cache \in [Key -> User \cup Pair \cup {Miss}]
      BY DEF Init
    <2> QED
      BY <1>1, <2>1, KeyFacts DEF CacheType
  <1>3. Types
    <2>1. /\ status \in [User -> Status]
          /\ ended \in [User -> {"no", "ending", "yes"}]
      BY DEF Init, Status
    <2>2. req \in [Req -> Request]
      BY IdleFacts DEF Init
    <2>3. nextPair \in 1..(MaxPairs + 1) /\ faults \in 0..MaxFaults
      BY <1>1, AuthAssumption DEF AuthAssumption
    <2> QED
      BY <1>1, <2>1, <2>2, <2>3 DEF Types
  <1>4. \A r \in Req : RequestInv(req[r])
    BY <1>1, IdleFacts DEF RequestInv, CallInv, Issues, Routes, Bearers, Undoing
  <1>5. \A u \in User, p \in Pair :
           /\ cache[sessionKey(u)] # p /\ cache[accessSessionKey(u)] # p
           /\ cache[refreshKey(p)] # u /\ cache[accessKey(p)] # u
    BY <1>1, KeyFacts, MissFacts
  <1>6. \A r \in Req : req[r].user = Miss /\ req[r].pair = 0
    BY <1>1, IdleFacts
  <1>7. OwnerInv
    <2>1. \A u \in User, p \in Pair : ~Claim(p, u)
      BY <1>5, <1>6, MissFacts DEF Claim, Stored
    <2> QED
      BY <1>1, <1>6, <2>1 DEF OwnerInv
  <1>8. SessionHasRefresh
    BY <1>5 DEF SessionHasRefresh
  <1>9. FailInv
    BY <1>1 DEF FailInv
  <1>10. AccountInv
    BY <1>1, <1>5 DEF AccountInv, Stored
  <1> QED
    BY <1>2, <1>3, <1>4, <1>7, <1>8, <1>9, <1>10 DEF IInv

LEMMA StutterInv ==
  ASSUME IInv, UNCHANGED vars
  PROVE  IInv'
  <1>1. /\ cache' = cache /\ accounts' = accounts /\ status' = status /\ req' = req
        /\ nextPair' = nextPair /\ faults' = faults /\ known' = known
        /\ failed' = failed /\ spent' = spent /\ byHand' = byHand /\ ended' = ended
        /\ clash' = clash /\ checked' = checked
    BY DEF vars, stores, hist, overlap
  <1>2. CacheType' /\ Types'
    BY <1>1 DEF IInv, CacheType, Types
  <1>3. (\A r \in Req : RequestInv(req[r]))'
    BY <1>1 DEF IInv, RequestInv, DeleteInv, Undoing
  <1>4. OwnerInv'
    BY <1>1 DEF IInv, OwnerInv, Claim, Stored
  <1>5. SessionHasRefresh'
    BY <1>1 DEF IInv, SessionHasRefresh
  <1>6. FailInv'
    BY <1>1 DEF IInv, FailInv, FailAt, Undoing, AccessLive, RefreshLive
  <1>7. AccountInv'
    BY <1>1 DEF IInv, AccountInv, Stored
  <1> QED
    BY <1>2, <1>3, <1>4, <1>5, <1>6, <1>7 DEF IInv

LEMMA ArriveOK ==
  ASSUME IInv, NEW r \in Req, Arrive(r)
  PROVE  IInv' /\ Steps(r)
  <1>1. ASSUME NEW u \in User, StartRegister(r, u) PROVE IInv' /\ Steps(r)
    BY <1>1, StartRegisterOK
  <1>2. ASSUME NEW u \in User, StartLogin(r, u) PROVE IInv' /\ Steps(r)
    BY <1>2, StartLoginOK
  <1>3. ASSUME NEW u \in User, StartLogout(r, u) PROVE IInv' /\ Steps(r)
    BY <1>3, StartLogoutOK
  <1>4. ASSUME NEW t \in Pair, StartRefresh(r, t) PROVE IInv' /\ Steps(r)
    BY <1>4, StartRefreshOK
  <1>5. ASSUME NEW t \in Pair, NEW o \in Route, StartValidate(r, o, t) PROVE IInv' /\ Steps(r)
    BY <1>5, StartValidateOK
  <1> QED
    BY <1>1, <1>2, <1>3, <1>4, <1>5 DEF Arrive

LEMMA CallOK ==
  ASSUME IInv, NEW r \in Req, Call(r)
  PROVE  IInv' /\ Steps(r)
  <1>1. CASE RegisterGet(r)
    BY <1>1, RegisterGetOK
  <1>2. CASE RegisterCreate(r)
    BY <1>2, RegisterCreateOK
  <1>3. CASE LoginGet(r)
    BY <1>3, LoginGetOK
  <1>4. CASE RefreshGet(r)
    BY <1>4, RefreshGetOK
  <1>5. CASE RefreshSession(r)
    BY <1>5, RefreshSessionOK
  <1>6. CASE InvalidateSession(r)
    BY <1>6, InvalidateSessionOK
  <1>7. CASE InvalidateAccess(r)
    BY <1>7, InvalidateAccessOK
  <1>8. CASE Delete(r)
    BY <1>8, DeleteOK
  <1>9. CASE IssueSession(r)
    BY <1>9, IssueSessionOK
  <1>10. CASE IssueRefresh(r)
    BY <1>10, IssueRefreshOK
  <1>11. CASE IssueAccess(r)
    BY <1>11, IssueAccessOK
  <1>12. CASE IssueAccessSession(r)
    BY <1>12, IssueAccessSessionOK
  <1>13. CASE SetStatus(r)
    BY <1>13, SetStatusOK
  <1>14. CASE ValidateGet(r)
    BY <1>14, ValidateGetOK
  <1>15. CASE ValidateSet(r)
    BY <1>15, ValidateSetOK
  <1>16. CASE ValidateSetSession(r)
    BY <1>16, ValidateSetSessionOK
  <1>17. ASSUME NEW u \in User, NEW st \in Status, PatchStatus(r, u, st) PROVE IInv' /\ Steps(r)
    BY <1>17, PatchStatusOK
  <1> QED
    BY <1>1, <1>2, <1>3, <1>4, <1>5, <1>6, <1>7, <1>8, <1>9, <1>10, <1>11,
     <1>12, <1>13, <1>14, <1>15, <1>16, <1>17 DEF Call

LEMMA NextInv ==
  ASSUME IInv, [Next]_vars
  PROVE  IInv'
  BY ArriveOK, CallOK, ExpireOK, StutterInv DEF Next

-----------------------------------------------------------------------------
(***************************************************************************)
(* What the histories record.  One request takes a step, from p to q: what *)
(* of it each part of HInv depends on.                                     *)
(***************************************************************************)
MonitorStep(p, q) ==
    /\ clash \subseteq clash' /\ checked \subseteq checked'
    /\ \A u \in User :
          /\ W(q, u) /\ ~W(p, u) =>
                \A s \in Req : /\ W(req[s], u) => u \in clash'
                               /\ C(req[s], u) => u \in checked'
          /\ C(q, u) /\ ~C(p, u) => \A s \in Req : W(req[s], u) => u \in checked'

EndStep(p, q) ==
    \A u \in User :
        /\ W(q, u) /\ q.op \in Issues => ended'[u] = "no" \/ (W(p, u) /\ p.op \in Issues)
        /\ ended[u] = "no" => \/ ended'[u] = "no"
                              \/ \A s \in Req : W(req[s], u) => req[s].op \notin Issues

SpentStep(p, q) ==
    /\ q.op = "Refresh" /\ q.pc \in Late =>
          Gone(q.tok)' \/ (p.op = "Refresh" /\ p.pc \in Late /\ p.tok = q.tok)
    /\ \A x \in spent' \ spent : p.op = "Refresh" /\ p.pc \in Late /\ p.tok = x

SameSession(u) == cache'[sessionKey(u)] = cache[sessionKey(u)]

LogoutStep(p, q) ==
    faults' = 0 => \A u \in User : ended'[u] # "no" =>
        \/ cache'[sessionKey(u)] = Miss
        \/ q.user = u /\ AtSession(q)
        \/ ended[u] # "no" /\ SameSession(u) /\ ~(p.user = u /\ AtSession(p))

LateAt(q, u) == q.user = u /\ q.op \in Issues /\ q.pc \in Late

StatusStep(p, q) ==
    \A u \in User :
        /\ u \notin byHand' /\ ended'[u] = "yes" =>
              \/ status'[u] = "offline"
              \/ u \notin byHand /\ ended[u] = "yes" /\ status'[u] = status[u]
        /\ faults' = 0 /\ u \notin clash' =>
              /\ q.op = "Logout" /\ q.user = u =>
                    \/ AtSession(q) \/ cache'[sessionKey(u)] = Miss
                    \/ p.op = "Logout" /\ p.user = u /\ ~AtSession(p) /\ SameSession(u)
              /\ u \notin byHand' /\ cache'[sessionKey(u)] # Miss =>
                    \/ status'[u] = "online" \/ LateAt(q, u)
                    \/ /\ u \notin byHand /\ SameSession(u) /\ status'[u] = status[u]
                       /\ ~LateAt(p, u)

\* The access keys of u are some of those there were, and u's pointer is as it was.
Shrinks(u) ==
    /\ \A x \in Pair : cache'[accessKey(x)] = u => cache[accessKey(x)] = u
    /\ cache'[accessSessionKey(u)] = cache[accessSessionKey(u)]
    /\ ended'[u] = "yes" => ended[u] = "yes"

TrackStep(p, q) ==
    faults' = 0 => \A u \in User \ (clash' \cup checked') :
        /\ W(p, u) /\ WriterInv(p, u) =>
              /\ ~C(q, u)
              /\ W(q, u) => WriterInv(q, u)'
              /\ ~W(q, u) => Tracked(u)' /\ (ended'[u] = "yes" => NoAccess(u)')
        /\ ~W(p, u) /\ W(q, u) =>
              ~C(p, u) /\ q.pc = "invSession" /\ (Tracked(u) => Tracked(u)')
        /\ ~W(p, u) /\ ~W(q, u) =>
              IF C(p, u) \/ C(q, u) THEN RestInv(u) => RestInv(u)' ELSE Shrinks(u)

HistStep(p, q) ==
    /\ MonitorStep(p, q) /\ EndStep(p, q) /\ SpentStep(p, q)
    /\ LogoutStep(p, q) /\ StatusStep(p, q) /\ TrackStep(p, q)

\* A session change is not a token check.
LEMMA NotBoth ==
  ASSUME NEW q \in Request, CallInv(q), NEW u
  PROVE  ~(W(q, u) /\ C(q, u))
  BY CallFacts DEF W, C, Routes

LEMMA MonitorKept ==
  ASSUME Types, NEW r \in Req, NEW p \in Request, NEW q \in Request, p = req[r],
         req' = [req EXCEPT ![r] = q], CallInv(q), Monitor, MonitorStep(p, q)
  PROVE  Monitor'
  <1>1. \A t \in Req : req'[t] = IF t = r THEN q ELSE req[t]
    BY SlotAfter
  <1> SUFFICES ASSUME NEW s \in Req, NEW t \in Req, NEW u \in User, W(req'[s], u)
               PROVE  /\ W(req'[t], u) /\ s # t => u \in clash'
                      /\ C(req'[t], u) => u \in checked'
    BY DEF Monitor, W, C
  <1>2. clash \subseteq clash' /\ checked \subseteq checked'
    BY DEF MonitorStep
  <1>3. CASE s # r /\ t # r
    BY <1>1, <1>2, <1>3 DEF Monitor
  <1>4. CASE s = r /\ t # r
    <2>1. W(q, u) /\ req'[t] = req[t]
      BY <1>1, <1>4
    <2>2. CASE W(p, u)
      BY <1>2, <1>4, <2>1, <2>2 DEF Monitor
    <2>3. CASE ~W(p, u)
      <3>1. /\ W(req[t], u) => u \in clash'
            /\ C(req[t], u) => u \in checked'
        BY <2>1, <2>3, Zenon DEF MonitorStep
      <3> QED
        BY <2>1, <3>1
    <2> QED
      BY <2>2, <2>3
  <1>5. CASE s # r /\ t = r
    <2>1. W(req[s], u) /\ req'[t] = q
      BY <1>1, <1>5
    <2>2. W(q, u) => u \in clash'
      <3>1. W(p, u) => u \in clash
        BY <1>5, <2>1 DEF Monitor
      <3>2. W(q, u) /\ ~W(p, u) => u \in clash'
        BY <2>1, Zenon DEF MonitorStep
      <3> QED
        BY <1>2, <3>1, <3>2
    <2>3. C(q, u) => u \in checked'
      <3>1. C(p, u) => u \in checked
        BY <1>5, <2>1 DEF Monitor
      <3>2. C(q, u) /\ ~C(p, u) => u \in checked'
        BY <2>1, Zenon DEF MonitorStep
      <3> QED
        BY <1>2, <3>1, <3>2
    <2> QED
      BY <2>1, <2>2, <2>3
  <1>6. CASE s = r /\ t = r
    BY <1>1, <1>6, NotBoth
  <1> QED
    BY <1>3, <1>4, <1>5, <1>6

LEMMA EndKept ==
  ASSUME Types, NEW r \in Req, NEW p \in Request, NEW q \in Request, p = req[r],
         req' = [req EXCEPT ![r] = q], EndInv, EndStep(p, q)
  PROVE  EndInv'
  <1>1. \A t \in Req : req'[t] = IF t = r THEN q ELSE req[t]
    BY SlotAfter
  <1> SUFFICES ASSUME NEW s \in Req, NEW u \in User, W(req'[s], u), req'[s].op \in Issues
               PROVE  ended'[u] = "no"
    BY DEF EndInv, W
  <1>2. CASE s # r
    <2>1. W(req[s], u) /\ req[s].op \in Issues
      BY <1>1, <1>2
    <2> QED
      BY <2>1 DEF EndInv, EndStep
  <1>3. CASE s = r
    <2>1. W(q, u) /\ q.op \in Issues
      BY <1>1, <1>3
    <2> QED
      BY <2>1 DEF EndInv, EndStep
  <1> QED
    BY <1>2, <1>3

\* What is gone does not come back.
LEMMA GoneKept ==
  ASSUME IInv, NEW r \in Req, NEW q \in Request, Step(r, q), NEW x \in Pair, Gone(x)
  PROVE  Gone(x)'
  <1>1. /\ nextPair \in Nat /\ x \in Nat /\ nextPair' \in Nat /\ nextPair <= nextPair'
        /\ x < nextPair
    BY MissFacts DEF IInv, Types, Step, Gone
  <1>2. \A v \in User : cache'[sessionKey(v)] # x
    BY <1>1 DEF Step, Writes, Gone
  <1> QED
    BY <1>1, <1>2 DEF Gone

LEMMA SpentKept ==
  ASSUME IInv, IInv', NEW r \in Req, NEW p \in Request, NEW q \in Request, p = req[r],
         Step(r, q), SpentInv, SpentStep(p, q)
  PROVE  SpentInv'
  <1>1. \A t \in Req : req'[t] = IF t = r THEN q ELSE req[t]
    BY SlotAfter DEF IInv, Step
  <1>2. \A s \in Req : req[s].op = "Refresh" => req[s].tok \in Pair
    <2> TAKE s \in Req
    <2>1. RequestInv(req[s]) /\ known \subseteq Pair
      BY DEF IInv, Types
    <2> QED
      BY <2>1 DEF RequestInv, Bearers
  <1>3. ASSUME NEW x \in spent' PROVE Gone(x)'
    <2>1. x \in Pair
      BY DEF IInv, Types
    <2>2. Gone(x)
      BY <1>3 DEF SpentInv, SpentStep
    <2> QED
      BY <2>1, <2>2, GoneKept
  <1>4. ASSUME NEW s \in Req, req'[s].op = "Refresh", req'[s].pc \in Late
        PROVE  Gone(req[s].tok)'
    <2>1. CASE s # r
      <3>1. req'[s] = req[s] /\ req[s].op = "Refresh" /\ req[s].pc \in Late
        BY <1>1, <1>4, <2>1
      <3> PICK x \in Pair : x = req[s].tok
        BY <1>2, <3>1
      <3>2. Gone(x)'
        <4>1. Gone(x)
          BY <3>1 DEF SpentInv
        <4> QED
          BY <4>1, GoneKept
      <3> QED
        BY <3>1, <3>2 DEF Gone
    <2>2. CASE s = r
      <3>1. req'[s] = q /\ q.op = "Refresh" /\ q.pc \in Late
        BY <1>1, <1>4, <2>2
      <3>2. Gone(q.tok)'
        <4>1. CASE p.op = "Refresh" /\ p.pc \in Late /\ p.tok = q.tok
          <5>1. Gone(q.tok) /\ q.tok \in Pair
            BY <1>2, <4>1 DEF SpentInv
          <5> QED
            BY <5>1, GoneKept
        <4> QED
          BY <3>1, <4>1 DEF SpentStep
      <3> QED
        BY <3>1, <3>2 DEF Gone
    <2> QED
      BY <2>1, <2>2
  <1> QED
    BY <1>3, <1>4 DEF SpentInv

LEMMA LogoutKept ==
  ASSUME Types, NEW r \in Req, NEW p \in Request, NEW q \in Request, p = req[r],
         req' = [req EXCEPT ![r] = q], faults' = 0 => faults = 0, LogoutInv,
         LogoutStep(p, q)
  PROVE  LogoutInv'
  <1>1. \A t \in Req : req'[t] = IF t = r THEN q ELSE req[t]
    BY SlotAfter
  <1> SUFFICES ASSUME faults' = 0, NEW u \in User, ended'[u] # "no",
                      cache'[sessionKey(u)] # Miss
               PROVE  \E s \in Req : req'[s].user = u /\ AtSession(req'[s])
    BY DEF LogoutInv, AtSession
  <1>2. CASE q.user = u /\ AtSession(q)
    BY <1>1, <1>2
  <1>3. CASE ended[u] # "no" /\ SameSession(u) /\ ~(p.user = u /\ AtSession(p))
    <2> PICK s \in Req : req[s].user = u /\ AtSession(req[s])
      BY <1>3 DEF LogoutInv, SameSession
    <2>1. s # r
      BY <1>3
    <2> QED
      BY <1>1, <2>1
  <1> QED
    BY <1>2, <1>3 DEF LogoutStep

LEMMA StatusKept ==
  ASSUME IInv, IInv', NEW r \in Req, NEW p \in Request, NEW q \in Request, p = req[r],
         Step(r, q), Monitor, clash \subseteq clash', StatusInv, StatusStep(p, q)
  PROVE  StatusInv'
  <1>1. \A t \in Req : req'[t] = IF t = r THEN q ELSE req[t]
    BY SlotAfter DEF IInv, Step
  <1>2. faults' = 0 => faults = 0
    BY DEF IInv, Types, Step
  <1> SUFFICES ASSUME NEW u \in User
               PROVE  /\ u \notin byHand' /\ ended'[u] = "yes" => status'[u] = "offline"
                      /\ faults' = 0 /\ u \notin clash' =>
                         /\ \A s \in Req : req'[s].op = "Logout" /\ req'[s].user = u =>
                               AtSession(req'[s]) \/ cache'[sessionKey(u)] = Miss
                         /\ u \notin byHand' /\ cache'[sessionKey(u)] # Miss =>
                               \/ status'[u] = "online"
                               \/ \E s \in Req : LateAt(req'[s], u)
    BY DEF StatusInv, LateAt, AtSession
  <1>3. u \notin byHand' /\ ended'[u] = "yes" => status'[u] = "offline"
    BY DEF StatusInv, StatusStep
  <1>4. ASSUME faults' = 0, u \notin clash', NEW s \in Req, req'[s].op = "Logout",
               req'[s].user = u, ~AtSession(req'[s])
        PROVE  cache'[sessionKey(u)] = Miss
    <2>1. faults = 0 /\ u \notin clash
      BY <1>2, <1>4
    <2>2. CASE s = r
      <3>1. q.op = "Logout" /\ q.user = u /\ ~AtSession(q)
        BY <1>1, <1>4, <2>2
      <3>2. p.op = "Logout" /\ p.user = u /\ ~AtSession(p) => cache[sessionKey(u)] = Miss
        BY <2>1 DEF StatusInv
      <3> QED
        BY <1>4, <3>1, <3>2 DEF StatusStep, SameSession
    <2>3. CASE s # r
      <3>1. req'[s] = req[s] /\ req[s].op = "Logout" /\ req[s].user = u /\ ~AtSession(req[s])
        BY <1>1, <1>4, <2>3
      <3>2. cache[sessionKey(u)] = Miss
        BY <2>1, <3>1 DEF StatusInv
      <3>3. ~W(p, u)
        <4>1. CallInv(req[s]) /\ req[s] \in Request
          BY SlotFacts
        <4>2. W(req[s], u)
          BY <3>1, <4>1 DEF W, CallInv, Inval
        <4> QED
          BY <2>1, <2>3, <4>2 DEF Monitor
      <3>4. ~(p.pc = "setSession" /\ p.user = u)
        <4>1. CallInv(p)
          BY SlotFacts
        <4>2. p.pc = "setSession" => p.op \in Issues
          BY <4>1, CallFacts
        <4> QED
          BY <3>3, <4>2 DEF W, Issues
      <3>5. \A x \in Pair : cache'[sessionKey(u)] # x
        BY <3>2, <3>4, MissFacts DEF Step, Writes
      <3>6. cache'[sessionKey(u)] \in Pair \cup {Miss}
        BY DEF Step, CacheType
      <3> QED
        BY <3>5, <3>6
    <2> QED
      BY <2>2, <2>3
  <1>5. ASSUME faults' = 0, u \notin clash', u \notin byHand', cache'[sessionKey(u)] # Miss,
               status'[u] # "online"
        PROVE  \E s \in Req : LateAt(req'[s], u)
    <2>1. CASE LateAt(q, u)
      BY <1>1, <2>1
    <2>2. CASE /\ u \notin byHand /\ SameSession(u) /\ status'[u] = status[u]
               /\ ~LateAt(p, u)
      <3> PICK s \in Req : LateAt(req[s], u)
        BY <1>2, <1>5, <2>2 DEF StatusInv, SameSession, LateAt
      <3>1. s # r
        BY <2>2
      <3> QED
        BY <1>1, <3>1
    <2> QED
      BY <1>5, <2>1, <2>2 DEF StatusStep
  <1> QED
    BY <1>3, <1>4, <1>5

\* What a writer knows survives the loss of access keys of u.
LEMMA WriterLess ==
  ASSUME NEW q \in Request, NEW u \in User, WriterInv(q, u),
         \A x \in Pair : cache'[accessKey(x)] = u => cache[accessKey(x)] = u,
         q.pc # "setAccessSession" /\ Tracked(u) => Tracked(u)'
  PROVE  WriterInv(q, u)'
  <1>1. NoAccess(u) => NoAccess(u)'
    BY DEF NoAccess
  <1>2. \A x : Only(u, x) => Only(u, x)'
    BY DEF Only
  <1>3. ASSUME q.pc = "delete", q.next # "invAccess"
        PROVE  \A x \in Pair : cache'[accessKey(x)] = u => In(accessKey(x), q.dels)
    BY <1>3 DEF WriterInv
  <1>4. \/ q.pc \in {"invSession", "invAccess"}
        \/ q.pc = "delete" /\ q.next = "invAccess"
        \/ q.pc = "setStatus"
        => Tracked(u)'
    BY DEF WriterInv
  <1>5. /\ q.pc \in {"setSession", "setRefresh", "setAccess"} => NoAccess(u)'
        /\ q.pc = "setStatus" /\ q.op = "Logout" => NoAccess(u)'
        /\ q.pc = "setAccessSession" => Only(u, q.pair)'
    BY <1>1, <1>2 DEF WriterInv
  <1> QED
    BY <1>3, <1>4, <1>5 DEF WriterInv, Tracked, NoAccess, Only, In

\* A request that is not concerned with u.
LEMMA TrackElsewhere ==
  ASSUME Types, NEW r \in Req, NEW q \in Request, req' = [req EXCEPT ![r] = q],
         NEW u \in User, ~W(req[r], u), ~C(req[r], u), ~W(q, u), ~C(q, u),
         Shrinks(u), TrackAt(u)
  PROVE  TrackAt(u)'
  <1>1. \A t \in Req : req'[t] = IF t = r THEN q ELSE req[t]
    BY SlotAfter
  <1>2. /\ \A t \in Req : W(req'[t], u) <=> W(req[t], u)
        /\ \A t \in Req : C(req'[t], u) <=> C(req[t], u)
        /\ \A t \in Req : C(req[t], u) => req'[t] = req[t]
    BY <1>1
  <1>3. \A x \in Pair : cache'[accessKey(x)] = u => cache[accessKey(x)] = u
    BY DEF Shrinks
  <1>4. Tracked(u) => Tracked(u)'
    BY DEF Shrinks, Tracked
  <1>5. ASSUME NEW t \in Req, W(req'[t], u) PROVE WriterInv(req[t], u)'
    <2>1. req'[t] = req[t] /\ W(req[t], u)
      BY <1>1, <1>5
    <2> PICK x \in Request : x = req[t]
      BY DEF Types
    <2>2. WriterInv(x, u)
      BY <2>1 DEF TrackAt
    <2>3. WriterInv(x, u)'
      BY <1>3, <1>4, <2>2, WriterLess
    <2> QED
      BY <2>1, <2>3 DEF WriterInv
  <1>6. ASSUME \A t \in Req : ~W(req'[t], u) PROVE RestInv(u)'
    <2>1. RestInv(u)
      BY <1>2, <1>6 DEF TrackAt
    <2>2. NoAccess(u) => NoAccess(u)'
      BY <1>3 DEF NoAccess
    <2>3. \A x : Only(u, x) => Only(u, x)'
      BY <1>3 DEF Only
    <2>4. \A t \in Req : C(req'[t], u) => Only(u, req[t].tok)' 
      <3> TAKE t \in Req
      <3> HAVE C(req'[t], u)
      <3> PICK x \in Request : x = req[t]
        BY DEF Types
      <3>1. Only(u, x.tok) /\ req'[t] = x
        BY <1>2, <2>1 DEF RestInv
      <3>2. Only(u, x.tok)'
        BY <2>3, <3>1
      <3> QED
        BY <3>1, <3>2 DEF Only
    <2>5. \A t, s \in Req : C(req'[t], u) /\ C(req'[s], u) => req'[t].tok = req'[s].tok
      BY <1>2, <2>1 DEF RestInv
    <2>6. Tracked(u)' \/ \E t \in Req : C(req'[t], u) /\ req'[t].pc = "valSetSession"
      BY <1>2, <1>4, <2>1 DEF RestInv
    <2>7. ended'[u] = "yes" => NoAccess(u)' /\ \A t \in Req : ~C(req'[t], u)
      BY <1>2, <2>1, <2>2 DEF RestInv, Shrinks
    <2> QED
      BY <2>4, <2>5, <2>6, <2>7 DEF RestInv, C
  <1> QED
    BY <1>5, <1>6 DEF TrackAt, W

LEMMA TrackKept ==
  ASSUME IInv, IInv', NEW r \in Req, NEW p \in Request, NEW q \in Request, p = req[r],
         Step(r, q), Monitor, Monitor', clash \subseteq clash', checked \subseteq checked',
         TrackInv, TrackStep(p, q)
  PROVE  TrackInv'
  <1>1. req' = [req EXCEPT ![r] = q] /\ Types /\ (faults' = 0 => faults = 0)
    BY DEF IInv, Types, Step
  <1>2. \A t \in Req : req'[t] = IF t = r THEN q ELSE req[t]
    BY <1>1, SlotAfter
  <1> SUFFICES ASSUME faults' = 0, NEW u \in User \ (clash' \cup checked')
               PROVE  TrackAt(u)'
    BY DEF TrackInv
  <1>3. TrackAt(u) /\ u \notin clash /\ u \notin checked
    BY <1>1 DEF TrackInv
  <1>4. \A s, t \in Req : W(req[s], u) => ~C(req[t], u) /\ (W(req[t], u) => s = t)
    BY <1>3 DEF Monitor
  <1>5. \A s, t \in Req : W(req'[s], u) => ~C(req'[t], u) /\ (W(req'[t], u) => s = t)
    BY DEF Monitor, W, C
  <1>6. CASE W(p, u)
    <2>1. /\ ~C(q, u)
          /\ W(q, u) => WriterInv(q, u)'
          /\ ~W(q, u) => Tracked(u)' /\ (ended'[u] = "yes" => NoAccess(u)')
      <3>1. WriterInv(p, u)
        BY <1>3, <1>6 DEF TrackAt
      <3> QED
        BY <1>6, <3>1, Zenon DEF TrackStep
    <2>2. ASSUME NEW s \in Req, W(req'[s], u) PROVE WriterInv(req[s], u)'
      <3>1. s = r
        BY <1>2, <1>4, <1>6, <2>2
      <3>2. req'[s] = q /\ WriterInv(q, u)'
        BY <1>2, <2>1, <2>2, <3>1
      <3> QED
        BY <3>2 DEF WriterInv
    <2>3. ASSUME \A s \in Req : ~W(req'[s], u) PROVE RestInv(u)'
      <3>1. \A s \in Req : ~C(req'[s], u)
        BY <1>2, <1>4, <1>6, <2>1
      <3>2. Tracked(u)' /\ (ended'[u] = "yes" => NoAccess(u)')
        BY <1>2, <2>1, <2>3
      <3> QED
        BY <3>1, <3>2 DEF RestInv, C
    <2> QED
      BY <2>2, <2>3 DEF TrackAt, W
  <1>7. CASE ~W(p, u) /\ W(q, u)
    <2>1. ~C(p, u) /\ q.pc = "invSession" /\ (Tracked(u) => Tracked(u)')
      BY <1>7, Zenon DEF TrackStep
    <2>2. \A s \in Req : ~W(req[s], u) /\ ~C(req[s], u)
      BY <1>2, <1>5, <1>7, <2>1
    <2>3. Tracked(u)'
      BY <1>3, <2>1, <2>2 DEF TrackAt, RestInv
    <2>4. WriterInv(q, u)'
      BY <2>1, <2>3 DEF WriterInv
    <2>5. ASSUME NEW s \in Req, W(req'[s], u) PROVE WriterInv(req[s], u)'
      <3>1. req'[s] = q
        BY <1>2, <1>5, <1>7, <2>5
      <3> QED
        BY <2>4, <3>1 DEF WriterInv
    <2>6. W(req'[r], u)
      BY <1>2, <1>7
    <2> QED
      BY <2>5, <2>6 DEF TrackAt, W
  <1>8. CASE ~W(p, u) /\ ~W(q, u) /\ (C(p, u) \/ C(q, u))
    <2>1. RestInv(u) => RestInv(u)'
      BY <1>8, Zenon DEF TrackStep
    <2>2. \A s \in Req : ~W(req[s], u) /\ ~W(req'[s], u)
      BY <1>2, <1>4, <1>5, <1>8
    <2>3. RestInv(u)'
      BY <1>3, <2>1, <2>2 DEF TrackAt
    <2> QED
      BY <2>2, <2>3 DEF TrackAt, W
  <1>9. CASE ~W(p, u) /\ ~W(q, u) /\ ~C(p, u) /\ ~C(q, u)
    <2>1. Shrinks(u)
      BY <1>9, Zenon DEF TrackStep
    <2> QED
      BY <1>1, <1>3, <1>9, <2>1, TrackElsewhere
  <1> QED
    BY <1>6, <1>7, <1>8, <1>9

LEMMA HistKept ==
  ASSUME IInv, IInv', HInv, NEW r \in Req, Steps(r), NEW p \in Request, NEW q \in Request,
         p = req[r], req' = [req EXCEPT ![r] = q], HistStep(p, q)
  PROVE  HInv'
  <1>1. Step(r, q)
    <2> PICK x \in Request : Step(r, x)
      BY DEF Steps
    <2>1. x = q
      BY DEF Step, IInv, Types
    <2> QED
      BY <2>1
  <1>2. Types /\ (faults' = 0 => faults = 0) /\ CallInv(q)
    <2>1. q = req'[r] /\ RequestInv(req[r])'
      BY DEF IInv, Types
    <2> QED
      BY <1>1, <2>1 DEF IInv, Types, Step, RequestInv
  <1>3. clash \subseteq clash' /\ checked \subseteq checked'
    BY DEF HistStep, MonitorStep
  <1>4. Monitor'
    BY <1>2, MonitorKept DEF HistStep, HInv
  <1>5. EndInv'
    BY <1>2, EndKept DEF HistStep, HInv
  <1>6. SpentInv'
    BY <1>1, SpentKept DEF HistStep, HInv
  <1>7. LogoutInv'
    BY <1>2, LogoutKept DEF HistStep, HInv
  <1>8. StatusInv'
    BY <1>1, <1>3, StatusKept DEF HistStep, HInv
  <1>9. TrackInv'
    BY <1>1, <1>3, <1>4, TrackKept DEF HistStep, HInv
  <1> QED
    BY <1>4, <1>5, <1>6, <1>7, <1>8, <1>9 DEF HInv

-----------------------------------------------------------------------------
(***************************************************************************)
(* Kinds of step.                                                          *)
(***************************************************************************)

\* The request changes no session and checks no token.
LEMMA Uninvolved ==
  ASSUME NEW p \in Request, NEW q \in Request,
         \A u \in User : ~W(p, u) /\ ~W(q, u) /\ ~C(p, u) /\ ~C(q, u),
         q.op # "Logout", q.pc \notin Late, UNCHANGED <<cache, spent, ended, clash, checked>>,
         \A u \in User : u \notin byHand' => u \notin byHand /\ status'[u] = status[u]
  PROVE  HistStep(p, q)
  <1>1. MonitorStep(p, q) /\ EndStep(p, q) /\ SpentStep(p, q)
    BY DEF MonitorStep, EndStep, SpentStep
  <1>2. \A u \in User : SameSession(u) /\ Shrinks(u)
    BY DEF SameSession, Shrinks
  <1>3. \A u \in User : ~(p.user = u /\ AtSession(p)) /\ ~LateAt(p, u)
    BY DEF W, AtSession, LateAt, Late, Issues
  <1>4. LogoutStep(p, q)
    BY <1>2, <1>3 DEF LogoutStep
  <1>5. StatusStep(p, q)
    BY <1>2, <1>3 DEF StatusStep
  <1>6. TrackStep(p, q)
    BY <1>2 DEF TrackStep
  <1> QED
    BY <1>1, <1>4, <1>5, <1>6 DEF HistStep

\* A call fails.
LEMMA FailHist ==
  ASSUME NEW p \in Request, NEW q \in Request, faults' # 0,
         UNCHANGED <<status, spent, byHand, ended, clash, checked>>,
         \A u \in User : W(q, u) => W(p, u) /\ p.op = q.op,
         \A u \in User : C(q, u) => C(p, u), q.op = "Refresh" => q.pc \notin Late
  PROVE  HistStep(p, q)
  <1>1. MonitorStep(p, q)
    BY DEF MonitorStep
  <1>2. EndStep(p, q) /\ SpentStep(p, q)
    BY DEF EndStep, SpentStep
  <1>3. LogoutStep(p, q) /\ StatusStep(p, q) /\ TrackStep(p, q)
    BY DEF LogoutStep, StatusStep, TrackStep
  <1> QED
    BY <1>1, <1>2, <1>3 DEF HistStep

\* A request begins to change the session of u.
LEMMA BeginHist ==
  ASSUME Types, NEW p \in Request, NEW q \in Request, NEW u \in User,
         NEW e \in {"no", "ending"}, Begin(u, e), q.user = u, q.pc = "invSession",
         q.op \in {"Login", "Refresh", "Logout"}, q.op \in Issues => e = "no",
         e = "no" \/ \A s \in Writing(u) : req[s].op = "Logout",
         \A v \in User : ~W(p, v) /\ ~C(p, v), UNCHANGED <<cache, status, spent, byHand>>
  PROVE  HistStep(p, q)
  <1>1. /\ \A v \in User : ended'[v] = IF v = u THEN e ELSE ended[v]
        /\ clash \subseteq clash' /\ checked \subseteq checked'
        /\ Writing(u) # {} => u \in clash'
        /\ Checking(u) # {} => u \in checked'
    BY BeginFacts
  <1>2. /\ \A s \in Req : W(req[s], u) => s \in Writing(u)
        /\ \A s \in Req : C(req[s], u) => s \in Checking(u)
    BY DEF W, C, Writing, Checking
  <1>3. \A v \in User : ~C(q, v) /\ (W(q, v) => v = u)
    BY DEF C, W
  <1>4. MonitorStep(p, q)
    BY <1>1, <1>2, <1>3 DEF MonitorStep
  <1>5. EndStep(p, q)
    <2>1. \A v \in User : W(q, v) /\ q.op \in Issues => ended'[v] = "no"
      BY <1>1, <1>3
    <2>2. e = "no" \/ \A s \in Req : W(req[s], u) => req[s].op \notin Issues
      BY <1>2 DEF Issues
    <2> QED
      BY <1>1, <2>1, <2>2 DEF EndStep
  <1>6. q.pc \notin Late
    BY DEF Late
  <1>7. SpentStep(p, q)
    BY <1>6 DEF SpentStep
  <1>8. \A v \in User : SameSession(v) /\ ~(p.user = v /\ AtSession(p)) /\ ~LateAt(p, v)
    BY DEF SameSession, W, AtSession, LateAt, Late, Issues
  <1>9. q.op = "Logout" => AtSession(q)
    BY DEF AtSession
  <1>10. LogoutStep(p, q)
    <2>1. ASSUME NEW v \in User, ended'[v] # "no"
          PROVE  (q.user = v /\ AtSession(q)) \/ ended[v] # "no"
      BY <1>1, <1>9, <2>1 DEF Issues
    <2> QED
      BY <1>8, <2>1 DEF LogoutStep
  <1>11. StatusStep(p, q)
    <2>1. \A v \in User : ended'[v] = "yes" => ended[v] = "yes" 
      BY <1>1
    <2> QED
      BY <1>8, <1>9, <2>1 DEF StatusStep
  <1>12. TrackStep(p, q)
    <2>1. \A v \in User : Shrinks(v) \/ v = u
      BY <1>1 DEF Shrinks
    <2>2. Tracked(u) => Tracked(u)'
      BY DEF Tracked
    <2>3. W(q, u)
      BY DEF W
    <2> QED
      BY <1>3, <2>1, <2>2, <2>3 DEF TrackStep
  <1> QED
    BY <1>4, <1>5, <1>7, <1>10, <1>11, <1>12 DEF HistStep

\* A call of a request that is changing the session of u works.
LEMMA WorkHist ==
  ASSUME IInv, HInv, NEW p \in Request, NEW q \in Request, NEW u \in User, CallInv(q),
         p.user = u, q.user = u, q.op = p.op, W(p, u), W(q, u),
         UNCHANGED <<status, spent, byHand, ended, clash, checked>>, NEW r \in Req, p = req[r],
         q.op = "Refresh" /\ q.pc \in Late => Gone(q.tok)' \/ (p.pc \in Late /\ p.tok = q.tok),
         p.op = "Logout" => \/ cache'[sessionKey(u)] = Miss \/ AtSession(q)
                            \/ ~AtSession(p) /\ SameSession(u),
         \A v \in User : v # u => SameSession(v) /\ Shrinks(v),
         \/ LateAt(q, u)
         \/ ~LateAt(p, u) /\ (cache'[sessionKey(u)] = Miss \/ SameSession(u)),
         faults' = 0 /\ u \notin clash /\ WriterInv(p, u) => WriterInv(q, u)'
  PROVE  HistStep(p, q)
  <1>1. \A v \in User : /\ W(p, v) <=> v = u
                        /\ W(q, v) <=> v = u
                        /\ ~C(q, v) /\ (v # u => ~C(p, v))
    BY NotBoth DEF W, C
  <1>2. MonitorStep(p, q)
    BY <1>1 DEF MonitorStep
  <1>3. EndStep(p, q) /\ SpentStep(p, q)
    BY <1>1 DEF EndStep, SpentStep
  <1>4. p.op \in Issues => ended[u] = "no"
    BY DEF HInv, EndInv
  <1>5. p.op \in Issues \/ p.op = "Logout"
    BY DEF W, Issues
  <1>6. LogoutStep(p, q)
    BY <1>4, <1>5 DEF LogoutStep
  <1>7. StatusStep(p, q)
    <2>1. ASSUME NEW v \in User, q.op = "Logout", q.user = v
          PROVE  \/ AtSession(q) \/ cache'[sessionKey(v)] = Miss
                 \/ p.op = "Logout" /\ p.user = v /\ ~AtSession(p) /\ SameSession(v)
      BY <2>1
    <2>2. ASSUME NEW v \in User, cache'[sessionKey(v)] # Miss
          PROVE  LateAt(q, v) \/ (SameSession(v) /\ ~LateAt(p, v))
      BY <2>2 DEF LateAt
    <2> QED
      BY <2>1, <2>2 DEF StatusStep
  <1>8. TrackStep(p, q)
    BY <1>1 DEF TrackStep
  <1> QED
    BY <1>2, <1>3, <1>6, <1>7, <1>8 DEF HistStep

\* A call of a request that is checking a token of u works.
LEMMA CheckHist ==
  ASSUME NEW p \in Request, NEW q \in Request, NEW u \in User, CallInv(p),
         C(p, u), \A v \in User : ~W(q, v) /\ (C(q, v) => v = u),
         UNCHANGED <<status, spent, byHand, ended, clash, checked>>,
         q.op # "Logout", q.pc \notin Late,
         \A v \in User : SameSession(v) /\ (v # u => Shrinks(v)),
         faults' = 0 /\ RestInv(u) => RestInv(u)'
  PROVE  HistStep(p, q)
  <1>1. \A v \in User : ~W(p, v) /\ (C(p, v) <=> v = u)
    BY NotBoth DEF W, C
  <1>2. MonitorStep(p, q)
    BY <1>1 DEF MonitorStep
  <1>3. EndStep(p, q) /\ SpentStep(p, q)
    BY DEF EndStep, SpentStep
  <1>4. \A v \in User : ~(p.user = v /\ AtSession(p)) /\ ~LateAt(p, v)
    BY <1>1 DEF W, AtSession, LateAt, Late, Issues
  <1>5. LogoutStep(p, q) /\ StatusStep(p, q)
    BY <1>4 DEF LogoutStep, StatusStep
  <1>6. TrackStep(p, q)
    BY <1>1 DEF TrackStep
  <1> QED
    BY <1>2, <1>3, <1>5, <1>6 DEF HistStep

-----------------------------------------------------------------------------
(***************************************************************************)
(* The histories through requests that arrive, return or ask.              *)
(***************************************************************************)
LEMMA Released ==
  ASSUME IInv, IInv', HInv, NEW r \in Req, Steps(r), Return(r),
         UNCHANGED <<spent, byHand, status, ended, clash, checked>>, faults' # 0
  PROVE  HInv'
  <1> PICK p \in Request : p = req[r]
    BY SlotFacts
  <1> PICK q \in Request : q = Idle
    BY IdleFacts
  <1>1. q.op = "none" /\ q.pc = "idle" /\ req' = [req EXCEPT ![r] = q]
    BY IdleFacts DEF Return
  <1>2. \A u \in User : ~W(q, u) /\ ~C(q, u)
    BY <1>1 DEF W, C
  <1>3. HistStep(p, q)
    BY <1>1, <1>2, FailHist
  <1> QED
    BY <1>1, <1>3, HistKept

LEMMA FailReturnHist ==
  ASSUME IInv, IInv', HInv, NEW r \in Req, Steps(r), FailAndReturn(r)
  PROVE  HInv'
  <1>1. UNCHANGED <<spent, byHand, status, ended, clash, checked>>
    BY Unchanged DEF FailAndReturn
  <1>2. faults' # 0
    BY DEF FailAndReturn, Fails, IInv, Types
  <1> QED
    BY <1>1, <1>2, Released DEF FailAndReturn

\* Where no session is being changed and no token checked.
Outside == {"idle", "regGet", "regCreate", "loginGet", "refGet", "refSession", "valGet",
            "patch"}

LEMMA OutsideFacts ==
  ASSUME NEW p \in Request, CallInv(p), p.pc \in Outside
  PROVE  /\ p.pc # "refGet" => \A u \in User : ~W(p, u) /\ ~C(p, u)
         /\ p.op # "Logout" /\ p.pc \notin Late
         /\ p.user = Miss => \A u \in User : ~W(p, u) /\ ~C(p, u)
  BY CallFacts, MissFacts DEF Outside, W, C, Routes, Late, Issues, CallInv, Inval

\* The request stays outside, or returns.
LEMMA OutsideHist ==
  ASSUME IInv, IInv', HInv, NEW r \in Req, Steps(r), req[r].pc \in Outside,
         NEW q \in Request, req' = [req EXCEPT ![r] = q], q.pc \in Outside,
         UNCHANGED <<cache, spent, ended, clash, checked>>,
         \A u \in User : u \notin byHand' => u \notin byHand /\ status'[u] = status[u]
  PROVE  HInv'
  <1> PICK p \in Request : p = req[r]
    BY SlotFacts
  <1>1. RequestInv(p) /\ CallInv(p)
    BY SlotFacts
  <1>2. req'[r] = q /\ RequestInv(req[r])'
    BY DEF IInv, Types
  <1>3. CallInv(q) /\ (q.pc \in {"idle", "refGet", "valGet"} => q.user = Miss)
    BY <1>2 DEF RequestInv
  <1>4. p.pc = "refGet" => p.user = Miss
    BY <1>1 DEF RequestInv
  <1>5. \A u \in User : ~W(p, u) /\ ~C(p, u) /\ ~W(q, u) /\ ~C(q, u)
    BY <1>1, <1>3, <1>4, OutsideFacts
  <1>6. q.op # "Logout" /\ q.pc \notin Late
    BY <1>3, OutsideFacts
  <1>7. HistStep(p, q)
    BY <1>5, <1>6, Uninvolved
  <1> QED
    BY <1>7, HistKept

LEMMA OutsideReturn ==
  ASSUME IInv, IInv', HInv, NEW r \in Req, Steps(r), req[r].pc \in Outside, Return(r),
         UNCHANGED <<cache, spent, ended, clash, checked>>,
         \A u \in User : u \notin byHand' => u \notin byHand /\ status'[u] = status[u]
  PROVE  HInv'
  <1> PICK q \in Request : q = Idle
    BY IdleFacts
  <1>1. q.pc \in Outside /\ req' = [req EXCEPT ![r] = q]
    BY IdleFacts DEF Outside, Return
  <1> QED
    BY <1>1, OutsideHist

LEMMA StartHist ==
  ASSUME IInv, IInv', HInv, NEW r \in Req, Steps(r), NEW o \in Op, NEW pc \in Pc,
         NEW u \in User \cup {Miss}, NEW t \in Pair \cup {0}, Start(r, o, pc, u, t),
         UNCHANGED overlap, pc \in Outside
  PROVE  HInv'
  <1>1. PICK q \in Request : q.pc = pc /\ req' = [req EXCEPT ![r] = q]
    BY StartFields
  <1>2. /\ UNCHANGED <<cache, spent, byHand, status, ended, clash, checked>>
        /\ req[r].pc \in Outside
    BY StartFields DEF overlap, Outside
  <1> QED
    BY <1>1, <1>2, OutsideHist

LEMMA StartRegisterHist ==
  ASSUME IInv, IInv', HInv, NEW r \in Req, Steps(r), NEW u \in User, StartRegister(r, u)
  PROVE  HInv'
  <1>1. "Register" \in Op /\ "regGet" \in Pc /\ "regGet" \in Outside
    BY DEF Op, Pc, Outside
  <1>2. Start(r, "Register", "regGet", u, 0) /\ UNCHANGED overlap
    BY DEF StartRegister
  <1> QED
    BY <1>1, <1>2, StartHist

LEMMA StartLoginHist ==
  ASSUME IInv, IInv', HInv, NEW r \in Req, Steps(r), NEW u \in User, StartLogin(r, u)
  PROVE  HInv'
  <1>1. "Login" \in Op /\ "loginGet" \in Pc /\ "loginGet" \in Outside
    BY DEF Op, Pc, Outside
  <1>2. Start(r, "Login", "loginGet", u, 0) /\ UNCHANGED overlap
    BY DEF StartLogin
  <1> QED
    BY <1>1, <1>2, StartHist

LEMMA StartRefreshHist ==
  ASSUME IInv, IInv', HInv, NEW r \in Req, Steps(r), NEW t \in Pair, StartRefresh(r, t)
  PROVE  HInv'
  <1>1. "Refresh" \in Op /\ "refGet" \in Pc /\ "refGet" \in Outside
    BY DEF Op, Pc, Outside
  <1>2. Start(r, "Refresh", "refGet", Miss, t) /\ UNCHANGED overlap
    BY DEF StartRefresh
  <1> QED
    BY <1>1, <1>2, StartHist

LEMMA StartValidateHist ==
  ASSUME IInv, IInv', HInv, NEW r \in Req, Steps(r), NEW o \in Route, NEW t \in Pair,
         StartValidate(r, o, t)
  PROVE  HInv'
  <1>1. o \in Op /\ "valGet" \in Pc /\ "valGet" \in Outside
    BY DEF Op, Pc, Outside
  <1>2. Start(r, o, "valGet", Miss, t) /\ UNCHANGED overlap
    BY DEF StartValidate
  <1> QED
    BY <1>1, <1>2, StartHist

LEMMA StartLogoutHist ==
  ASSUME IInv, IInv', HInv, NEW r \in Req, Steps(r), NEW u \in User, StartLogout(r, u)
  PROVE  HInv'
  <1> PICK p \in Request : p = req[r]
    BY SlotFacts
  <1>1. "Logout" \in Op /\ "invSession" \in Pc /\ Start(r, "Logout", "invSession", u, 0)
    BY DEF Op, Pc, StartLogout
  <1>2. PICK q \in Request : /\ q.op = "Logout" /\ q.pc = "invSession" /\ q.user = u
                             /\ req' = [req EXCEPT ![r] = q]
    BY <1>1, StartFields
  <1>3. UNCHANGED <<cache, status, spent, byHand>> /\ p.op = "none" /\ p.pc = "idle"
    BY <1>1, StartFields
  <1>4. PICK e \in {"no", "ending"} :
           /\ Begin(u, e)
           /\ e = "no" \/ \A s \in Writing(u) : req[s].op = "Logout"
    BY DEF StartLogout
  <1>5. \A v \in User : ~W(p, v) /\ ~C(p, v)
    BY <1>3 DEF W, C
  <1>6. HistStep(p, q)
    BY <1>2, <1>3, <1>4, <1>5, BeginHist DEF IInv, Issues
  <1> QED
    BY <1>2, <1>6, HistKept

\* An accepted Login or Refresh.
LEMMA AcceptHist ==
  ASSUME IInv, IInv', HInv, NEW r \in Req, Steps(r), req[r].pc \in {"loginGet", "refSession"},
         Go(r, "invSession"), Begin(req[r].user, "no"),
         UNCHANGED <<cache, status, spent, byHand>>
  PROVE  HInv'
  <1> PICK p \in Request : p = req[r]
    BY SlotFacts
  <1>1. "invSession" \in Pc
    BY DEF Pc
  <1>2. PICK q \in Request : /\ q.op = p.op /\ q.pc = "invSession" /\ q.user = p.user
                             /\ req' = [req EXCEPT ![r] = q]
    BY <1>1, GoFields
  <1>3. p.op \in Issues /\ p.user \in User /\ CallInv(p)
    BY SlotFacts, CallFacts DEF RequestInv, Issues
  <1>4. \A v \in User : ~W(p, v) /\ ~C(p, v)
    BY DEF W, C
  <1>5. HistStep(p, q)
    BY <1>2, <1>3, <1>4, BeginHist DEF IInv, Issues
  <1> QED
    BY <1>2, <1>5, HistKept

LEMMA RegisterGetHist ==
  ASSUME IInv, IInv', HInv, NEW r \in Req, Steps(r), RegisterGet(r)
  PROVE  HInv'
  <1>1. req[r].pc \in Outside
    BY DEF RegisterGet, Outside
  <1>2. CASE FailAndReturn(r)
    BY <1>2, FailReturnHist
  <1>3. CASE ~FailAndReturn(r)
    <2>1. (Return(r) \/ Go(r, "regCreate")) /\ UNCHANGED <<stores, nextPair, hist>>
      BY <1>3 DEF RegisterGet
    <2>2. UNCHANGED <<cache, spent, byHand, status, ended, clash, checked>>
      BY <2>1, Unchanged
    <2>3. CASE Return(r)
      BY <1>1, <2>2, <2>3, OutsideReturn
    <2>4. CASE Go(r, "regCreate")
      <3>1. "regCreate" \in Pc /\ "regCreate" \in Outside
        BY DEF Pc, Outside
      <3>2. PICK q \in Request : q.pc = "regCreate" /\ req' = [req EXCEPT ![r] = q]
        BY <2>4, <3>1, GoFields
      <3> QED
        BY <1>1, <2>2, <3>1, <3>2, OutsideHist
    <2> QED
      BY <2>1, <2>3, <2>4
  <1> QED
    BY <1>2, <1>3

LEMMA RegisterCreateHist ==
  ASSUME IInv, IInv', HInv, NEW r \in Req, Steps(r), RegisterCreate(r)
  PROVE  HInv'
  <1>1. req[r].pc \in Outside
    BY DEF RegisterCreate, Outside
  <1>2. CASE FailAndReturn(r)
    BY <1>2, FailReturnHist
  <1>3. CASE ~FailAndReturn(r)
    <2>1. Return(r) /\ UNCHANGED <<cache, spent, byHand, status, ended, clash, checked>>
      BY <1>3 DEF RegisterCreate, hist, overlap
    <2> QED
      BY <1>1, <2>1, OutsideReturn
  <1> QED
    BY <1>2, <1>3

LEMMA LoginGetHist ==
  ASSUME IInv, IInv', HInv, NEW r \in Req, Steps(r), LoginGet(r)
  PROVE  HInv'
  <1>1. req[r].pc \in Outside /\ req[r].pc \in {"loginGet", "refSession"}
    BY DEF LoginGet, Outside
  <1>2. CASE FailAndReturn(r)
    BY <1>2, FailReturnHist
  <1>3. CASE ~FailAndReturn(r)
    <2>1. /\ UNCHANGED <<cache, spent, byHand, status>>
          /\ \/ Go(r, "invSession") /\ Begin(req[r].user, "no")
             \/ Return(r) /\ UNCHANGED <<ended, clash, checked>>
      BY <1>3 DEF LoginGet, stores, overlap
    <2> QED
      BY <1>1, <2>1, AcceptHist, OutsideReturn
  <1> QED
    BY <1>2, <1>3

LEMMA RefreshSessionHist ==
  ASSUME IInv, IInv', HInv, NEW r \in Req, Steps(r), RefreshSession(r)
  PROVE  HInv'
  <1>1. req[r].pc \in Outside /\ req[r].pc \in {"loginGet", "refSession"}
    BY DEF RefreshSession, Outside
  <1>2. CASE FailAndReturn(r)
    BY <1>2, FailReturnHist
  <1>3. CASE ~FailAndReturn(r)
    <2>1. /\ UNCHANGED <<cache, spent, byHand, status>>
          /\ \/ Go(r, "invSession") /\ Begin(req[r].user, "no")
             \/ Return(r) /\ UNCHANGED <<ended, clash, checked>>
      BY <1>3 DEF RefreshSession, stores, overlap
    <2> QED
      BY <1>1, <2>1, AcceptHist, OutsideReturn
  <1> QED
    BY <1>2, <1>3

LEMMA RefreshGetHist ==
  ASSUME IInv, IInv', HInv, NEW r \in Req, Steps(r), RefreshGet(r)
  PROVE  HInv'
  <1> PICK p \in Request : p = req[r]
    BY SlotFacts
  <1>1. req[r].pc \in Outside /\ p.pc = "refGet" /\ p.op = "Refresh" /\ RequestInv(p)
    BY SlotFacts, CallFacts DEF RefreshGet, Outside
  <1>2. CASE FailAndReturn(r)
    BY <1>2, FailReturnHist
  <1>3. CASE ~FailAndReturn(r)
    <2> PICK u : u = cache[refreshKey(p.tok)]
      OBVIOUS
    <2>1. /\ IF u = Miss THEN Return(r) ELSE Named(r, u, "refSession")
          /\ UNCHANGED <<stores, nextPair, hist>>
      BY <1>3 DEF RefreshGet, Named
    <2>2. UNCHANGED <<cache, spent, byHand, status, ended, clash, checked>>
      BY <2>1, Unchanged
    <2>3. CASE u = Miss
      BY <1>1, <2>1, <2>2, <2>3, OutsideReturn
    <2>4. CASE u # Miss
      <3>1. p.tok \in Pair
        BY <1>1 DEF RequestInv, Bearers, IInv, Types
      <3>2. u \in User /\ "refSession" \in Pc /\ "refSession" \in Outside
        BY <2>4, <3>1 DEF IInv, CacheType, Pc, Outside
      <3>3. PICK q \in Request : q.pc = "refSession" /\ req' = [req EXCEPT ![r] = q]
        BY <2>1, <2>4, <3>2, NamedFields
      <3> QED
        BY <1>1, <2>2, <3>2, <3>3, OutsideHist
    <2> QED
      BY <2>3, <2>4
  <1> QED
    BY <1>2, <1>3

LEMMA PatchStatusHist ==
  ASSUME IInv, IInv', HInv, NEW r \in Req, Steps(r), NEW u \in User, NEW st \in Status,
         PatchStatus(r, u, st)
  PROVE  HInv'
  <1>1. req[r].pc \in Outside
    BY DEF PatchStatus, Outside
  <1>2. CASE FailAndReturn(r)
    BY <1>2, FailReturnHist
  <1>3. CASE ~FailAndReturn(r)
    <2>1. /\ Return(r) /\ UNCHANGED <<cache, spent, ended, clash, checked>>
          /\ status' = IF u \in accounts THEN [status EXCEPT ![u] = st] ELSE status
          /\ byHand' = byHand \cup ({u} \cap accounts)
      BY <1>3 DEF PatchStatus, overlap
    <2>2. status \in [User -> Status]
      BY DEF IInv, Types
    <2>3. \A v \in User : v \notin byHand' => v \notin byHand /\ status'[v] = status[v]
      BY <2>1, <2>2
    <2> QED
      BY <1>1, <2>1, <2>3, OutsideReturn
  <1> QED
    BY <1>2, <1>3

-----------------------------------------------------------------------------
(***************************************************************************)
(* The histories through token checks and the change of status.            *)
(***************************************************************************)

\* A request has read the token t of u.
LEMMA NowChecking ==
  ASSUME Types, NEW r \in Req, NEW q \in Request, req' = [req EXCEPT ![r] = q],
         NEW u \in User, RestInv(u), NEW t \in Pair, cache[accessKey(t)] = u, q.tok = t,
         ~C(req[r], u), cache' = cache, ended' = ended
  PROVE  RestInv(u)'
  <1>1. \A s \in Req : req'[s] = IF s = r THEN q ELSE req[s]
    BY SlotAfter
  <1>2. /\ \A s \in Req : C(req[s], u) => req[s].tok = t /\ Only(u, req[s].tok)
        /\ ended[u] # "yes"
    BY DEF RestInv, Only, NoAccess
  <1>3. Only(u, t)
    <2>1. CASE Tracked(u)
      BY <2>1 DEF Tracked, Only
    <2>2. CASE \E s \in Req : C(req[s], u)
      BY <1>2, <2>2
    <2> QED
      BY <2>1, <2>2 DEF RestInv
  <1>4. \A s \in Req : C(req'[s], u) => req'[s].tok = t
    BY <1>1, <1>2
  <1>5. Tracked(u) \/ \E s \in Req : C(req'[s], u) /\ req'[s].pc = "valSetSession"
    <2>1. CASE Tracked(u)
      BY <2>1
    <2>2. ASSUME NEW s \in Req, C(req[s], u), req[s].pc = "valSetSession"
          PROVE  C(req'[s], u) /\ req'[s].pc = "valSetSession"
      BY <1>1, <2>2
    <2> QED
      BY <2>1, <2>2 DEF RestInv
  <1> QED
    BY <1>2, <1>3, <1>4, <1>5 DEF RestInv, C, Only, Tracked

LEMMA ValidateGetHist ==
  ASSUME IInv, IInv', HInv, NEW r \in Req, Steps(r), ValidateGet(r)
  PROVE  HInv'
  <1> PICK p \in Request : p = req[r]
    BY SlotFacts
  <1>1. /\ req[r].pc \in Outside /\ p.pc = "valGet" /\ p.op \in Routes /\ p.op \in Bearers
        /\ RequestInv(p) /\ CallInv(p)
    BY SlotFacts, CallFacts DEF ValidateGet, Outside
  <1>2. CASE FailAndReturn(r)
    BY <1>2, FailReturnHist
  <1>3. CASE ~FailAndReturn(r)
    <2> PICK u : u = cache[accessKey(p.tok)]
      OBVIOUS
    <2>1. /\ IF u = Miss THEN Return(r) /\ UNCHANGED checked
             ELSE /\ Named(r, u, "valSet")
                  /\ checked' = IF Writing(u) = {} THEN checked ELSE checked \cup {u}
          /\ UNCHANGED <<cache, status, spent, byHand, ended, clash>>
      BY <1>3 DEF ValidateGet, Named, stores
    <2>2. CASE u = Miss
      BY <1>1, <2>1, <2>2, OutsideReturn
    <2>3. CASE u # Miss
      <3>1. p.tok \in Pair
        BY <1>1 DEF RequestInv, IInv, Types
      <3>2. u \in User /\ "valSet" \in Pc
        BY <2>3, <3>1 DEF IInv, CacheType, Pc
      <3>3. PICK q \in Request :
               /\ q.op = p.op /\ q.pc = "valSet" /\ q.user = u /\ q.tok = p.tok
               /\ req' = [req EXCEPT ![r] = q]
        BY <2>1, <2>3, <3>2, NamedFields
      <3>4. /\ \A v \in User : ~W(p, v) /\ ~C(p, v) /\ ~W(q, v)
            /\ \A v \in User : C(q, v) => v = u
        BY <1>1, <3>3 DEF W, C, Routes
      <3>5. MonitorStep(p, q)
        <4>1. \A s \in Req : W(req[s], u) => s \in Writing(u)
          BY DEF W, Writing
        <4>2. checked \subseteq checked' /\ (Writing(u) # {} => u \in checked')
          BY <2>1, <2>3
        <4> QED
          BY <2>1, <3>4, <4>1, <4>2 DEF MonitorStep
      <3>6. EndStep(p, q) /\ SpentStep(p, q)
        BY <1>1, <2>1, <3>3, <3>4 DEF EndStep, SpentStep, Routes
      <3>7. /\ \A v \in User : ~(p.user = v /\ AtSession(p)) /\ ~LateAt(p, v) /\ SameSession(v)
            /\ q.op # "Logout"
        BY <1>1, <2>1, <3>3 DEF AtSession, LateAt, Issues, Routes, SameSession
      <3>8. LogoutStep(p, q) /\ StatusStep(p, q)
        BY <2>1, <3>7 DEF LogoutStep, StatusStep
      <3>9. TrackStep(p, q)
        <4>1. \A v \in User : Shrinks(v)
          BY <2>1 DEF Shrinks
        <4>2. RestInv(u) => RestInv(u)'
          BY <2>1, <3>1, <3>2, <3>3, <3>4, NowChecking DEF IInv
        <4> QED
          BY <3>4, <4>1, <4>2 DEF TrackStep
      <3>10. HistStep(p, q)
        BY <3>5, <3>6, <3>8, <3>9 DEF HistStep
      <3> QED
        BY <3>3, <3>10, HistKept
    <2> QED
      BY <2>2, <2>3
  <1> QED
    BY <1>2, <1>3

\* The token is written back, and is the only one of u.
LEMMA ValidateSetHist ==
  ASSUME IInv, IInv', HInv, NEW r \in Req, Steps(r), ValidateSet(r)
  PROVE  HInv'
  <1> PICK p \in Request : p = req[r]
    BY SlotFacts
  <1> PICK u \in User : u = p.user
    BY TokenWrite
  <1>1. /\ p.pc = "valSet" /\ p.op \in Routes /\ p.tok \in Pair
        /\ UNCHANGED <<accounts, status, nextPair, hist>>
        /\ Set(accessKey(p.tok), p.user) =>
              /\ \A v \in User : /\ cache'[sessionKey(v)] = cache[sessionKey(v)]
                                 /\ cache'[accessSessionKey(v)] = cache[accessSessionKey(v)]
              /\ \A y \in Pair : cache'[accessKey(y)] = IF y = p.tok THEN p.user
                                                        ELSE cache[accessKey(y)]
    BY TokenWrite
  <1>2. UNCHANGED <<status, spent, byHand, ended, clash, checked>>
    BY <1>1 DEF hist, overlap
  <1>3. CASE Fails /\ Return(r)
    <2>1. faults' # 0
      BY <1>3 DEF Fails, IInv, Types
    <2> QED
      BY <1>2, <1>3, <2>1, Released
  <1>4. CASE Works /\ Set(accessKey(p.tok), u) /\ Go(r, "valSetSession")
    <2>1. "valSetSession" \in Pc
      BY DEF Pc
    <2>2. PICK q \in Request : /\ q.op = p.op /\ q.pc = "valSetSession" /\ q.user = u
                               /\ q.tok = p.tok /\ req' = [req EXCEPT ![r] = q]
      BY <1>4, <2>1, GoFields
    <2>3. \A s \in Req : req'[s] = IF s = r THEN q ELSE req[s]
      BY <2>2, SlotAfter DEF IInv
    <2>4. /\ \A v \in User : cache'[sessionKey(v)] = cache[sessionKey(v)]
          /\ \A v \in User : cache'[accessSessionKey(v)] = cache[accessSessionKey(v)]
          /\ \A y \in Pair : cache'[accessKey(y)] = IF y = p.tok THEN u ELSE cache[accessKey(y)]
      BY <1>1, <1>4
    <2>5. C(p, u) /\ C(q, u) /\ \A v \in User : ~W(q, v) /\ (C(q, v) => v = u)
      BY <1>1, <2>2 DEF W, C, Routes
    <2>6. \A v \in User : SameSession(v) /\ (v # u => Shrinks(v))
      BY <1>2, <2>4 DEF SameSession, Shrinks
    <2>7. ASSUME RestInv(u) PROVE RestInv(u)'
      <3>1. /\ Only(u, p.tok) /\ ended[u] # "yes"
            /\ \A s \in Req : C(req[s], u) => req[s].tok = p.tok
        BY <2>5, <2>7 DEF RestInv
      <3>2. Only(u, p.tok)'
        BY <2>4, <3>1 DEF Only
      <3>3. \A s \in Req : C(req'[s], u) => req'[s].tok = p.tok
        BY <2>2, <2>3, <3>1
      <3>4. C(req'[r], u) /\ req'[r].pc = "valSetSession"
        BY <2>2, <2>3, <2>5
      <3> QED
        BY <1>2, <3>1, <3>2, <3>3, <3>4 DEF RestInv, C, Only
    <2>8. CallInv(p) /\ q.op # "Logout" /\ q.pc \notin Late
      BY <1>1, <2>2, SlotFacts DEF Routes, Late
    <2>9. HistStep(p, q)
      BY <1>2, <2>5, <2>6, <2>7, <2>8, CheckHist
    <2> QED
      BY <2>2, <2>9, HistKept
  <1> QED
    BY <1>3, <1>4 DEF ValidateSet

\* The user's pointer names it.
LEMMA ValidateSetSessionHist ==
  ASSUME IInv, IInv', HInv, NEW r \in Req, Steps(r), ValidateSetSession(r)
  PROVE  HInv'
  <1> PICK p \in Request : p = req[r]
    BY SlotFacts
  <1> PICK u \in User : u = p.user
    BY ActiveWrite
  <1>1. /\ p.pc = "valSetSession" /\ p.op \in Routes /\ p.tok \in Pair
        /\ UNCHANGED <<accounts, status, nextPair, hist>>
        /\ Set(accessSessionKey(p.user), p.tok) =>
              /\ \A v \in User : /\ cache'[sessionKey(v)] = cache[sessionKey(v)]
                                 /\ cache'[accessSessionKey(v)] =
                                       IF v = p.user THEN p.tok
                                       ELSE cache[accessSessionKey(v)]
              /\ \A y \in Pair : cache'[accessKey(y)] = cache[accessKey(y)]
    BY ActiveWrite
  <1>2. UNCHANGED <<status, spent, byHand, ended, clash, checked>>
    BY <1>1 DEF hist, overlap
  <1>3. CASE Fails /\ Return(r)
    <2>1. faults' # 0
      BY <1>3 DEF Fails, IInv, Types
    <2> QED
      BY <1>2, <1>3, <2>1, Released
  <1>4. CASE /\ Works /\ Set(accessSessionKey(u), p.tok)
             /\ IF p.op = "Patch" THEN Go(r, "patch") ELSE Return(r)
    <2>1. \E q \in Request : /\ q.pc \in {"patch", "idle"} /\ q.op \notin {"Login", "Refresh", "Logout"}
                             /\ req' = [req EXCEPT ![r] = q]
      <3>1. CASE Go(r, "patch") /\ p.op = "Patch"
        <4>1. "patch" \in Pc
          BY DEF Pc
        <4> QED
          BY <3>1, <4>1, GoFields
      <3>2. CASE Return(r)
        BY <3>2, IdleFacts DEF Return
      <3> QED
        BY <1>4, <3>1, <3>2
    <2>2. PICK q \in Request : /\ q.pc \in {"patch", "idle"}
                               /\ q.op \notin {"Login", "Refresh", "Logout"}
                               /\ req' = [req EXCEPT ![r] = q]
      BY <2>1
    <2>3. \A s \in Req : req'[s] = IF s = r THEN q ELSE req[s]
      BY <2>2, SlotAfter DEF IInv
    <2>4. /\ \A v \in User : cache'[sessionKey(v)] = cache[sessionKey(v)]
          /\ \A v \in User : cache'[accessSessionKey(v)] = IF v = u THEN p.tok
                                                           ELSE cache[accessSessionKey(v)]
          /\ \A y \in Pair : cache'[accessKey(y)] = cache[accessKey(y)]
      BY <1>1, <1>4
    <2>5. C(p, u) /\ \A v \in User : ~W(q, v) /\ ~C(q, v)
      BY <1>1, <2>2 DEF W, C
    <2>6. \A v \in User : SameSession(v) /\ (v # u => Shrinks(v))
      BY <1>2, <2>4 DEF SameSession, Shrinks
    <2>7. ASSUME RestInv(u) PROVE RestInv(u)'
      <3>1. /\ Only(u, p.tok) /\ ended[u] # "yes"
            /\ \A s \in Req : C(req[s], u) => req[s].tok = p.tok
        BY <2>5, <2>7 DEF RestInv
      <3>2. Only(u, p.tok)' /\ Tracked(u)'
        BY <2>4, <3>1 DEF Only, Tracked
      <3>3. \A s \in Req : C(req'[s], u) => req'[s].tok = p.tok
        BY <2>3, <2>5, <3>1
      <3> QED
        BY <1>2, <3>1, <3>2, <3>3 DEF RestInv, C, Only
    <2>8. CallInv(p) /\ q.op # "Logout" /\ q.pc \notin Late
      BY <2>2, SlotFacts DEF Late
    <2>9. HistStep(p, q)
      BY <1>2, <2>5, <2>6, <2>7, <2>8, CheckHist
    <2> QED
      BY <2>2, <2>9, HistKept
  <1> QED
    BY <1>3, <1>4 DEF ValidateSetSession, ActiveAccess

\* The last call of Login, Refresh and Logout.
LEMMA SetStatusHist ==
  ASSUME IInv, IInv', HInv, NEW r \in Req, Steps(r), SetStatus(r)
  PROVE  HInv'
  <1>1. CASE FailAndReturn(r)
    BY <1>1, FailReturnHist
  <1>2. CASE ~FailAndReturn(r)
    <2> PICK p \in Request : p = req[r]
      BY SlotFacts
    <2> PICK u \in User : u = p.user
      BY <1>2, StatusWrite
    <2> PICK q \in Request : q = Idle
      BY IdleFacts
    <2>1. /\ p.pc = "setStatus" /\ Return(r)
          /\ p.op \in Issues \cup {"Logout"} /\ (p.op \in Issues <=> p.op # "Logout")
          /\ p.op \in Issues => u \in accounts
          /\ byHand' = byHand \ {u}
          /\ \A v \in User : status'[v] = IF v = u /\ v \in accounts
                                          THEN NewStatus(p.op) ELSE status[v]
          /\ \A v \in User : ended'[v] = IF v = u /\ p.op = "Logout" /\ ended[v] = "ending"
                                         THEN "yes" ELSE ended[v]
          /\ spent' = IF p.op = "Refresh" THEN spent \cup {p.tok} ELSE spent
          /\ cache' = cache /\ clash' = clash /\ checked' = checked
      BY <1>2, StatusWrite
    <2>2. q.op = "none" /\ q.pc = "idle" /\ req' = [req EXCEPT ![r] = q]
      BY <2>1, IdleFacts DEF Return
    <2>3. /\ \A v \in User : ~W(q, v) /\ ~C(q, v) /\ ~C(p, v)
          /\ \A v \in User : W(p, v) <=> v = u
      BY <2>1, <2>2 DEF W, C, Issues
    <2>4. MonitorStep(p, q)
      BY <2>1, <2>3 DEF MonitorStep
    <2>5. EndStep(p, q)
      BY <2>1, <2>3 DEF EndStep
    <2>6. SpentStep(p, q)
      BY <2>1, <2>2 DEF SpentStep, Late
    <2>7. p.op \in Issues => ended[u] = "no"
      BY <2>3 DEF HInv, EndInv
    <2>8. /\ ~AtSession(p) /\ \A v \in User : SameSession(v)
          /\ \A v \in User : ended'[v] # "no" => ended[v] # "no"
      BY <2>1 DEF AtSession, SameSession
    <2>9. LogoutStep(p, q)
      BY <2>8 DEF LogoutStep
    <2>10. StatusStep(p, q)
      <3>1. NewStatus(p.op) = IF p.op = "Logout" THEN "offline" ELSE "online"
        BY DEF NewStatus
      <3>2. u \notin accounts => status[u] = "offline"
        BY DEF IInv, AccountInv
      <3>3. ended'[u] = "yes" => status'[u] = "offline"
        BY <2>1, <2>7, <3>1, <3>2
      <3>4. ASSUME faults' = 0, u \notin clash', cache'[sessionKey(u)] # Miss
            PROVE  status'[u] = "online"
        <4>1. p.op # "Logout"
          <5>1. faults = 0 /\ u \notin clash /\ cache[sessionKey(u)] # Miss
            BY <2>1, <3>4 DEF Steps, Step, IInv, Types
          <5> QED
            BY <2>8, <5>1 DEF HInv, StatusInv
        <4> QED
          BY <2>1, <3>1, <4>1
      <3>5. \A v \in User : v # u => /\ status'[v] = status[v] /\ ended'[v] = ended[v]
                                     /\ (v \notin byHand' => v \notin byHand)
                                     /\ ~LateAt(p, v)
        BY <2>1 DEF LateAt
      <3> QED
        BY <2>2, <2>8, <3>3, <3>4, <3>5 DEF StatusStep
    <2>11. TrackStep(p, q)
      <3>1. WriterInv(p, u) => Tracked(u)' /\ (ended'[u] = "yes" => NoAccess(u)')
        <4>1. Tracked(u) => Tracked(u)'
          BY <2>1 DEF Tracked
        <4>2. NoAccess(u) => NoAccess(u)'
          BY <2>1 DEF NoAccess
        <4> QED
          BY <2>1, <2>7, <4>1, <4>2 DEF WriterInv
      <3>2. \A v \in User : v # u => Shrinks(v)
        BY <2>1 DEF Shrinks
      <3> QED
        BY <2>3, <3>1, <3>2 DEF TrackStep
    <2>12. HistStep(p, q)
      BY <2>4, <2>5, <2>6, <2>9, <2>10, <2>11 DEF HistStep
    <2> QED
      BY <2>2, <2>12, HistKept
  <1> QED
    BY <1>1, <1>2

-----------------------------------------------------------------------------
(***************************************************************************)
(* The histories through the calls that change a session.                  *)
(***************************************************************************)
LEMMA InvalidateSessionHist ==
  ASSUME IInv, IInv', HInv, NEW r \in Req, Steps(r), InvalidateSession(r)
  PROVE  HInv'
  <1>1. CASE FailAndReturn(r)
    BY <1>1, FailReturnHist
  <1>2. CASE ~FailAndReturn(r)
    <2> PICK p \in Request : p = req[r]
      BY SlotFacts
    <2>1. p.pc = "invSession" /\ CallInv(p) /\ RequestInv(p)
      BY SlotFacts DEF InvalidateSession
    <2> PICK u \in User : u = p.user
      BY <2>1 DEF RequestInv
    <2> PICK x : x = cache[sessionKey(u)]
      OBVIOUS
    <2>2. /\ IF x = Miss THEN Go(r, "invAccess")
             ELSE Deleting(r, SessionKeys(u, x), "invAccess")
          /\ UNCHANGED <<stores, nextPair, hist>>
      BY <1>2 DEF InvalidateSession
    <2>3. UNCHANGED <<cache, status, spent, byHand, ended, clash, checked>>
      BY <2>2, Unchanged
    <2>4. p.op \in Issues \cup {"Logout"} /\ "invAccess" \in Pc /\ x \in Pair \cup {Miss}
      BY <2>1, CallFacts DEF Inval, Pc, IInv, CacheType
    <2>5. \E q \in Request :
             /\ q.op = p.op /\ q.user = u /\ req' = [req EXCEPT ![r] = q]
             /\ \/ q.pc = "invAccess" /\ x = Miss
                \/ q.pc = "delete" /\ q.next = "invAccess" /\ Len(q.dels) = 2
      <3>1. CASE x = Miss
        BY <2>2, <2>4, <3>1, GoFields
      <3>2. CASE x # Miss
        <4>1. SessionKeys(u, x) \in Seq(Key) /\ Len(SessionKeys(u, x)) = 2
          BY <2>4, <3>2, KeyFacts, TwoKeys DEF SessionKeys
        <4> QED
          BY <2>2, <2>4, <3>2, <4>1, DeletingFields
      <3> QED
        BY <3>1, <3>2
    <2>6. PICK q \in Request :
             /\ q.op = p.op /\ q.user = u /\ req' = [req EXCEPT ![r] = q]
             /\ \/ q.pc = "invAccess" /\ x = Miss
                \/ q.pc = "delete" /\ q.next = "invAccess" /\ Len(q.dels) = 2
      BY <2>5
    <2>7. req'[r] = q /\ RequestInv(req[r])'
      BY <2>6 DEF IInv, Types
    <2>8. CallInv(q) /\ W(p, u) /\ W(q, u) /\ q.pc \notin Late /\ p.pc \notin Late
      BY <2>1, <2>4, <2>6, <2>7 DEF RequestInv, W, Issues, Late
    <2>9. /\ p.op = "Logout" => cache'[sessionKey(u)] = Miss \/ AtSession(q)
          /\ \A v \in User : SameSession(v) /\ Shrinks(v)
          /\ ~LateAt(p, u)
      BY <2>3, <2>6, <2>8 DEF AtSession, SameSession, Shrinks, LateAt
    <2>10. WriterInv(p, u) => WriterInv(q, u)'
      <3>1. Tracked(u) => Tracked(u)'
        BY <2>3 DEF Tracked
      <3> QED
        BY <2>1, <2>6, <3>1 DEF WriterInv
    <2>11. HistStep(p, q)
      BY <2>3, <2>6, <2>8, <2>9, <2>10, WorkHist
    <2> QED
      BY <2>6, <2>11, HistKept
  <1> QED
    BY <1>1, <1>2

LEMMA InvalidateAccessHist ==
  ASSUME IInv, IInv', HInv, NEW r \in Req, Steps(r), InvalidateAccess(r)
  PROVE  HInv'
  <1>1. CASE FailAndReturn(r)
    BY <1>1, FailReturnHist
  <1>2. CASE ~FailAndReturn(r)
    <2> PICK p \in Request : p = req[r]
      BY SlotFacts
    <2>1. p.pc = "invAccess" /\ CallInv(p) /\ RequestInv(p)
      BY SlotFacts DEF InvalidateAccess
    <2> PICK u \in User : u = p.user
      BY <2>1 DEF RequestInv
    <2> PICK x : x = cache[accessSessionKey(u)]
      OBVIOUS
    <2> PICK pc : pc = AfterInvalidate(r)
      OBVIOUS
    <2>2. /\ IF x = Miss THEN Go(r, pc) ELSE Deleting(r, AccessKeys(u, x), pc)
          /\ UNCHANGED <<stores, nextPair, hist>>
      BY <1>2 DEF InvalidateAccess
    <2>3. UNCHANGED <<cache, status, spent, byHand, ended, clash, checked>>
      BY <2>2, Unchanged
    <2>4. /\ p.op \in Issues \cup {"Logout"} /\ x \in Pair \cup {Miss}
          /\ pc \in Pc /\ pc = IF p.op = "Logout" THEN "setStatus" ELSE "setSession"
      BY <2>1, CallFacts DEF Inval, Pc, IInv, CacheType, AfterInvalidate
    <2>5. \E q \in Request :
             /\ q.op = p.op /\ q.user = u /\ req' = [req EXCEPT ![r] = q]
             /\ \/ q.pc = pc /\ x = Miss
                \/ q.pc = "delete" /\ q.next = pc /\ x \in Pair /\ In(accessKey(x), q.dels)
      <3>1. CASE x = Miss
        BY <2>2, <2>4, <3>1, GoFields
      <3>2. CASE x # Miss
        <4>1. AccessKeys(u, x) \in Seq(Key) /\ In(accessKey(x), AccessKeys(u, x))
          BY <2>4, <3>2, KeyFacts, TwoKeys DEF AccessKeys
        <4> QED
          BY <2>2, <2>4, <3>2, <4>1, DeletingFields
      <3> QED
        BY <3>1, <3>2
    <2>6. PICK q \in Request :
             /\ q.op = p.op /\ q.user = u /\ req' = [req EXCEPT ![r] = q]
             /\ \/ q.pc = pc /\ x = Miss
                \/ q.pc = "delete" /\ q.next = pc /\ x \in Pair /\ In(accessKey(x), q.dels)
      BY <2>5
    <2>7. req'[r] = q /\ RequestInv(req[r])'
      BY <2>6 DEF IInv, Types
    <2>8. /\ CallInv(q) /\ W(p, u) /\ W(q, u) /\ p.pc \notin Late
          /\ q.op \in Issues => q.pc \notin Late
      BY <2>1, <2>4, <2>6, <2>7 DEF RequestInv, W, Issues, Late
    <2>9. /\ ~AtSession(p) /\ ~LateAt(p, u)
          /\ \A v \in User : SameSession(v) /\ Shrinks(v)
          /\ q.op = "Refresh" => q.pc \notin Late
      BY <2>1, <2>3, <2>8 DEF AtSession, SameSession, Shrinks, LateAt, Issues
    <2>10. ASSUME WriterInv(p, u) PROVE WriterInv(q, u)'
      <3>1. Tracked(u) /\ Tracked(u)'
        BY <2>1, <2>3, <2>10 DEF WriterInv, Tracked
      <3>2. CASE q.pc = pc /\ x = Miss
        <4>1. NoAccess(u)'
          BY <2>3, <3>1, <3>2, MissFacts DEF Tracked, NoAccess
        <4> QED
          BY <2>4, <3>1, <3>2, <4>1 DEF WriterInv
      <3>3. CASE q.pc = "delete" /\ q.next = pc /\ x \in Pair /\ In(accessKey(x), q.dels)
        <4>1. \A y \in Pair : cache'[accessKey(y)] = u => In(accessKey(y), q.dels)
          BY <2>3, <3>1, <3>3 DEF Tracked
        <4> QED
          BY <2>4, <3>3, <4>1 DEF WriterInv
      <3> QED
        BY <2>6, <3>2, <3>3
    <2>11. HistStep(p, q)
      BY <2>3, <2>6, <2>8, <2>9, <2>10, WorkHist
    <2> QED
      BY <2>6, <2>11, HistKept
  <1> QED
    BY <1>1, <1>2

\* A Delete of a request that has met no failure.
LEMMA DeletedHist ==
  ASSUME IInv, IInv', HInv, NEW r \in Req, NEW q \in Request, Deleted(r, q), faults' = 0,
         NEW p \in Request, p = req[r]
  PROVE  HistStep(p, q)
  <1>1. /\ p.pc = "delete" /\ req' = [req EXCEPT ![r] = q]
        /\ UNCHANGED <<status, spent, byHand, ended, clash, checked>>
    BY DEF Deleted
  <1>2. /\ CallInv(p) /\ DeleteInv(p) /\ RequestInv(p)
        /\ p.op \in Issues \cup {"Logout"} /\ p.dels \in Seq(Key) /\ p.dels # <<>>
    BY <1>1, DeleteFacts
  <1> PICK u \in User : u = p.user
    BY <1>1, DeleteFacts
  <1> PICK k : k = p.dels[1]
    OBVIOUS
  <1>3. /\ faults = 0 /\ k \in Key /\ cache'[k] = Miss
        /\ \A j \in Key : j # k => cache'[j] = cache[j]
        /\ \A j \in Key : cache'[j] = cache[j] \/ cache'[j] = Miss
    <2>1. faults = 0
      BY DeletedCache
    <2> QED
      BY <2>1, DeletedCache
  <1>4. p.next \in {"invAccess", "setSession", "setStatus"}
    BY <1>1, <1>2, <1>3 DEF RequestInv, Undoing, DeleteInv
  <1>5. /\ q.op = p.op /\ q.user = u
        /\ \/ Len(p.dels) # 1 /\ q.pc = "delete" /\ q.next = p.next /\ q.dels = Tail(p.dels)
           \/ Len(p.dels) = 1 /\ q.pc = p.next
    BY <1>4 DEF Deleted
  <1>6. CallInv(q)
    <2>1. req'[r] = q /\ RequestInv(req[r])'
      BY <1>1 DEF IInv, Types
    <2> QED
      BY <2>1 DEF RequestInv
  <1>7. /\ W(p, u) /\ W(q, u) /\ p.pc \notin Late
        /\ q.op \in Issues => q.pc \notin Late
    <2>1. p.next = "setStatus" => p.op = "Logout"
      BY <1>2 DEF DeleteInv
    <2> QED
      BY <1>1, <1>2, <1>4, <1>5, <2>1 DEF W, Issues, Late
  <1>8. /\ Len(p.dels) \in Nat /\ Len(p.dels) # 0
        /\ \A j : In(j, p.dels) => j = k \/ In(j, Tail(p.dels))
    BY <1>2, RestOf
  <1>9. \A y \in Pair : cache'[accessKey(y)] = u => cache[accessKey(y)] = u
    BY <1>3, KeyFacts, MissFacts
  <1>10. CASE p.next = "invAccess"
    <2> PICK x \in Pair : Two(p.dels, sessionKey(u), refreshKey(x))
      BY <1>2, <1>10 DEF DeleteInv
    <2>1. \/ Len(p.dels) = 2 /\ k = sessionKey(u)
          \/ Len(p.dels) = 1 /\ k = refreshKey(x)
      BY DEF Two
    <2>2. \A v \in User : v # u => SameSession(v) /\ Shrinks(v)
      BY <1>1, <1>3, <2>1, KeyFacts DEF SameSession, Shrinks
    <2>3. cache'[sessionKey(u)] = Miss \/ (~AtSession(p) /\ SameSession(u))
      <3>1. CASE Len(p.dels) = 2 /\ k = sessionKey(u)
        BY <1>3, <3>1
      <3>2. CASE Len(p.dels) = 1 /\ k = refreshKey(x)
        <4>1. SameSession(u)
          BY <1>3, <3>2, KeyFacts DEF SameSession
        <4>2. ~AtSession(p)
          BY <1>1, <3>2 DEF AtSession
        <4> QED
          BY <4>1, <4>2
      <3> QED
        BY <2>1, <3>1, <3>2
    <2>4. WriterInv(p, u) => WriterInv(q, u)'
      <3>1. \A y \in Pair : cache'[accessKey(y)] = cache[accessKey(y)]
        BY <1>3, <2>1, KeyFacts
      <3>2. cache'[accessSessionKey(u)] = cache[accessSessionKey(u)]
        BY <1>3, <2>1, KeyFacts
      <3>3. Tracked(u) => Tracked(u)'
        BY <3>1, <3>2 DEF Tracked
      <3> QED
        BY <1>1, <1>5, <1>10, <3>3 DEF WriterInv
    <2>5. ~LateAt(p, u) /\ (cache'[sessionKey(u)] = Miss \/ SameSession(u))
      BY <1>7, <2>3 DEF LateAt
    <2>6. q.op = "Refresh" => q.pc \notin Late
      BY <1>7 DEF Issues
    <2> QED
      BY <1>1, <1>5, <1>6, <1>7, <2>2, <2>3, <2>4, <2>5, <2>6, WorkHist
  <1>11. CASE p.next \in {"setSession", "setStatus"}
    <2> PICK x \in Pair : Two(p.dels, accessSessionKey(u), accessKey(x))
      BY <1>2, <1>11 DEF DeleteInv
    <2>1. \/ Len(p.dels) = 2 /\ k = accessSessionKey(u)
          \/ Len(p.dels) = 1 /\ k = accessKey(x)
      BY DEF Two
    <2>2. \A v \in User : SameSession(v)
      BY <1>3, <2>1, KeyFacts DEF SameSession
    <2>3. \A v \in User : v # u => Shrinks(v)
      BY <1>1, <1>3, <2>1, KeyFacts, MissFacts DEF Shrinks
    <2>4. ~AtSession(p) /\ ~LateAt(p, u) /\ (q.op = "Refresh" => q.pc \notin Late)
      BY <1>1, <1>7, <1>11 DEF AtSession, LateAt, Issues
    <2>5. ASSUME WriterInv(p, u) PROVE WriterInv(q, u)'
      <3>1. \A y \in Pair : cache'[accessKey(y)] = u =>
               accessKey(y) # k /\ In(accessKey(y), Tail(p.dels))
        <4>1. \A y \in Pair : cache[accessKey(y)] = u => In(accessKey(y), p.dels)
          BY <1>1, <1>11, <2>5 DEF WriterInv
        <4> QED
          BY <1>3, <1>8, <1>9, <4>1, MissFacts
      <3>2. CASE q.pc = "delete" /\ q.next = p.next /\ q.dels = Tail(p.dels)
        BY <1>11, <3>1, <3>2 DEF WriterInv
      <3>3. CASE Len(p.dels) = 1 /\ q.pc = p.next
        <4>1. Len(Tail(p.dels)) = 0
          BY <1>2, <3>3, RestOf
        <4>2. \A j : ~In(j, Tail(p.dels))
          BY <4>1 DEF In
        <4>3. NoAccess(u)' /\ Tracked(u)'
          BY <3>1, <4>2 DEF NoAccess, Tracked
        <4> QED
          BY <1>11, <3>3, <4>3 DEF WriterInv
      <3> QED
        BY <1>5, <3>2, <3>3
    <2> QED
      BY <1>1, <1>5, <1>6, <1>7, <2>2, <2>3, <2>4, <2>5, WorkHist
  <1> QED
    BY <1>4, <1>10, <1>11

LEMMA DeleteHist ==
  ASSUME IInv, IInv', HInv, NEW r \in Req, Steps(r), Delete(r)
  PROVE  HInv'
  <1> PICK p \in Request : p = req[r]
    BY SlotFacts
  <1> PICK q \in Request : Deleted(r, q)
    BY DeleteFields
  <1>1. req' = [req EXCEPT ![r] = q]
    BY DEF Deleted
  <1>2. CASE faults' = 0
    BY <1>1, <1>2, DeletedHist, HistKept
  <1>3. CASE faults' # 0
    <2>1. /\ p.pc = "delete" /\ DeleteInv(p) /\ p.op \in Issues \cup {"Logout"}
          /\ UNCHANGED <<status, spent, byHand, ended, clash, checked>>
      BY DeleteFacts DEF Deleted
    <2>2. \/ q.op = "none" /\ q.pc = "idle"
          \/ /\ q.op = p.op /\ q.user = p.user
             /\ q.pc \in {"delete", "invAccess", "setSession", "setStatus"}
             /\ q.pc = "setStatus" => p.op = "Logout"
      BY <2>1, IdleFacts DEF Deleted, DeleteInv
    <2>3. \A u \in User : ~C(q, u) /\ (W(q, u) => W(p, u) /\ p.op = q.op)
      BY <2>1, <2>2 DEF W, C
    <2>4. q.op = "Refresh" => q.pc \notin Late
      BY <2>2 DEF Late
    <2>5. HistStep(p, q)
      BY <1>3, <2>1, <2>3, <2>4, FailHist
    <2> QED
      BY <1>1, <2>5, HistKept
  <1> QED
    BY <1>2, <1>3

\* A Set of issueTokens fails: what it leaves is undone.
LEMMA IssueFailHist ==
  ASSUME IInv, IInv', HInv, NEW r \in Req, Steps(r), req[r].pc \in Issuing, Fails,
         NEW ks \in Seq(Key), Deleting(r, ks, "idle"),
         UNCHANGED <<status, spent, byHand, overlap>>
  PROVE  HInv'
  <1> PICK p \in Request : p = req[r]
    BY SlotFacts
  <1>1. "idle" \in Pc
    BY DEF Pc
  <1>2. PICK q \in Request : /\ q.op = p.op /\ q.pc = "delete" /\ q.user = p.user
                             /\ req' = [req EXCEPT ![r] = q]
    BY <1>1, DeletingFields
  <1>3. faults' # 0 /\ UNCHANGED <<status, spent, byHand, ended, clash, checked>>
    BY DEF Fails, IInv, Types, overlap
  <1>4. \A u \in User : ~C(q, u) /\ (W(q, u) => W(p, u) /\ p.op = q.op)
    BY <1>2 DEF W, C, Issuing
  <1>5. q.pc \notin Late
    BY <1>2 DEF Late
  <1>6. HistStep(p, q)
    BY <1>3, <1>4, <1>5, FailHist
  <1> QED
    BY <1>2, <1>6, HistKept

\* One works, and the next is to come.
LEMMA IssueGoHist ==
  ASSUME IInv, IInv', HInv, NEW r \in Req, Steps(r), NEW p \in Request, p = req[r],
         p.pc \in Issuing, NEW u \in User, u = p.user, NEW pc \in Late, Go(r, pc),
         UNCHANGED <<status, spent, byHand, overlap>>,
         \A v \in User : SameSession(v) /\ (v # u => Shrinks(v)),
         \A q \in Request : q.op = p.op /\ q.pc = pc /\ q.pair = p.pair /\ WriterInv(p, u)
                            => WriterInv(q, u)'
  PROVE  HInv'
  <1>1. pc \in Pc /\ p.op \in Issues
    BY IssueFacts DEF Pc, Late
  <1>2. PICK q \in Request :
           /\ q.op = p.op /\ q.pc = pc /\ q.user = u /\ q.tok = p.tok /\ q.pair = p.pair
           /\ req' = [req EXCEPT ![r] = q]
    BY <1>1, GoFields
  <1>3. UNCHANGED <<status, spent, byHand, ended, clash, checked>>
    BY DEF overlap
  <1>4. W(p, u) /\ W(q, u) /\ LateAt(q, u) /\ p.pc \in Late /\ p.op # "Logout"
    BY <1>1, <1>2 DEF W, LateAt, Issues, Issuing, Late
  <1>5. CallInv(q)
    <2>1. req'[r] = q /\ RequestInv(req[r])'
      BY <1>2 DEF IInv, Types
    <2> QED
      BY <2>1 DEF RequestInv
  <1>6. WriterInv(p, u) => WriterInv(q, u)'
    BY <1>2
  <1>7. HistStep(p, q)
    BY <1>2, <1>3, <1>4, <1>5, <1>6, WorkHist
  <1> QED
    BY <1>2, <1>7, HistKept

LEMMA IssueSessionHist ==
  ASSUME IInv, IInv', HInv, NEW r \in Req, Steps(r), IssueSession(r)
  PROVE  HInv'
  <1> PICK p \in Request : p = req[r]
    BY SlotFacts
  <1> PICK u \in User : u = p.user
    BY SessionWrite
  <1>1. /\ p.pc = "setSession" /\ p.op \in Issues /\ nextPair \in Pair /\ nextPair' = nextPair + 1
        /\ p.op \in Bearers => p.tok \in known
        /\ \/ /\ Works /\ Set(sessionKey(u), nextPair)
              /\ \E q \in Request :
                    /\ q.op = p.op /\ q.pc = "setRefresh" /\ q.user = u /\ q.tok = p.tok
                    /\ req' = [req EXCEPT ![r] = q]
           \/ Fails /\ Return(r)
        /\ UNCHANGED <<status, spent, byHand, overlap>>
        /\ Set(sessionKey(u), nextPair) =>
              /\ \A v \in User : /\ cache'[sessionKey(v)] =
                                       IF v = u THEN nextPair ELSE cache[sessionKey(v)]
                                 /\ cache'[accessSessionKey(v)] = cache[accessSessionKey(v)]
              /\ \A y \in Pair : cache'[accessKey(y)] = cache[accessKey(y)]
    BY SessionWrite
  <1>2. UNCHANGED <<status, spent, byHand, ended, clash, checked>>
    BY <1>1 DEF overlap
  <1>3. CASE Fails /\ Return(r)
    <2>1. faults' # 0
      BY <1>3 DEF Fails, IInv, Types
    <2> QED
      BY <1>2, <1>3, <2>1, Released
  <1>4. ASSUME Set(sessionKey(u), nextPair), NEW q \in Request,
               q.op = p.op, q.pc = "setRefresh", q.user = u, q.tok = p.tok,
               req' = [req EXCEPT ![r] = q]
        PROVE  HInv'
    <2>1. /\ cache'[sessionKey(u)] = nextPair
          /\ \A v \in User : v # u => cache'[sessionKey(v)] = cache[sessionKey(v)]
          /\ \A v \in User : cache'[accessSessionKey(v)] = cache[accessSessionKey(v)]
          /\ \A y \in Pair : cache'[accessKey(y)] = cache[accessKey(y)]
      BY <1>1, <1>4
    <2>2. W(p, u) /\ W(q, u) /\ LateAt(q, u) /\ p.op # "Logout"
      BY <1>1, <1>4 DEF W, LateAt, Issues, Late
    <2>3. CallInv(q)
      <3>1. req'[r] = q /\ RequestInv(req[r])'
        BY <1>4 DEF IInv, Types
      <3> QED
        BY <3>1 DEF RequestInv
    <2>4. \A v \in User : v # u => SameSession(v) /\ Shrinks(v)
      BY <1>2, <2>1 DEF SameSession, Shrinks
    <2>5. WriterInv(p, u) => WriterInv(q, u)'
      BY <1>1, <1>4, <2>1 DEF WriterInv, NoAccess
    <2>6. q.op = "Refresh" => Gone(q.tok)'
      <3> HAVE q.op = "Refresh"
      <3>1. p.op \in Bearers /\ p.tok \in known /\ p.tok \in Pair
        BY <1>1, <1>4 DEF Bearers, IInv, Types
      <3>2. Claim(p.tok, u) /\ p.tok < nextPair
        BY <3>1 DEF Claim, IInv, OwnerInv
      <3>3. ASSUME NEW v \in User, cache[sessionKey(v)] = p.tok PROVE v = u
        <4>1. Claim(p.tok, v)
          BY <3>3 DEF Claim, Stored
        <4> QED
          BY <3>1, <3>2, <4>1 DEF IInv, OwnerInv
      <3>4. p.tok \in Nat /\ nextPair \in Nat
        BY <1>1, <3>1, MissFacts
      <3>5. p.tok < nextPair' /\ p.tok # nextPair
        BY <1>1, <3>2, <3>4
      <3>6. \A v \in User : cache'[sessionKey(v)] # p.tok
        BY <2>1, <3>3, <3>5
      <3> QED
        BY <1>4, <3>5, <3>6 DEF Gone
    <2>7. HistStep(p, q)
      BY <1>2, <1>4, <2>2, <2>3, <2>4, <2>5, <2>6, WorkHist
    <2> QED
      BY <1>4, <2>7, HistKept
  <1> QED
    BY <1>1, <1>3, <1>4

LEMMA IssueRefreshHist ==
  ASSUME IInv, IInv', HInv, NEW r \in Req, Steps(r), IssueRefresh(r)
  PROVE  HInv'
  <1> PICK p \in Request : p = req[r]
    BY SlotFacts
  <1> PICK u \in User : u = p.user
    BY RefreshWrite
  <1>1. /\ p.pc = "setRefresh" /\ p.pc \in Issuing
        /\ \/ Set(refreshKey(p.pair), u) /\ Go(r, "setAccess")
           \/ Fails /\ Deleting(r, <<sessionKey(u)>>, "idle")
        /\ UNCHANGED <<status, spent, byHand, overlap>>
        /\ Set(refreshKey(p.pair), u) =>
              /\ \A v \in User : /\ cache'[sessionKey(v)] = cache[sessionKey(v)]
                                 /\ cache'[accessSessionKey(v)] = cache[accessSessionKey(v)]
              /\ \A y \in Pair : cache'[accessKey(y)] = cache[accessKey(y)]
    BY RefreshWrite
  <1>2. CASE Fails /\ Deleting(r, <<sessionKey(u)>>, "idle")
    <2>1. <<sessionKey(u)>> \in Seq(Key)
      BY KeyFacts
    <2> QED
      BY <1>1, <1>2, <2>1, IssueFailHist
  <1>3. CASE Set(refreshKey(p.pair), u) /\ Go(r, "setAccess")
    <2>1. "setAccess" \in Late
      BY DEF Late
    <2>2. \A v \in User : SameSession(v) /\ Shrinks(v)
      BY <1>1, <1>3 DEF SameSession, Shrinks, overlap
    <2>3. \A q \in Request : q.pc = "setAccess" /\ WriterInv(p, u) => WriterInv(q, u)'
      BY <1>1, <1>3 DEF WriterInv, NoAccess
    <2> QED
      BY <1>1, <1>3, <2>1, <2>2, <2>3, IssueGoHist
  <1> QED
    BY <1>1, <1>2, <1>3

LEMMA IssueAccessHist ==
  ASSUME IInv, IInv', HInv, NEW r \in Req, Steps(r), IssueAccess(r)
  PROVE  HInv'
  <1> PICK p \in Request : p = req[r]
    BY SlotFacts
  <1> PICK u \in User : u = p.user
    BY AccessWrite
  <1>1. /\ p.pc = "setAccess" /\ p.pc \in Issuing /\ p.pair \in Pair
        /\ \/ Set(accessKey(p.pair), u) /\ Go(r, "setAccessSession")
           \/ Fails /\ Deleting(r, UndoAccess(p), "idle")
        /\ UNCHANGED <<status, spent, byHand, overlap>>
        /\ Set(accessKey(p.pair), u) =>
              /\ \A v \in User : /\ cache'[sessionKey(v)] = cache[sessionKey(v)]
                                 /\ cache'[accessSessionKey(v)] = cache[accessSessionKey(v)]
              /\ \A y \in Pair : cache'[accessKey(y)] = IF y = p.pair THEN u
                                                        ELSE cache[accessKey(y)]
    BY AccessWrite
  <1>2. CASE Fails /\ Deleting(r, UndoAccess(p), "idle")
    <2>1. UndoAccess(p) \in Seq(Key)
      BY <1>1, KeyFacts DEF UndoAccess
    <2> QED
      BY <1>1, <1>2, <2>1, IssueFailHist
  <1>3. CASE Set(accessKey(p.pair), u) /\ Go(r, "setAccessSession")
    <2>1. "setAccessSession" \in Late
      BY DEF Late
    <2>2. \A v \in User : SameSession(v) /\ (v # u => Shrinks(v))
      BY <1>1, <1>3 DEF SameSession, Shrinks, overlap
    <2>3. ASSUME NEW q \in Request, q.pc = "setAccessSession", q.pair = p.pair,
                 WriterInv(p, u)
          PROVE  WriterInv(q, u)'
      <3>1. NoAccess(u)
        BY <1>1, <2>3 DEF WriterInv
      <3>2. \A y \in Pair : cache'[accessKey(y)] = u => y = q.pair
        BY <1>1, <1>3, <2>3, <3>1 DEF NoAccess
      <3> QED
        BY <2>3, <3>2 DEF WriterInv, Only
    <2> QED
      BY <1>1, <1>3, <2>1, <2>2, <2>3, IssueGoHist
  <1> QED
    BY <1>1, <1>2, <1>3

LEMMA IssueAccessSessionHist ==
  ASSUME IInv, IInv', HInv, NEW r \in Req, Steps(r), IssueAccessSession(r)
  PROVE  HInv'
  <1> PICK p \in Request : p = req[r]
    BY SlotFacts
  <1> PICK u \in User : u = p.user
    BY AccessSessionWrite
  <1>1. /\ p.pc = "setAccessSession" /\ p.pc \in Issuing /\ p.pair \in Pair
        /\ p.op \in Issues
        /\ \/ Set(accessSessionKey(u), p.pair) /\ Go(r, "setStatus")
           \/ Fails /\ Deleting(r, AllKeys(u, p.pair), "idle")
        /\ UNCHANGED <<status, spent, byHand, overlap>>
        /\ Set(accessSessionKey(u), p.pair) =>
              /\ \A v \in User : /\ cache'[sessionKey(v)] = cache[sessionKey(v)]
                                 /\ cache'[accessSessionKey(v)] =
                                       IF v = u THEN p.pair ELSE cache[accessSessionKey(v)]
              /\ \A y \in Pair : cache'[accessKey(y)] = cache[accessKey(y)]
    BY AccessSessionWrite
  <1>2. CASE Fails /\ Deleting(r, AllKeys(u, p.pair), "idle")
    <2>1. AllKeys(u, p.pair) \in Seq(Key)
      BY <1>1, KeyFacts DEF AllKeys
    <2> QED
      BY <1>1, <1>2, <2>1, IssueFailHist
  <1>3. CASE Set(accessSessionKey(u), p.pair) /\ Go(r, "setStatus")
    <2>1. "setStatus" \in Late
      BY DEF Late
    <2>2. \A v \in User : SameSession(v) /\ (v # u => Shrinks(v))
      BY <1>1, <1>3 DEF SameSession, Shrinks, overlap
    <2>3. \A q \in Request : q.op = p.op /\ q.pc = "setStatus" /\ WriterInv(p, u)
                             => WriterInv(q, u)'
      <3>1. WriterInv(p, u) => Tracked(u)'
        BY <1>1, <1>3 DEF WriterInv, Only, Tracked
      <3>2. p.op # "Logout"
        BY <1>1 DEF Issues
      <3> QED
        BY <3>1, <3>2 DEF WriterInv, Tracked
    <2> QED
      BY <1>1, <1>3, <2>1, <2>2, <2>3, IssueGoHist
  <1> QED
    BY <1>1, <1>2, <1>3

-----------------------------------------------------------------------------
(***************************************************************************)
(* The histories through expiry.                                           *)
(***************************************************************************)

\* A pointer to a live token expires only while a request is about to set it.
LEMMA ExpireTracked ==
  ASSUME IInv, NEW k \in Key, Expire(k), faults = 0, NEW u \in User, Tracked(u)
  PROVE  \/ Tracked(u)'
         \/ \E r \in Req : C(req[r], u) /\ req[r].pc = "valSetSession"
         \/ \E r \in Req : W(req[r], u) /\ req[r].pc = "setAccessSession"
  <1>1. \A x \in Pair : cache'[accessKey(x)] = u => cache[accessKey(x)] = u
    BY ExpireFacts
  <1>2. \A j \in Key : j # k => cache'[j] = cache[j]
    BY ExpireFacts
  <1>3. ASSUME NEW x \in Pair, cache[accessKey(x)] = u, k = accessSessionKey(u)
        PROVE  \/ \E r \in Req : C(req[r], u) /\ req[r].pc = "valSetSession"
               \/ \E r \in Req : W(req[r], u) /\ req[r].pc = "setAccessSession"
    <2>1. k[1] = "accessSession" /\ cache[k] = x
      BY <1>3 DEF accessSessionKey, Tracked
    <2>2. cache[accessKey(x)] = Miss \/ Between(x)
      BY <2>1 DEF Expire, MayExpire
    <2>3. PICK r \in Req : \/ req[r].pc = "valSetSession" /\ req[r].tok = x
                           \/ req[r].pc = "setAccessSession" /\ req[r].pair = x
      BY <1>3, <2>2, MissFacts DEF Between
    <2> PICK q \in Request : q = req[r]
      BY SlotFacts
    <2>4. CallInv(q) /\ RequestInv(q) /\ Claim(x, u)
      BY <1>3, SlotFacts DEF Claim, Stored
    <2>5. CASE q.pc = "valSetSession" /\ q.tok = x
      <3>1. q.op \in Bearers /\ q.user \in User
        BY <2>4, <2>5, CallFacts DEF RequestInv
      <3>2. Claim(x, q.user)
        BY <2>5, <3>1 DEF Claim
      <3>3. q.user = u
        BY <2>4, <3>1, <3>2 DEF IInv, OwnerInv
      <3> QED
        BY <2>5, <3>3 DEF C
    <2>6. CASE q.pc = "setAccessSession" /\ q.pair = x
      <3>1. q.user = u /\ q.op \in Issues
        BY <2>4, <2>6, CallFacts DEF IInv, OwnerInv
      <3> QED
        BY <2>6, <3>1 DEF W, Issues
    <2> QED
      BY <2>3, <2>5, <2>6
  <1>4. CASE k = accessSessionKey(u) /\ \E x \in Pair : cache[accessKey(x)] = u
    BY <1>3, <1>4
  <1>5. CASE ~(k = accessSessionKey(u) /\ \E x \in Pair : cache[accessKey(x)] = u)
    BY <1>1, <1>2, <1>5, KeyFacts DEF Tracked
  <1> QED
    BY <1>4, <1>5

LEMMA ExpireTrack ==
  ASSUME IInv, Monitor, NEW k \in Key, Expire(k), faults = 0, NEW u \in User,
         u \notin clash, u \notin checked, TrackAt(u)
  PROVE  TrackAt(u)'
  <1>1. req' = req /\ ended' = ended
    BY ExpireFacts
  <1>2. \A x \in Pair : cache'[accessKey(x)] = u => cache[accessKey(x)] = u
    BY ExpireFacts
  <1>3. /\ NoAccess(u) => NoAccess(u)'
        /\ \A x : Only(u, x) => Only(u, x)'
    BY <1>2 DEF NoAccess, Only
  <1>4. ASSUME NEW r \in Req, W(req[r], u) PROVE WriterInv(req[r], u)'
    <2> PICK q \in Request : q = req[r]
      BY SlotFacts
    <2>1. WriterInv(q, u)
      BY <1>4 DEF TrackAt
    <2>2. \A s \in Req : ~C(req[s], u) /\ (W(req[s], u) => s = r)
      BY <1>4 DEF Monitor
    <2>3. q.pc # "setAccessSession" /\ Tracked(u) => Tracked(u)'
      BY <2>2, ExpireTracked
    <2>4. WriterInv(q, u)'
      BY <1>2, <2>1, <2>3, WriterLess
    <2> QED
      BY <1>1, <2>4 DEF WriterInv
  <1>5. ASSUME \A r \in Req : ~W(req[r], u) PROVE RestInv(u)'
    <2>1. RestInv(u)
      BY <1>5 DEF TrackAt
    <2>2. \A r \in Req : C(req[r], u) => Only(u, req[r].tok)'
      <3> TAKE r \in Req
      <3> PICK x : x = req[r].tok
        OBVIOUS
      <3>1. C(req[r], u) => Only(u, x)
        BY <2>1 DEF RestInv
      <3>2. C(req[r], u) => Only(u, x)'
        BY <1>3, <3>1
      <3> QED
        BY <1>1, <3>2 DEF Only
    <2>3. Tracked(u)' \/ \E r \in Req : C(req[r], u) /\ req[r].pc = "valSetSession"
      BY <1>5, <2>1, ExpireTracked DEF RestInv
    <2> QED
      BY <1>1, <1>3, <2>1, <2>2, <2>3 DEF RestInv, C
  <1> QED
    BY <1>1, <1>4, <1>5 DEF TrackAt, W

LEMMA ExpireHist ==
  ASSUME IInv, HInv, NEW k \in Key, Expire(k)
  PROVE  HInv'
  <1>1. /\ status' = status /\ req' = req /\ nextPair' = nextPair /\ faults' = faults
        /\ spent' = spent /\ byHand' = byHand /\ ended' = ended
        /\ clash' = clash /\ checked' = checked
    BY ExpireFacts
  <1>2. /\ \A u \in User, x \in Pair : cache'[sessionKey(u)] = x => cache[sessionKey(u)] = x
        /\ \A u \in User : /\ cache'[sessionKey(u)] # Miss =>
                                 cache'[sessionKey(u)] = cache[sessionKey(u)]
                           /\ cache[sessionKey(u)] = Miss => cache'[sessionKey(u)] = Miss
    BY ExpireFacts
  <1>3. Monitor' /\ EndInv'
    BY <1>1 DEF HInv, Monitor, EndInv, W, C
  <1>4. SpentInv'
    <2>1. \A x \in Pair : Gone(x) => Gone(x)'
      BY <1>1, <1>2 DEF Gone
    <2>2. \A x \in spent : x \in Pair
      BY DEF IInv, Types
    <2>3. \A r \in Req : req[r].op = "Refresh" => req[r].tok \in Pair
      <3> TAKE r \in Req
      <3>1. RequestInv(req[r]) /\ known \subseteq Pair
        BY DEF IInv, Types
      <3> QED
        BY <3>1 DEF RequestInv, Bearers
    <2> QED
      BY <1>1, <2>1, <2>2, <2>3 DEF HInv, SpentInv, Gone
  <1>5. LogoutInv'
    <2> SUFFICES ASSUME faults = 0, NEW u \in User, ended[u] # "no"
                 PROVE  \/ cache'[sessionKey(u)] = Miss
                        \/ \E r \in Req : req[r].user = u /\ AtSession(req[r])
      BY <1>1 DEF LogoutInv, AtSession
    <2>1. \/ cache[sessionKey(u)] = Miss
          \/ \E r \in Req : req[r].user = u /\ AtSession(req[r])
      BY DEF HInv, LogoutInv
    <2> QED
      BY <1>2, <2>1
  <1>6. StatusInv'
    <2> SUFFICES ASSUME NEW u \in User
                 PROVE  /\ u \notin byHand /\ ended[u] = "yes" => status[u] = "offline"
                        /\ faults = 0 /\ u \notin clash =>
                           /\ \A r \in Req : req[r].op = "Logout" /\ req[r].user = u =>
                                 AtSession(req[r]) \/ cache'[sessionKey(u)] = Miss
                           /\ u \notin byHand /\ cache'[sessionKey(u)] # Miss =>
                                 \/ status[u] = "online"
                                 \/ \E r \in Req : LateAt(req[r], u)
      BY <1>1 DEF StatusInv, AtSession, LateAt
    <2>1. u \notin byHand /\ ended[u] = "yes" => status[u] = "offline"
      BY DEF HInv, StatusInv
    <2>2. ASSUME faults = 0, u \notin clash, NEW r \in Req, req[r].op = "Logout",
                 req[r].user = u
          PROVE  AtSession(req[r]) \/ cache'[sessionKey(u)] = Miss
      BY <1>2, <2>2 DEF HInv, StatusInv
    <2>3. ASSUME faults = 0, u \notin clash, u \notin byHand, cache'[sessionKey(u)] # Miss
          PROVE  status[u] = "online" \/ \E r \in Req : LateAt(req[r], u)
      <3>1. cache[sessionKey(u)] # Miss
        BY <1>2, <2>3
      <3> QED
        BY <2>3, <3>1 DEF HInv, StatusInv, LateAt
    <2> QED
      BY <2>1, <2>2, <2>3
  <1>7. TrackInv'
    <2> SUFFICES ASSUME faults = 0, NEW u \in User, u \notin clash, u \notin checked
                 PROVE  TrackAt(u)'
      BY <1>1 DEF TrackInv
    <2>1. TrackAt(u) /\ Monitor
      BY DEF HInv, TrackInv
    <2> QED
      BY <2>1, ExpireTrack
  <1> QED
    BY <1>3, <1>4, <1>5, <1>6, <1>7 DEF HInv

-----------------------------------------------------------------------------
(***************************************************************************)
(* The inductive invariant of the histories.                               *)
(***************************************************************************)
LEMMA InitHist ==
  ASSUME Init
  PROVE  HInv
  <1>1. /\ faults = 0 /\ spent = {} /\ clash = {} /\ checked = {} /\ byHand = {}
        /\ \A u \in User : ended[u] = "no"
        /\ \A r \in Req : req[r] = Idle
        /\ \A u \in User : cache[sessionKey(u)] = Miss
        /\ \A x \in Pair : cache[accessKey(x)] = Miss
    BY KeyFacts DEF Init
  <1>2. /\ \A r \in Req : req[r].op = "none" /\ req[r].pc = "idle" /\ req[r].user = Miss
        /\ Miss \notin User
    BY <1>1, IdleFacts, MissFacts
  <1>3. \A r \in Req, u \in User : ~W(req[r], u) /\ ~C(req[r], u)
    BY <1>2 DEF W, C
  <1>4. Monitor /\ EndInv
    BY <1>3 DEF Monitor, EndInv
  <1>5. SpentInv
    BY <1>1, <1>2 DEF SpentInv
  <1>6. LogoutInv
    BY <1>1 DEF LogoutInv
  <1>7. StatusInv
    BY <1>1, <1>2 DEF StatusInv
  <1>8. TrackInv
    <2>1. \A u \in User : Tracked(u)
      BY <1>1, <1>2 DEF Tracked
    <2> QED
      BY <1>1, <1>3, <2>1 DEF TrackInv, TrackAt, RestInv
  <1> QED
    BY <1>4, <1>5, <1>6, <1>7, <1>8 DEF HInv

LEMMA StutterHist ==
  ASSUME HInv, UNCHANGED vars
  PROVE  HInv'
  <1>1. /\ cache' = cache /\ status' = status /\ req' = req /\ nextPair' = nextPair
        /\ faults' = faults /\ spent' = spent /\ byHand' = byHand /\ ended' = ended
        /\ clash' = clash /\ checked' = checked
    BY DEF vars, stores, hist, overlap
  <1>2. Monitor' /\ EndInv'
    BY <1>1 DEF HInv, Monitor, EndInv, W, C
  <1>3. SpentInv' /\ LogoutInv' /\ StatusInv'
    BY <1>1 DEF HInv, SpentInv, Gone, LogoutInv, StatusInv, AtSession
  <1>4. TrackInv'
    BY <1>1 DEF HInv, TrackInv, TrackAt, RestInv, WriterInv, W, C, Tracked, NoAccess, Only
  <1> QED
    BY <1>2, <1>3, <1>4 DEF HInv

LEMMA ArriveHist ==
  ASSUME IInv, IInv', HInv, NEW r \in Req, Steps(r), Arrive(r)
  PROVE  HInv'
  <1>1. ASSUME NEW u \in User, StartRegister(r, u) PROVE HInv'
    BY <1>1, StartRegisterHist
  <1>2. ASSUME NEW u \in User, StartLogin(r, u) PROVE HInv'
    BY <1>2, StartLoginHist
  <1>3. ASSUME NEW u \in User, StartLogout(r, u) PROVE HInv'
    BY <1>3, StartLogoutHist
  <1>4. ASSUME NEW t \in Pair, StartRefresh(r, t) PROVE HInv'
    BY <1>4, StartRefreshHist
  <1>5. ASSUME NEW t \in Pair, NEW o \in Route, StartValidate(r, o, t) PROVE HInv'
    BY <1>5, StartValidateHist
  <1> QED
    BY <1>1, <1>2, <1>3, <1>4, <1>5 DEF Arrive

LEMMA CallHist ==
  ASSUME IInv, IInv', HInv, NEW r \in Req, Steps(r), Call(r)
  PROVE  HInv'
  <1>1. CASE RegisterGet(r)
    BY <1>1, RegisterGetHist
  <1>2. CASE RegisterCreate(r)
    BY <1>2, RegisterCreateHist
  <1>3. CASE LoginGet(r)
    BY <1>3, LoginGetHist
  <1>4. CASE RefreshGet(r)
    BY <1>4, RefreshGetHist
  <1>5. CASE RefreshSession(r)
    BY <1>5, RefreshSessionHist
  <1>6. CASE InvalidateSession(r)
    BY <1>6, InvalidateSessionHist
  <1>7. CASE InvalidateAccess(r)
    BY <1>7, InvalidateAccessHist
  <1>8. CASE Delete(r)
    BY <1>8, DeleteHist
  <1>9. CASE IssueSession(r)
    BY <1>9, IssueSessionHist
  <1>10. CASE IssueRefresh(r)
    BY <1>10, IssueRefreshHist
  <1>11. CASE IssueAccess(r)
    BY <1>11, IssueAccessHist
  <1>12. CASE IssueAccessSession(r)
    BY <1>12, IssueAccessSessionHist
  <1>13. CASE SetStatus(r)
    BY <1>13, SetStatusHist
  <1>14. CASE ValidateGet(r)
    BY <1>14, ValidateGetHist
  <1>15. CASE ValidateSet(r)
    BY <1>15, ValidateSetHist
  <1>16. CASE ValidateSetSession(r)
    BY <1>16, ValidateSetSessionHist
  <1>17. ASSUME NEW u \in User, NEW st \in Status, PatchStatus(r, u, st) PROVE HInv'
    BY <1>17, PatchStatusHist
  <1> QED
    BY <1>1, <1>2, <1>3, <1>4, <1>5, <1>6, <1>7, <1>8, <1>9, <1>10, <1>11,
     <1>12, <1>13, <1>14, <1>15, <1>16, <1>17 DEF Call

LEMMA NextHist ==
  ASSUME IInv, IInv', HInv, [Next]_vars
  PROVE  HInv'
  <1>1. ASSUME NEW r \in Req, Arrive(r) PROVE HInv'
    BY <1>1, ArriveOK, ArriveHist
  <1>2. ASSUME NEW r \in Req, Call(r) PROVE HInv'
    BY <1>2, CallOK, CallHist
  <1> QED
    BY <1>1, <1>2, ExpireHist, StutterHist DEF Next


-----------------------------------------------------------------------------
(***************************************************************************)
(* Theorems.                                                               *)
(***************************************************************************)

\* The inductive invariant, of any number of requests in flight.
THEOREM Invariant == Spec => []IInv
  <1>1. Init => IInv
    BY InitInv
  <1>2. IInv /\ [Next]_vars => IInv'
    BY NextInv
  <1> QED
    BY <1>1, <1>2, PTL DEF Spec

\* The histories say truly what overlapped, and what that leaves in the stores.
THEOREM Histories == Spec => []HInv
  <1>1. Init => HInv
    BY InitHist
  <1>2. IInv /\ IInv' /\ HInv /\ [Next]_vars => HInv'
    BY NextHist
  <1> QED
    BY <1>1, <1>2, Invariant, PTL DEF Spec

\* Requests, rows and keys keep their types.
THEOREM TypesHold == Spec => []TypeOK
  <1>1. IInv => TypeOK
    BY CacheTypeOK DEF IInv, Types, TypeOK
  <1> QED
    BY <1>1, Invariant, PTL

\* However requests interleave and whatever fails, a token names one user.
THEOREM PairHasOneUser == Spec => []OnePairOneUser
  <1>1. IInv => OnePairOneUser
    <2> SUFFICES ASSUME IInv, NEW p \in Pair, NEW u \in User, NEW v \in User,
                        cache[accessKey(p)] = u \/ cache[refreshKey(p)] = u,
                        \/ cache[accessKey(p)] = v \/ cache[refreshKey(p)] = v
                        \/ cache[sessionKey(v)] = p \/ cache[accessSessionKey(v)] = p
                 PROVE  u = v
      BY DEF OnePairOneUser
    <2>1. Stored(p, u) /\ Stored(p, v)
      BY DEF Stored
    <2>2. Claim(p, u) /\ Claim(p, v)
      BY <2>1 DEF Claim
    <2> QED
      BY <2>2 DEF IInv, OwnerInv
  <1> QED
    BY <1>1, Invariant, PTL

\* However requests interleave, a session has its refresh key, or is about to,
\* as long as no call has failed.
THEOREM SessionCanRefresh == Spec => []SessionHasRefresh
  <1>1. IInv => SessionHasRefresh
    BY DEF IInv
  <1> QED
    BY <1>1, Invariant, PTL

\* However requests interleave, the rollback of the one issueTokens that failed
\* leaves no token that is accepted.
THEOREM RollbackIsComplete == Spec => []FailedIssueUndone
  <1>1. IInv => FailedIssueUndone
    <2> SUFFICES ASSUME IInv, faults <= 1, NEW p \in failed, NEW u \in User,
                        \A r \in Req : req[r].pair # p
                 PROVE  ~AccessLive(p, u) /\ ~RefreshLive(p, u)
      BY DEF FailedIssueUndone
    <2>1. FailAt(p)
      BY DEF IInv, FailInv
    <2> QED
      BY <2>1 DEF FailAt
  <1> QED
    BY <1>1, Invariant, PTL

\* Writing and Checking, request by request.
LEMMA NobodyWorks ==
  ASSUME NEW u \in User
  PROVE  /\ Writing(u) = {} => \A r \in Req : ~W(req[r], u)
         /\ Checking(u) = {} => \A r \in Req : ~C(req[r], u)
  BY DEF Writing, Checking, W, C

\* Any number of requests in flight, any of them overlapping: a user of whom no two
\* session changes overlapped each other or a token check has, between changes, no
\* access token but the one that the access-session key names.
THEOREM LiveAccessIsTracked == Spec => []LiveAccessTracked
  <1>1. HInv => LiveAccessTracked
    <2> SUFFICES ASSUME HInv, faults = 0, NEW u \in User, u \notin clash, u \notin checked,
                        NEW p \in Pair, AccessLive(p, u), Writing(u) \cup Checking(u) = {}
                 PROVE  cache[accessSessionKey(u)] = p
      BY DEF LiveAccessTracked
    <2>1. \A r \in Req : ~W(req[r], u) /\ ~C(req[r], u)
      BY NobodyWorks
    <2>2. RestInv(u)
      BY <2>1 DEF HInv, TrackInv, TrackAt
    <2>3. Tracked(u)
      BY <2>1, <2>2 DEF RestInv
    <2> QED
      BY <2>3 DEF Tracked, AccessLive
  <1> QED
    BY <1>1, Histories, PTL

\* Any number of requests in flight: after a Logout that no accepted Login or Refresh
\* overlapped has returned nil no refresh token of the user is accepted, whatever else
\* ran meanwhile, nor any access token of a user of whom no token was being checked.
THEOREM LogoutIsFinal == Spec => []LogoutEndsSession
  <1>1. IInv /\ HInv => LogoutEndsSession
    <2> SUFFICES ASSUME IInv, HInv, faults = 0, NEW u \in User, NEW p \in Pair,
                        ended[u] = "yes", Writing(u) = {}
                 PROVE  /\ ~RefreshLive(p, u)
                        /\ u \notin clash \cup checked => ~AccessLive(p, u)
      BY DEF LogoutEndsSession
    <2>1. \A r \in Req : ~W(req[r], u)
      BY NobodyWorks
    <2>2. \A r \in Req : req[r].user = u => ~AtSession(req[r])
      BY <2>1 DEF W, AtSession
    <2>3. cache[sessionKey(u)] = Miss
      BY <2>2 DEF HInv, LogoutInv
    <2>4. ~RefreshLive(p, u)
      BY <2>3, MissFacts DEF RefreshLive
    <2>5. ASSUME u \notin clash, u \notin checked PROVE ~AccessLive(p, u)
      <3>1. RestInv(u)
        BY <2>1, <2>5 DEF HInv, TrackInv, TrackAt
      <3> QED
        BY <3>1 DEF RestInv, NoAccess, AccessLive
    <2> QED
      BY <2>4, <2>5
  <1> QED
    BY <1>1, Invariant, Histories, PTL

\* Only the comparison with the session takes a Refresh on.
LEMMA AcceptedActive ==
  ASSUME IInv, NEW r \in Req, req[r].pc = "refSession", req'[r].pc = "invSession", Next
  PROVE  IsActive(r)
  <1>1. req' # req /\ req[r] # Idle
    BY IdleFacts
  <1>2. PICK s \in Req : Arrive(s) \/ Call(s)
    BY <1>1 DEF Next, Expire
  <1>3. Steps(s)
    BY <1>2, ArriveOK, CallOK
  <1>4. PICK q : req' = [req EXCEPT ![s] = q]
    BY <1>3 DEF Steps, Step
  <1>5. s = r
    BY <1>4 DEF IInv, Types
  <1>6. ~Arrive(r)
    BY <1>1 DEF Arrive, Start, StartRegister, StartLogin, StartLogout, StartRefresh,
                StartValidate
  <1>7. RefreshSession(r)
    BY <1>2, <1>5, <1>6 DEF Call, RegisterGet, RegisterCreate, LoginGet, RefreshGet,
       InvalidateSession, InvalidateAccess, Delete, IssueSession, IssueRefresh, IssueAccess,
       IssueAccessSession, SetStatus, ValidateGet, ValidateSet, ValidateSetSession, PatchStatus
  <1>8. ~Return(r)
    BY IdleFacts DEF Return, IInv, Types
  <1> QED
    BY <1>7, <1>8 DEF RefreshSession, FailAndReturn

\* Any number of requests in flight, whatever fails: no Refresh accepts a refresh
\* token for which a Refresh has returned a new pair.
THEOREM RefreshIsOneTime == Spec => RefreshRotates
  <1> DEFINE Accepts == \A r \in Req : req[r].pc = "refSession" /\ req'[r].pc = "invSession"
                                       => req[r].tok \notin spent
  <1>1. IInv /\ HInv /\ [Next]_vars => [Accepts]_vars
    <2> SUFFICES ASSUME IInv, HInv, [Next]_vars, NEW r \in Req, req[r].pc = "refSession",
                        req'[r].pc = "invSession"
                 PROVE  req[r].tok \notin spent
      OBVIOUS
    <2>1. IsActive(r)
      BY AcceptedActive DEF vars
    <2>2. req[r].tok \notin spent
      <3>1. req[r].user \in User
        BY SlotFacts DEF RequestInv
      <3>2. \A x \in spent : cache[sessionKey(req[r].user)] # x
        BY <3>1 DEF HInv, SpentInv, Gone
      <3> QED
        BY <2>1, <3>2 DEF IsActive
    <2> QED
      BY <2>2
  <1> QED
    BY <1>1, Invariant, Histories, PTL DEF Spec, RefreshRotates

\* Any number of requests in flight: a user after a Logout that no accepted Login or
\* Refresh overlapped is shown offline, and a user with a session, of whom no two
\* session changes overlapped, online; but for a status set by hand since.
THEOREM StatusIsTrue == Spec => []StatusTracksSession
  <1>1. HInv => StatusTracksSession
    <2> SUFFICES ASSUME HInv, NEW u \in User, u \notin byHand
                 PROVE  /\ ended[u] = "yes" => status[u] = "offline"
                        /\ faults = 0 /\ u \notin clash /\ Writing(u) = {} =>
                              (cache[sessionKey(u)] # Miss => status[u] = "online")
      BY DEF StatusTracksSession
    <2>1. ended[u] = "yes" => status[u] = "offline"
      BY DEF HInv, StatusInv
    <2>2. ASSUME faults = 0, u \notin clash, Writing(u) = {}, cache[sessionKey(u)] # Miss
          PROVE  status[u] = "online"
      <3>1. \/ status[u] = "online"
            \/ \E r \in Req : req[r].user = u /\ req[r].op \in Issues /\ req[r].pc \in Late
        BY <2>2 DEF HInv, StatusInv
      <3>2. \A r \in Req : ~W(req[r], u)
        BY <2>2, NobodyWorks
      <3>3. ~\E r \in Req : req[r].user = u /\ req[r].op \in Issues /\ req[r].pc \in Late
        BY <3>2 DEF W, Issues, Late
      <3> QED
        BY <3>1, <3>3
    <2> QED
      BY <2>1, <2>2
  <1> QED
    BY <1>1, Histories, PTL
=============================================================================
