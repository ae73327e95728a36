---------------------------- MODULE AuthSession ----------------------------
(***************************************************************************)
(* The authentication service (internal/domain/auth/service_impl.go): the  *)
(* users table and the four kinds of Redis key that make up a session; and *)
(* the one write of the user service (domain/users/service_impl.go), the   *)
(* status a caller sets by hand.                                           *)
(*                                                                         *)
(* A request is a sequence of calls to Postgres and Redis.  Each call is   *)
(* atomic and is one action; the calls of different requests interleave,   *)
(* for the API server and the websocket server share the stores and take   *)
(* no lock.  A call may fail: a Get or a Set returns its error (a Set      *)
(* possibly after it took effect), the error of a Delete is ignored.       *)
(*                                                                         *)
(* Definitions named Mutant... are plausible bugs, never part of Spec: put *)
(* in place of the definition that follows, each must break a property.    *)
(***************************************************************************)
EXTENDS Naturals, Sequences, FiniteSets

CONSTANTS
    User,       \* accounts, by e-mail address
    Req,        \* request slots: how many requests are in flight at most
    Miss,       \* ErrCacheMiss
    Route,      \* protected routes that are called: "Patch" is the one that
                \* sets a status, "Validate" any that touches no variable here
    MaxPairs,   \* bound: token pairs issued
    MaxFaults   \* bound: calls that fail

ASSUME AuthAssumption ==
    /\ MaxPairs \in Nat
    /\ MaxFaults \in Nat
    /\ Route \subseteq {"Validate", "Patch"}
    /\ Miss \notin User /\ Miss \notin Nat

(***************************************************************************)
(* Token pair p stands for both its access token and its refresh token:    *)
(* 32 random bytes each, never equal to another.                           *)
(***************************************************************************)
Pair == 1..MaxPairs

sessionKey(u) == <<"session", u>>

MutantSharedKey(u) == <<"accessSession", CHOOSE v \in User : TRUE>>

accessSessionKey(u) == <<"accessSession", u>>

refreshKey(p) == <<"refresh", p>>

accessKey(p) == <<"access", p>>

UserKey == {"session", "accessSession"} \X User
PairKey == {"refresh", "access"} \X Pair
Key     == UserKey \cup PairKey

VARIABLES
    cache,      \* Redis: what each key holds, or Miss
    accounts,   \* users with a row
    status,     \* users.status
    req,        \* the request in each slot
    nextPair,
    faults,     \* calls that have failed
    known,      \* history: pairs returned to a caller
    failed,     \* history: pairs whose issueTokens returned an error
    spent,      \* history: refresh tokens for which a new pair was returned
    byHand,     \* history: users whose status was last set by a PATCH
    ended,      \* history: "ending" while a Logout runs, "yes" after it returned
                \* nil; "no" as soon as a Login or Refresh that is accepted
                \* overlaps or follows it
    clash,      \* history: users two of whose session changes overlapped
    checked     \* history: users whose token was being checked during one

stores  == <<cache, accounts, status>>
overlap == <<ended, clash, checked>>
hist    == <<known, failed, spent, byHand, overlap>>
vars    == <<stores, req, nextPair, faults, hist>>

Op == {"none", "Register", "Login", "Refresh", "Logout"} \cup Route

\* Program counters: the next call the request makes.
Pc == {"idle", "regGet", "regCreate", "loginGet", "refGet", "refSession",
       "invSession", "invAccess", "delete", "setSession", "setRefresh",
       "setAccess", "setAccessSession", "setStatus", "valGet", "valSet",
       "valSetSession", "patch"}

\* users.status is free text: "other" stands for any that only a PATCH writes.
Status == {"online", "offline", "other"}

\* user: the user, once known; tok: the token presented; pair: the pair made for
\* the request, 0 before; dels: keys to Delete; next: where to go after them.
Request == [op : Op, pc : Pc, user : User \cup {Miss}, tok : Pair \cup {0},
            pair : Pair \cup {0}, dels : Seq(Key), next : Pc]

Idle == [op |-> "none", pc |-> "idle", user |-> Miss, tok |-> 0, pair |-> 0,
         dels |-> <<>>, next |-> "idle"]

\* Types: user keys hold a pair, pair keys hold a user.
TypeOK ==
    /\ DOMAIN cache = Key
    /\ \A k \in UserKey : cache[k] \in Pair \cup {Miss}
    /\ \A k \in PairKey : cache[k] \in User \cup {Miss}
    /\ accounts \subseteq User
    /\ status \in [User -> Status]
    /\ req \in [Req -> Request]
    /\ nextPair \in 1..(MaxPairs + 1)
    /\ faults \in 0..MaxFaults
    /\ known \subseteq Pair /\ failed \subseteq Pair
    /\ spent \subseteq Pair /\ byHand \subseteq User
    /\ ended \in [User -> {"no", "ending", "yes"}]
    /\ clash \subseteq User /\ checked \subseteq User

Init ==
    /\ cache = [k \in Key |-> Miss]
    /\ accounts = {}
    /\ status = [u \in User |-> "offline"]
    /\ req = [r \in Req |-> Idle]
    /\ nextPair = 1
    /\ faults = 0
    /\ known = {} /\ failed = {} /\ spent = {} /\ byHand = {}
    /\ ended = [u \in User |-> "no"]
    /\ clash = {} /\ checked = {}

-----------------------------------------------------------------------------
(***************************************************************************)
(* Calls.                                                                  *)
(***************************************************************************)
Set(k, v) == cache' = [cache EXCEPT ![k] = v]

Go(r, pc) == req' = [req EXCEPT ![r].pc = pc]

Return(r) == req' = [req EXCEPT ![r] = Idle]

\* A call that works, and one that fails within the bound.
Works == faults' = faults
Fails == faults < MaxFaults /\ faults' = faults + 1

\* The call fails and the request returns the error.
FailAndReturn(r) == Fails /\ Return(r) /\ UNCHANGED <<stores, nextPair, hist>>

\* Delete the keys in ks one after the other, then go on at pc.
Deleting(r, ks, pc) ==
    req' = [req EXCEPT ![r].pc = "delete", ![r].dels = ks, ![r].next = pc]

\* Requests that are changing u's session: Logouts, and Logins and Refreshes
\* that were accepted.  Requests that have read an access token of u and not yet
\* written it back.
Writing(u) ==
    {r \in Req : /\ req[r].user = u /\ req[r].op \in {"Login", "Refresh", "Logout"}
                 /\ req[r].pc \notin {"loginGet", "refSession"}}

Checking(u) == {r \in Req : req[r].user = u /\ req[r].pc \in {"valSet", "valSetSession"}}

\* A request begins to change u's session; what it meets is recorded.
Begin(u, e) ==
    /\ ended' = [ended EXCEPT ![u] = e]
    /\ clash' = IF Writing(u) = {} THEN clash ELSE clash \cup {u}
    /\ checked' = IF Checking(u) = {} THEN checked ELSE checked \cup {u}

-----------------------------------------------------------------------------
(***************************************************************************)
(* Requests arrive.  Clients present tokens they were given.               *)
(***************************************************************************)
Start(r, o, pc, u, t) ==
    /\ req[r] = Idle
    /\ req' = [req EXCEPT ![r] = [Idle EXCEPT !.op = o, !.pc = pc, !.user = u,
                                              !.tok = t]]
    /\ UNCHANGED <<stores, nextPair, faults, known, failed, spent, byHand>>

StartRegister(r, u) ==
    Start(r, "Register", "regGet", u, 0) /\ UNCHANGED overlap

StartLogin(r, u) ==
    Start(r, "Login", "loginGet", u, 0) /\ UNCHANGED overlap

StartRefresh(r, t) ==
    /\ t \in known
    /\ Start(r, "Refresh", "refGet", Miss, t)
    /\ UNCHANGED overlap

StartLogout(r, u) ==
    /\ Start(r, "Logout", "invSession", u, 0)
    /\ Begin(u, IF \E q \in Writing(u) : req[q].op # "Logout" THEN "no" ELSE "ending")

\* The middleware in front of every protected route, and in particular of
\* PATCH /users/:id/status.
StartValidate(r, o, t) ==
    /\ t \in known
    /\ Start(r, o, "valGet", Miss, t)
    /\ UNCHANGED overlap

-----------------------------------------------------------------------------
(***************************************************************************)
(* Register: look the address up, then insert; the UNIQUE constraint       *)
(* decides between two that both found it free.                            *)
(***************************************************************************)
RegisterGet(r) ==
    /\ req[r].pc = "regGet"
    /\ \/ /\ Works
          /\ IF req[r].user \in accounts THEN Return(r) ELSE Go(r, "regCreate")
          /\ UNCHANGED <<stores, nextPair, hist>>
       \/ FailAndReturn(r)

RegisterCreate(r) ==
    /\ req[r].pc = "regCreate"
    /\ \/ /\ Works /\ Return(r)
          /\ accounts' = accounts \cup {req[r].user}
          /\ UNCHANGED <<cache, status, nextPair, hist>>
       \/ FailAndReturn(r)

\* Login: GetByEmail and the password check, which any caller may fail.
LoginGet(r) ==
    /\ req[r].pc = "loginGet"
    /\ \/ /\ Works
          /\ \/ /\ req[r].user \in accounts
                /\ Go(r, "invSession") /\ Begin(req[r].user, "no")
             \/ Return(r) /\ UNCHANGED overlap
          /\ UNCHANGED <<stores, nextPair, known, failed, spent, byHand>>
       \/ FailAndReturn(r)

-----------------------------------------------------------------------------
(***************************************************************************)
(* Refresh: the token names a user, and must be the active token of that   *)
(* user's session (the profile read that follows changes nothing).         *)
(***************************************************************************)
RefreshGet(r) ==
    /\ req[r].pc = "refGet"
    /\ LET u == cache[refreshKey(req[r].tok)]
       IN  \/ /\ Works
              /\ IF u = Miss THEN Return(r)
                 ELSE req' = [req EXCEPT ![r].user = u, ![r].pc = "refSession"]
              /\ UNCHANGED <<stores, nextPair, hist>>
           \/ FailAndReturn(r)

MutantAnySession(r) == TRUE

IsActive(r) == cache[sessionKey(req[r].user)] = req[r].tok

RefreshSession(r) ==
    /\ req[r].pc = "refSession"
    /\ \/ /\ Works
          /\ IF IsActive(r)
             THEN Go(r, "invSession") /\ Begin(req[r].user, "no")
             ELSE Return(r) /\ UNCHANGED overlap
          /\ UNCHANGED <<stores, nextPair, known, failed, spent, byHand>>
       \/ FailAndReturn(r)

-----------------------------------------------------------------------------
(***************************************************************************)
(* invalidateSession: delete the pair the session points to.               *)
(***************************************************************************)
MutantRefreshFirst(u, p) == <<refreshKey(p), sessionKey(u)>>

SessionKeys(u, p) == <<sessionKey(u), refreshKey(p)>>

MutantKeepAccess(u, p) == <<accessSessionKey(u)>>

AccessKeys(u, p) == <<accessSessionKey(u), accessKey(p)>>

InvalidateSession(r) ==
    /\ req[r].pc = "invSession"
    /\ LET u == req[r].user
           p == cache[sessionKey(u)]
       IN  \/ /\ Works
              /\ IF p = Miss THEN Go(r, "invAccess")
                 ELSE Deleting(r, SessionKeys(u, p), "invAccess")
              /\ UNCHANGED <<stores, nextPair, hist>>
           \/ FailAndReturn(r)

AfterInvalidate(r) == IF req[r].op = "Logout" THEN "setStatus" ELSE "setSession"

InvalidateAccess(r) ==
    /\ req[r].pc = "invAccess"
    /\ LET u == req[r].user
           p == cache[accessSessionKey(u)]
       IN  \/ /\ Works
              /\ IF p = Miss THEN Go(r, AfterInvalidate(r))
                 ELSE Deleting(r, AccessKeys(u, p), AfterInvalidate(r))
              /\ UNCHANGED <<stores, nextPair, hist>>
           \/ FailAndReturn(r)

\* One Delete of invalidateSession or of a rollback; its error is ignored.
Delete(r) ==
    /\ req[r].pc = "delete"
    /\ \/ Works /\ Set(Head(req[r].dels), Miss)
       \/ Fails /\ UNCHANGED cache
    /\ LET rest == Tail(req[r].dels)
       IN  IF rest # <<>> THEN req' = [req EXCEPT ![r].dels = rest]
           ELSE IF req[r].next = "idle" THEN Return(r)
           ELSE req' = [req EXCEPT ![r].dels = <<>>, ![r].pc = req[r].next,
                                   ![r].next = "idle"]
    /\ UNCHANGED <<accounts, status, nextPair, hist>>

-----------------------------------------------------------------------------
(***************************************************************************)
(* issueTokens: four Sets, and the Deletes that undo the earlier ones when *)
(* one fails.                                                              *)
(***************************************************************************)

\* Set(k, v) and go on at pc, or fail (before or after the effect) and delete the
\* keys in undo.
Issue(r, k, v, pc, undo) ==
    /\ \/ Works /\ Set(k, v) /\ Go(r, pc) /\ UNCHANGED failed
       \/ /\ Fails
          /\ Set(k, v) \/ UNCHANGED cache
          /\ Deleting(r, undo, "idle")
          /\ failed' = failed \cup {req[r].pair}
    /\ UNCHANGED <<accounts, status, nextPair, known, spent, byHand, overlap>>

\* The pair is made, then the session is set; there is nothing to undo.
IssueSession(r) ==
    /\ req[r].pc = "setSession"
    /\ nextPair \in Pair /\ nextPair' = nextPair + 1
    /\ \/ /\ Works /\ Set(sessionKey(req[r].user), nextPair)
          /\ req' = [req EXCEPT ![r].pc = "setRefresh", ![r].pair = nextPair]
          /\ UNCHANGED failed
       \/ /\ Fails /\ Return(r)
          /\ Set(sessionKey(req[r].user), nextPair) \/ UNCHANGED cache
          /\ failed' = failed \cup {nextPair}
    /\ UNCHANGED <<accounts, status, known, spent, byHand, overlap>>

IssueRefresh(r) ==
    /\ req[r].pc = "setRefresh"
    /\ Issue(r, refreshKey(req[r].pair), req[r].user, "setAccess",
             <<sessionKey(req[r].user)>>)

IssueAccess(r) ==
    /\ req[r].pc = "setAccess"
    /\ Issue(r, accessKey(req[r].pair), req[r].user, "setAccessSession",
             <<sessionKey(req[r].user), refreshKey(req[r].pair),
               accessKey(req[r].pair)>>)

MutantForgetAccess(u, p) ==
    <<sessionKey(u), refreshKey(p), accessSessionKey(u)>>

AllKeys(u, p) ==
    <<sessionKey(u), refreshKey(p), accessKey(p), accessSessionKey(u)>>

IssueAccessSession(r) ==
    /\ req[r].pc = "setAccessSession"
    /\ Issue(r, accessSessionKey(req[r].user), req[r].pair, "setStatus",
             AllKeys(req[r].user, req[r].pair))

MutantStayOnline(op) == "online"

NewStatus(op) == IF op = "Logout" THEN "offline" ELSE "online"

\* UpdateStatus, the last call of Login, Refresh and Logout.
SetStatus(r) ==
    /\ req[r].pc = "setStatus"
    /\ LET u   == req[r].user
           out == req[r].op = "Logout"
       IN  \/ /\ Works /\ Return(r)
              /\ status' = IF u \in accounts
                           THEN [status EXCEPT ![u] = NewStatus(req[r].op)]
                           ELSE status
              /\ byHand' = byHand \ {u}
              /\ known' = IF out THEN known ELSE known \cup {req[r].pair}
              /\ spent' = IF req[r].op = "Refresh" THEN spent \cup {req[r].tok} ELSE spent
              /\ ended' = IF out /\ ended[u] = "ending"
                          THEN [ended EXCEPT ![u] = "yes"] ELSE ended
              /\ UNCHANGED <<cache, accounts, nextPair, failed, clash, checked>>
           \/ FailAndReturn(r)

-----------------------------------------------------------------------------
(***************************************************************************)
(* ValidateAccessToken: one Get and two Sets that extend the lifetimes.    *)
(***************************************************************************)
ValidateGet(r) ==
    /\ req[r].pc = "valGet"
    /\ LET u == cache[accessKey(req[r].tok)]
       IN  \/ /\ Works
              /\ IF u = Miss THEN Return(r) /\ UNCHANGED checked
                 ELSE /\ req' = [req EXCEPT ![r].user = u, ![r].pc = "valSet"]
                      /\ checked' = IF Writing(u) = {} THEN checked ELSE checked \cup {u}
              /\ UNCHANGED <<stores, nextPair, known, failed, spent, byHand, ended, clash>>
           \/ FailAndReturn(r)

ValidateSet(r) ==
    /\ req[r].pc = "valSet"
    /\ \/ Works /\ Set(accessKey(req[r].tok), req[r].user) /\ Go(r, "valSetSession")
       \/ /\ Fails /\ Return(r)
          /\ Set(accessKey(req[r].tok), req[r].user) \/ UNCHANGED cache
    /\ UNCHANGED <<accounts, status, nextPair, hist>>

MutantStoreUser(r) == req[r].user

ActiveAccess(r) == req[r].tok

ValidateSetSession(r) ==
    /\ req[r].pc = "valSetSession"
    /\ \/ /\ Works /\ Set(accessSessionKey(req[r].user), ActiveAccess(r))
          /\ IF req[r].op = "Patch" THEN Go(r, "patch") ELSE Return(r)
       \/ /\ Fails /\ Return(r)
          /\ Set(accessSessionKey(req[r].user), ActiveAccess(r)) \/ UNCHANGED cache
    /\ UNCHANGED <<accounts, status, nextPair, hist>>

\* users.UpdateStatus, for any user and with any text: one UPDATE, which does
\* not say whether there was a row.
PatchStatus(r, u, st) ==
    /\ req[r].pc = "patch"
    /\ \/ /\ Works /\ Return(r)
          /\ status' = IF u \in accounts THEN [status EXCEPT ![u] = st] ELSE status
          /\ byHand' = byHand \cup ({u} \cap accounts)
          /\ UNCHANGED <<cache, accounts, nextPair, known, failed, spent, overlap>>
       \/ FailAndReturn(r)

-----------------------------------------------------------------------------
(***************************************************************************)
(* Expiry.  Of two keys written one after the other with the same          *)
(* lifetime the first expires first: a refresh key outlives the session    *)
(* key that names it, an access-session key the access key it names,       *)
(* unless a request is between the two writes or a write failed.           *)
(***************************************************************************)
Between(t) == \E r \in Req : \/ req[r].pc = "valSetSession" /\ req[r].tok = t
                             \/ req[r].pc = "setAccessSession" /\ req[r].pair = t

MayExpire(k) ==
    \/ faults > 0
    \/ k[1] \in {"session", "access"}
    \/ k[1] = "refresh" /\ cache[sessionKey(cache[k])] # k[2]
    \/ k[1] = "accessSession" /\ (cache[accessKey(cache[k])] = Miss \/ Between(cache[k]))

Expire(k) ==
    /\ cache[k] # Miss /\ MayExpire(k)
    /\ Set(k, Miss)
    /\ UNCHANGED <<accounts, status, req, nextPair, faults, hist>>

-----------------------------------------------------------------------------
Arrive(r) ==
    \/ \E u \in User : StartRegister(r, u) \/ StartLogin(r, u) \/ StartLogout(r, u)
    \/ \E t \in Pair : \/ StartRefresh(r, t)
                      \/ \E o \in Route : StartValidate(r, o, t)

Call(r) ==
    \/ RegisterGet(r) \/ RegisterCreate(r) \/ LoginGet(r)
    \/ RefreshGet(r) \/ RefreshSession(r)
    \/ InvalidateSession(r) \/ InvalidateAccess(r) \/ Delete(r)
    \/ IssueSession(r) \/ IssueRefresh(r) \/ IssueAccess(r) \/ IssueAccessSession(r)
    \/ SetStatus(r)
    \/ ValidateGet(r) \/ ValidateSet(r) \/ ValidateSetSession(r)
    \/ \E u \in User, st \in Status : PatchStatus(r, u, st)

Next ==
    \/ \E r \in Req : Arrive(r) \/ Call(r)
    \/ \E k \in Key : Expire(k)

Spec == Init /\ [][Next]_vars

-----------------------------------------------------------------------------
(***************************************************************************)
(* Properties.                                                             *)
(***************************************************************************)

\* An access token is accepted; a refresh token is accepted.
AccessLive(p, u)  == cache[accessKey(p)] = u
RefreshLive(p, u) == cache[refreshKey(p)] = u /\ cache[sessionKey(u)] = p

\* invalidateSession (service_impl.go 255-277) deletes session before refresh
\* and issueTokens (207-210) sets session before refresh.  Whatever requests
\* interleave, and as long as no call has failed, a session key that names a pair
\* has its refresh key, or the request that will write it is on its way: no login
\* ends with a session that nothing can refresh while it is the active one.
SessionHasRefresh ==
    faults = 0 => \A u \in User, p \in Pair :
        cache[sessionKey(u)] = p =>
            \/ cache[refreshKey(p)] = u
            \/ \E r \in Req : req[r].pc = "setRefresh" /\ req[r].pair = p

\* ValidateAccessToken writes back what it read: even when a Logout or a Login
\* ran in between, a pair key only ever holds the user its issuing request was
\* for, and a user's keys only name that user's pairs.
OnePairOneUser ==
    \A p \in Pair, u, v \in User :
        /\ cache[accessKey(p)] = u \/ cache[refreshKey(p)] = u
        /\ \/ cache[accessKey(p)] = v \/ cache[refreshKey(p)] = v
           \/ cache[sessionKey(v)] = p \/ cache[accessSessionKey(v)] = p
        => u = v

\* invalidateSession (service_impl.go 266-275) finds an access token only through
\* the user's access-session key.  With any number of requests in flight, for users
\* of whom no two session changes overlapped each other or a token check, and as
\* long as no call has failed: when no change or check is under way every access
\* token that is accepted is the one that the key names, so the next Login or
\* Logout deletes it, and there is at most one.
LiveAccessTracked ==
    faults = 0 => \A u \in User \ (clash \cup checked), p \in Pair :
        AccessLive(p, u) /\ Writing(u) \cup Checking(u) = {} =>
            cache[accessSessionKey(u)] = p

\* service_impl.go 165-176, 255-275.  After a Logout that no accepted Login or
\* Refresh overlapped has returned nil, and until the next one is accepted, no
\* refresh token of the user is accepted, whatever else overlaps or overlapped; and
\* no access token, for the users of LiveAccessTracked.  As long as no call has
\* failed: the errors of Deletes are ignored.
LogoutEndsSession ==
    faults = 0 => \A u \in User, p \in Pair : ended[u] = "yes" /\ Writing(u) = {} =>
        /\ ~RefreshLive(p, u)
        /\ u \notin clash \cup checked => ~AccessLive(p, u)

\* API_documentation.md 62, "Session invalidated and refresh token revoked":
\* after such a Logout no token of the user is accepted.  The code does not keep
\* this when a token is being checked meanwhile.
LogoutRevokes ==
    faults = 0 => \A u \in User, p \in Pair : ended[u] = "yes" /\ Writing(u) = {} =>
        ~RefreshLive(p, u) /\ ~AccessLive(p, u)

\* README.md 28, "refresh token rotation": once a Refresh has returned a new pair
\* for a refresh token no Refresh accepts that token again, whatever requests
\* overlap, calls fail and keys expire; the comparison (service_impl.go 141) is made
\* long before the old key is deleted.  Two Refreshes that are both past the
\* comparison may both return a pair.
RefreshRotates ==
    [][\A r \in Req : req[r].pc = "refSession" /\ req'[r].pc = "invSession" =>
           req[r].tok \notin spent]_vars

\* The status is written last (service_impl.go 112, 158, 175).  A user after a Logout
\* that no accepted Login or Refresh overlapped is shown offline, whatever else
\* overlaps or fails; and a user of whom no two session changes overlapped and no
\* call failed is shown online as long as there is a session and no change under
\* way.  Users whose status was set by hand since are excepted: every later Login,
\* Refresh and Logout puts that right.
StatusTracksSession ==
    \A u \in User \ byHand :
        /\ ended[u] = "yes" => status[u] = "offline"
        /\ faults = 0 /\ u \notin clash /\ Writing(u) = {} =>
              (cache[sessionKey(u)] # Miss => status[u] = "online")

\* The rollbacks of issueTokens (service_impl.go 210-226): when one call has
\* failed, a pair whose issueTokens returned an error is accepted neither as
\* access nor as refresh token once the request is over.
FailedIssueUndone ==
    faults <= 1 => \A p \in failed, u \in User :
        (\A r \in Req : req[r].pair # p) => ~AccessLive(p, u) /\ ~RefreshLive(p, u)
=============================================================================
