# A TLA+ verification of ChatterStack

ChatterStack is a chat back end in Go. One binary runs in two modes: an HTTP API
server (`-mode api`) and a websocket node (`-mode websocket`). Both use the same
Postgres tables and the same Redis (keys for sessions, pub/sub for announcements).
There are no transactions around several statements and no locks between processes,
so the interesting behaviour is in the order of individual calls, and, inside a
websocket node, in the order of goroutine steps.

Paths below are relative to `src/`.

## 1. Inventory

| Component | State it keeps | Operations | Interacts with | What makes it correct |
|---|---|---|---|---|
| Hub (`internal/delivery/websocket/hub.go`) | maps `clients`, `rooms`, `users` under one RWMutex; three unbuffered channels | `Run` (register, unregister, broadcast, shutdown), `SendToUser` (called by the relay goroutine) | pumps, relay, eviction goroutines it spawns | the maps agree; an event taken up for a client is queued once or the client is on its way out; `Send` is closed once and not sent to afterwards |
| Client pumps (`client.go`) | `Send` (256 places), the connection, the frame being written | `ReadPump`, `WritePump`, `handleSendMessage`, `handleTypingEvent` | hub, message service, the peer | order and number of delivered events; the flush loop never blocks; a dead connection is unregistered |
| Relay (`relay.go`) | the Redis subscription | subscribe, room message, deletion, user event, stop | Redis, hub | it listens while the node serves and stops when told |
| Gateway (`cmd/server/main.go` 292-339, `auth_helpers.go`) | none | `/ws` handshake | auth, rooms, users, hub | a connection is served the rooms its user was a member of, all of them, and learns of the ones that come later |
| Authentication (`internal/domain/auth`) | `users` row; Redis keys session, access-session, refresh, access | Register, Login, Refresh, Logout, ValidateAccessToken | both servers, concurrently | the four keys stay in step; Logout ends a session; a refresh token that was exchanged is dead; what overlapping requests may break is known |
| Messages (`internal/domain/messages`) | `messages`, `message_receipts` | Send, Edit, Delete, MarkDelivered, MarkRead, queries | Postgres, Redis, websocket clients | clients end up showing what is stored; only senders change a message; receipts and status agree |
| Rooms (`internal/domain/rooms`) | `rooms`, `room_members` | Create, AddMember, RemoveMember, EnsureDirectRoom, Delete, queries | Postgres, Redis | a pair's room is found again, a second one takes an overlap; memberships and announcements follow the rooms that exist; only its creator deletes a room, once |
| Users (`internal/domain/users`) | the `users` row | profile reads, status | Postgres | a status set by hand does not outlive the next login or logout |
| HTTP rate limiter (`pkg/middleware/rate_limit.go`) | a token bucket per address | allow, cleanup goroutine | every request | a visitor gets neither more nor less by being forgotten |
| Routing, helpers, CORS, logging, configuration, start-up | none that changes | - | - | error mapping |

Hard to test, and therefore what the properties aim at (the full list, line by line,
is `hazards` in `PROJECT.json`): closing and sending on `Send` channels from three kinds of
goroutine; goroutines left waiting at unbuffered channels after the hub returned;
full buffers; the count-then-receive loop of `WritePump`; one cancellation racing
everything else; Redis calls of two requests interleaved; a failing call in the middle
of a sequence; queries that read while others write; expiry of related keys; announcements published in another order than
rows were written.

## 2. Modules

| Module | What it is |
|---|---|
| `Hub` | one websocket node: hub, pumps, eviction goroutines, relay, peers, Redis subscription |
| `Delivery` | what a node promises its connections, without goroutines, locks, buffers or frames |
| `HubDelivery` | the refinement mapping from `Hub` to `Delivery` |
| `MCHub` | instances of `Hub` and `HubDelivery` for TLC |
| `AuthSession`, `MCAuth` | the authentication service over Postgres and Redis, and the user service's status write |
| `MessageService`, `MCMessages` | the message service, its HTTP handler and its websocket caller, and what clients show |
| `Paging`, `MCPaging` | the message queries `ListByRoom` and `ListAround` against concurrent writers |
| `Rooms`, `MCRooms` | the room service over Postgres, and its announcements |
| `Membership` | what the room service promises those who look at memberships; `Rooms` implements it |
| `Gateway`, `MCGateway` | the `/ws` handshake beside the room service: composes the handler with `Membership` |
| `RateLimiter`, `MCRateLimiter` | the HTTP rate limiter and its cleanup goroutine |
| `TokenBucket` | a bucket per client that is never forgotten; `RateLimiter` implements it |
| `HubProofs`, `DeliveryProofs`, `AuthProofs`, `MessageProofs`, `PagingProofs`, `RoomsProofs`, `GatewayProofs`, `RateLimiterProofs` | theorems about `Hub`, `HubDelivery` and the module of the same name, for every value of the constants (section 4) |

### Hub

*State.* `clients`, `rooms`, `users` are the three maps (a missing key is the empty
set). `hubPc`, `hubClient`, `hubEvent`, `hubTodo` are the hub goroutine's place and
locals; `rpc`/`pending` and `wpc`/`wn`/`frame` those of every client's ReadPump and
WritePump; `relayPc`, `relayEvent`, `relayTodo` the relay's. `send` and `closed` are the
`Send` channels, `evict` counts pending `go h.Unregister(client)` goroutines, `bus` is
the subscription channel. `crash` records a panic (close of a closed channel, send on
a closed channel): both happen in goroutines without `recover` and end the process, so
nothing follows. `got`, `owed`, `overflow` are history.

*Steps.* A rendezvous on an unbuffered channel is one action that moves both sides
(`HubRecvRegister`, `HubRecvUnregister`, `HubRecvEvict`, `HubRecvClientBroadcast`,
`HubRecvRelayBroadcast`). `addClient`, `removeClient` and `shutdown` run under the write
lock and are one action each. `sendToRoom` and `SendToUser` hold only the read lock, may
overlap each other, and therefore take one action per target. `WritePump` has an action
for each receive, for reading `len(c.Send)`, for closing the frame and for returning.
The write lock is free exactly when the relay is not inside `SendToUser`
(`WriteLockFree`), for every other user of the lock is the hub goroutine itself.

*Abstractions.* Event contents are an identity, the room or user they go to, the
excluded client and whether they came over Redis. Frames that change nothing (rate
limited, malformed, unknown, not a member, failed Send) are left out. A peer that is
gone or stalls is one state, `lost`: reads and writes fail from some moment on (deadlines
`pongWait`, `writeWait`), writes may still be accepted before. Redis delivers in order to
a subscription that exists and loses what is published when there is none.

### Delivery and HubDelivery

`Delivery` has five ideas: who is in a room and who is a user's (`inRoom`, `ofUser`), events that
are `due` to a connection, the `stream` delivered to it, who was `cut` off, and whether the
process is `alive`. Joining, leaving and stopping happen only while nothing is due; room
events are posted one after the other, which is why all connections see them in one order;
nobody is posted an event twice; a connection that misses one is cut off; the process ends
only after somebody was cut off or the node had stopped. `HubDelivery` maps `rooms` and
`users` to the first two, the remaining targets of `sendToRoom` and `SendToUser` (`Due`) to
`due`, and everything that ever entered a client's `Send` channel (written, in the frame, queued)
to `stream`. Pumps, frames, evictions and channels stutter.

### AuthSession

*State.* `cache` maps the four kinds of key to a value or `Miss`; `accounts` and `status`
are the columns used. A token pair is one number: both tokens are 32 random bytes. Each
request slot holds its operation, program counter, user, token presented, the pair made
for it (from the first Set of `issueTokens` on) and the keys still to be deleted. Every Redis or Postgres call is an action;
`Start...` is the arrival of a request, `Return` its end. A protected route is its
middleware (`Validate...`); `Route` selects which are called: "Patch" goes on to
`PatchStatus`, the user service's `UpdateStatus`, for any user and with any text, for neither the
handler nor the schema restricts them.

*Failure.* A call fails at most `MaxFaults` times. A failing Get, Set or statement
returns; a failing Set may have taken effect; a failing Delete is ignored, as in the
code. The properties that need every key in place say so (`faults = 0`); `FailedIssueUndone`
is about the failure itself. *Expiry.* `Expire` removes any key whose lifetime may be over: of two keys written
one after the other with the same lifetime the first goes first (`MayExpire`).

*Overlap.* Nothing serialises the requests of a user, so no property assumes it. Three histories
record what overlapped, each at the step where it happens: `ended`, whether a Logout has
returned that no accepted Login or Refresh overlapped or followed; `clash`, the users two of whose
session changes (`Writing`) overlapped; `checked`, those whose token was being checked
(`Checking`) during a change. A property names the overlap that breaks it and holds under every other,
and under all interleavings of requests of different users. `RefreshRotates` names none.

### MessageService

*State.* `msg` and `receipt` are the tables, `bus` the announcements on their way,
`shown` what a client of the node displays for each message. A text is a number, so
that two edits differ. `Deliver` stands for relay and hub, whose order and completeness
are the subject of `Hub`. `GetByID`, `UpdateContent`, `DeleteRow`, `UpsertReceipt`,
`UpdateStatus`, `Publish` are the calls; `Answer` is the room comparison of the handlers
of Edit and Delete, made where the code makes it, after everything else. A failing call
has no effect here and is answered with 500. `reply` records the last answer with what the
request had done, for `ErrorMeansUnchanged`; `raced` the messages whose changes overlapped.
`DropRoom` is the room service's Delete as messages feel it: their rows go, nothing is published.

### Paging

`Stamp` and `Insert` are the two halves of `Create`, for `created_at` is the clock of the sender's
process before the INSERT. Each query is one action; `Sorted` gives every order that
`ORDER BY created_at DESC` may return, a different one each time when stamps are equal. A
behaviour has one reader, who either pages until a page is empty or asks for one window.
`whole` and `gone` record what was there all the time and what was deleted, which is what
the properties can be about: a scan that others write under has no single state to agree with.

### Rooms

*State.* `room` and `members` are the tables; roles are stored and never read by the
code, so a membership is a pair. `Create` of the repository is one transaction, hence one
action; every other statement is a call of its own. `EnsureDirectRoom` is the query, after
which the request goes on as a Create; the query is modelled as it is written, by its
two counts (`FindDirectRoom`). `kept` is, for a request that found none, the rooms that have not changed since,
and `elder` the rooms that were `kept` when a room was created: what `SecondRoomByOverlap` is about. `Tell` publishes one `room_added` at a time, in any order, for
the code ranges over a map. `told`, `acks`, `kept` and `elder` are history.

At its end `Rooms` maps itself to `Membership`: an announcement is `due` from the insert until
the request publishes it, finds the room gone, or fails.

### Gateway

`gate` is the place of each `/ws` handler: filter (one query per requested room), upgrade, profile,
register. The memberships it reads are those of `Membership`, whose steps fall anywhere
between. `bus` and `inbox` are the room_added events on their way and received; delivery inside the
node is the subject of `Hub`, whose connections this module takes to be served as long as
they last. `ever`, `always` and `joined` record the memberships during the handshake and after it. Tokens are
checked before anything is read; that check is `ValidateAccessToken` of `AuthSession`.

### RateLimiter

`visitors`, `lastSeen` and `bucket` are the map, its time stamps and the `rate.Limiter` objects;
a request has its bucket from `getVisitor` (under the mutex) until `Allow` (outside it), and `cleanup`
runs between them as it likes. Levels are in units of 1/window of a token, so that refills
are whole numbers. A bucket object that nobody refers to may be made anew, which is what
the garbage collector does. `TokenBucket` keeps one level per client for ever; with a burst
that two idle windows do not refill, forgetting is a gain, and `Forget` says so.

## 3. Runs

Passing runs:

| Run | Instance | Shows |
|---|---|---|
| `hub_relay` | 2 clients of 1 user, 1 room, buffers of 1, 2 events, lost connections, SIGTERM | the safety invariants of the node (`RegistryConsistent`, `CrashCause`, `EvictionUnderway`, `FlushWithinBuffer`), and that it implements `Delivery` |
| `hub_chat` | 2 users sharing a room, one with a second room; messages and typing events | local and Redis copies: nothing lost or doubled, one order (`StreamsAgree`); exclusion of the typist; leaving all rooms (`Delivery`) |
| `hub_live` | 1 client, fairness, the subscription may fail | five liveness properties |
| `auth_races` | 1 user, 2 requests in flight, 2 pairs, PATCH of the status, expiry anywhere | keys in step, Logout, rotation and status, whatever overlaps but for what each property names; a session has its refresh key |
| `auth_faults` | 2 users, 1 request in flight, 2 pairs, expiry anywhere, one failing call | a token names one user; rollback of `issueTokens` |
| `messages` | 2 requests in flight on one message, 2 users, 2 rooms that may be deleted, one failing call | clients end up with what is stored, errors that mean nothing changed, true deletions, receipts before status, no revival, no foreign change |
| `paging` | 4 messages in a room and 1 in another, 3 time stamps, pages and windows of 2 and of the default 5, one deletion | what a scan (`ScanComplete`) and a window (`WindowInv`) cannot miss while others write |
| `rooms` | 2 users, 2 rooms, 2 requests in flight, one failing call | memberships of live rooms only and announcements (`RoomInv`), second rooms of a pair only by overlap (`SecondRoomByOverlap`), deletion by the creator and once; `Membership` |
| `gateway` | 1 user, 1 connection, 2 rooms asked for in one list or one of them twice, one failing call | who is served, who is not (`HandshakeInv`), and who learns of a room joined later |
| `rate_limiter` | 1 client, 2 requests in flight, up to 5, 10 ticks, four configurations | the bound on any stretch of time, one bucket per client (`BucketInv`), `TokenBucket` |

Runs whose property is a sentence of the repository that the code does not keep
(`findings` in `PROJECT.json` quotes each):

| Run | What TLC finds |
|---|---|
| `hub_double_close` | eviction of a slow client, then its own deferred Unregister: close of a closed channel |
| `auth_logout_race` | ValidateAccessToken restores the key a Logout has just deleted |

Facts the models exhibit and no run is spent on: after `shutdown` the users map still holds
clients whose `Send` is closed, so a user event that the relay takes up then panics (the
exception for `hubPc = "done"` in `CrashCause`); a relay inside `BroadcastToRoom` when the
hub returns waits for ever (the exception in `RelayStopsUnlessStranded`); `WritePump` puts
several JSON events, separated by newlines, into one frame, while the client example in the
repository's README parses a frame as one; an Edit or Delete through the URL of another room changes and
publishes the message and then answers 404, although API_documentation.md says "Message missing in
the specified room" (the exception in `ErrorMeansUnchanged`); a failed subscription is never retried; a
`MarkDelivered` after a `MarkRead` overwrites the read receipt.

Of the services: two overlapping changes of one message may publish in another order than
they wrote, and clients keep a text that is not stored, or a deleted message (the exception `raced`
in `InSyncInTurn`, against README.md 173 "so WebSocket nodes stay in sync"); deleting a room
deletes its messages without a message.deleted; a publish that fails after the row was written is answered with an error and never
made up for (`faults = 0` in `InSyncInTurn`); two concurrent
EnsureDirectRoom of one pair both find none and create two rooms (API_documentation.md 156
says "Idempotently"), for `FindDirectRoom` and `Create` are separate calls; any caller may PATCH any user's status, to any
text, so that the "ONLINE" of API_documentation.md 85 is stored beside the "online" of Login.

Of the queries: a deletion during a scan moves later pages up and a row is skipped
(exception in `ScanComplete`); rows with the stamp of the anchor are in no window
(exception in `WindowHasNoHoles`, part of `WindowInv`); `(page - 1) * limit` may overflow.

Of the handshake: a user added to a room after the filter's query for it and before `Register`,
whose room_added is relayed before `Register`, is neither served the room nor told on that connection
(`AddedWhileConnected` starts at `Register`); when `GetProfile` fails, the handler returns and
the upgraded connection stays open, served by nobody (`orphan`). API_documentation.md 366 says that the
username "falls back to the user ID when a profile lookup fails"; main.go 327-332 logs the failure, writes a 401 to a connection
that was hijacked and returns. `HandshakeInv` exempts such connections (`hurt`), so it neither shows nor excludes this. A repeated room_id is kept
twice, so the client no longer counts as having one room and its typing events must name it.

Of the limiter: with a burst beyond what two windows refill, a client that stays away for two windows
gets a full bucket early (exceptions `Refills` and `Forgettable`). README.md 115 calls the limiter a "Sliding window rate limiter".
It is a token bucket, and with the defaults (burst equal to the quota) a client that comes with a full
bucket gets nearly twice the quota through in one window: the burst at once, and what the window
refills. `RateBound` states that bound, not the sliding window's.

Of the authentication: two Refreshes of one token that are both past the comparison may both return a
pair; only one of them is the session afterwards, and the access token of the other may be tracked by nobody (`clash`).

*Bounds.* `SendCap` is 256 in the code; 1 makes full buffers, batches (one event in the
frame, one queued) and evictions happen with few events, and the proofs cover every
capacity. Two clients are enough for
every property that compares two; more than one event per client is what fills a buffer.
`MaxEvents`, `MaxPairs`, `MaxMsgs`, `MaxText`, `MaxRooms` and `MaxFaults` cap counters that the
code leaves unbounded; `Env` selects what the environment does in a run, to keep the
product of independent inputs small. Two request slots give every pairwise
interleaving. Rooms do not influence one another but through `EnsureDirectRoom`, where a
pair and two rooms suffice: a room that is not the pair's is a group, or one that a user left. In `messages` two
texts are one Send and one Edit, or two Sends; deletions, receipts and room deletions are not
counted. In `auth_races` one user suffices for what is said of each user's own keys, and two pairs for one
session to replace another; two users meet in `auth_faults`, where a Set that failed is followed by the requests that find what it left. Rate limiter clients share nothing but the map's lock and
connections nothing but the hub, so one of each is enough there; 10 ticks are more than
two windows of 3 and a cleanup after them. `Stall` is an assumption on the scheduler: a request
that has its bucket calls `Allow` within one tick, and no wait lies between; a goroutine
that slept for two windows there would draw on a forgotten bucket. In `paging` four messages, three
stamps and pages of two give ties, late rows, deletions and several pages; limit 5 exceeds what there is.
Hub runs switch deadlock checking off: with the last event delivered a node rests. `messages`,
`paging`, `rate_limiter` and the `auth` runs do so because their bounds end a behaviour: texts, the one reader's request,
time, pairs.

*Fairness* (`Hub!Fairness`). Runnable goroutines run: weak fairness of each pump, of the
relay and of the hub inside a case. A blocked channel operation is served in FIFO order and
`select` chooses among ready cases at random, so a case that is ready again and again is
taken: strong fairness of each rendezvous, of the hub's `ctx.Done` case and of the relay's.
Nothing is assumed of peers, other nodes or signals; a lost connection is noticed because
of the read and write deadlines and the ping.

*Liveness after a crash.* The liveness properties except the process's end, for the
double close is reachable: they say what happens as long as the node lives.

*What concurrency costs.* Of the authentication, `OnePairOneUser`, `SessionHasRefresh`, `FailedIssueUndone` and
`RefreshRotates` hold whatever overlaps. `LogoutEndsSession` needs a Logout that no accepted Login or Refresh overlapped, and for
the access token, that none was being checked meanwhile: `auth_logout_race` drops that exception (`LogoutRevokes`) and finds the
token accepted after the Logout. `LiveAccessTracked` and the online half of `StatusTracksSession` except users two of whose session changes overlapped:
two Logins leave two access tokens and one pointer, and a Logout that writes its status after a Login wrote
its own leaves a live session shown offline. The properties of the other services hold under overlap,
with the exceptions they name.

*Refinements.* `ImplementsDelivery` (Hub to Delivery), `ImplementsMembership` (Rooms to
Membership) and `ImplementsTokenBucket` (RateLimiter to TokenBucket) are checked as
`PROPERTY` of the detailed specification: initial states map to initial states and every step to an
abstract step or a stutter. `Gateway` is built on Membership, so what it shows holds
beside the detailed room service. No fairness is part of them.

`StreamsAgree`, `RoomInv`, `HandshakeInv`, `BucketInv` and `WindowInv` are conjunctions of named parts; each
has a mutant for its several parts.

Each property of a passing run has a mutant: a `Mutant...` operator next to the definition
it replaces, which must make TLC find the property violated.

## 4. Proofs

Every safety invariant, action property and refinement that a passing run checks is also a theorem, for any
sets of clients, users, rooms and messages, any number of requests in flight and any value
of the bounds. The assumptions are the `ASSUME` of each model, which say of what type the
constants are and nothing more, and one hypothesis that is named where it is used,
`ShortStall`.

Each module proves an inductive invariant `IInv` in the same way: an `InitOK` lemma, one
lemma per operation of the component, `StepOK` for `Next`, and the properties from it. What the
properties lack to be inductive is always the same kind of thing: what a request between two calls, or a
goroutine between two steps, has established already and relies on later.

| Module | Theorems (property) |
|---|---|
| `HubProofs` | `TypeCorrect` (types and channel capacities; proved only), `RegistryCorrect` (`RegistryConsistent`), `CrashNeedsCause` (`CrashCause`), `EvictionNeverLost` (`EvictionUnderway`), `FlushNeverBlocks` (`FlushWithinBuffer`) |
| `DeliveryProofs` | `StreamsAgreeAlways` (`StreamsAgree`), `NodeImplementsDelivery` (`ImplementsDelivery`) |
| `AuthProofs` | `TypesHold` (`TypeOK`), `PairHasOneUser` (`OnePairOneUser`), `SessionCanRefresh` (`SessionHasRefresh`), `RollbackIsComplete` (`FailedIssueUndone`), `LiveAccessIsTracked` (`LiveAccessTracked`), `LogoutIsFinal` (`LogoutEndsSession`), `RefreshIsOneTime` (`RefreshRotates`), `StatusIsTrue` (`StatusTracksSession`) |
| `MessageProofs` | `TypesHold` (`TypeOK`), `ClientsInSync` (`InSyncInTurn`), `ErrorsAreHonest` (`ErrorMeansUnchanged`), `AnnouncedIsGone` (`DeletionsAreTrue`), `StatusAndReceipts` (`StatusHasReceipt`), `GoneForGood` (`DeletedStaysGone`), `SenderChanges` (`OnlySenderChanges`) |
| `PagingProofs` | `ScanIsComplete` (`ScanComplete`), `WindowIsSound` (`WindowInv`) |
| `RoomsProofs` | `TablesConsistent` (`RoomInv`), `OneDeleteSucceeds` (`DeletedOnce`), `CreatorDeletes` (`OnlyCreatorDeletes`), `EnsureFindsTheRoom` (`SecondRoomByOverlap`), `RoomsImplementMembership` (`ImplementsMembership`) |
| `GatewayProofs` | `HandshakeIsRight` (`HandshakeInv`), `AddedIsTold` (`AddedWhileConnected`) |
| `RateLimiterProofs` | under `ShortStall`: `OneBucketEach` (`BucketInv`), `RateIsBounded` (`RateBound`), `LimiterImplementsTokenBucket` (`ImplementsTokenBucket`) |

*Hub.* `IInv` adds three parts to the invariants. `TodoInv`: targets remain only inside
`sendToRoom` and `SendToUser`. `LifecycleInv`: before `Register` is taken the hub has
never heard of a client; without it `addClient` could add a client whose `Send` is closed,
which breaks the registry. `QuietInv`: while no buffer has overflowed there is no
eviction, no registered client is closed, everything in a target list is registered
and a client being removed is removed for the first time; this is what makes a panic
impossible and `CrashCause` inductive. These hold only for a live process: a panicking
step leaves state behind that no longer matters. `EvictionUnderway` and
`FlushWithinBuffer` are then preserved by each action given `IInv`.

*Delivery.* `DInv` follows an event through the node. `WaitInv`: before it is taken up it waits in
one place, and the copy that came through Redis differs from the local one. `OwedInv`: once
taken up it waits nowhere, and each target still to be visited is owed it. `OnceInv`:
a connection has what it is owed and is not in hand, nothing twice. `LastInv`: the
event inside `sendToRoom` is the last room event of whoever has it already; with it the
hub may append to one more stream and any two streams still agree on the order. Steps come in four
kinds, by what they do to what is owed and received: `Calm`, `Taken`, `Delivered`, `Missed`; each action is shown
to be of a kind and each kind to preserve `DInv`. The refinement then maps a kind to an action of
`Delivery` or a stutter, and a panic to its stopping.

*AuthSession.* `RequestInv` says for each kind of request which calls remain and what the earlier
ones have read, deleted and stored. `OwnerInv`: nothing, stored or in a request, names two
users for one pair; it is what makes deleting a key that was read some calls ago harmless to
others. `FailInv`: of a pair
whose issue failed, what is still accepted is in the list of keys its request will delete.

A second invariant, `HInv`, is about the histories and is proved on top of the first, for any number of requests. `Monitor`: two
requests that are both changing a user's session, or changing and checking, are recorded. `SpentInv`: a token that was
exchanged is no longer any session's and never becomes one again, for pairs are new. `LogoutInv`: from a Logout's
first Delete on there is no session, as long as no accepted Login or Refresh overlaps. `TrackInv` follows the access
keys of a user of whom nothing overlapped, through the one request that is changing the session (`WriterInv`) or, when none
is, through the token checks (`RestInv`). `StatusInv`: who is shown online. A step moves one
request, from `p` to `q`: each action is shown to satisfy `HistStep(p, q)`, which has one conjunct for each part of `HInv`, and `HistStep`
to preserve `HInv` whatever the other requests are doing.

`SessionHasRefresh` has `faults = 0` as a
condition and `FailedIssueUndone` `faults <= 1`: a second failing call, the rollback's Delete, is ignored by the code and leaves the
token live.

*MessageService.* `SyncAt` of a message: either the request that will publish what is stored is on its way,
or the display, after all that is on the bus, is what is stored (`WillShow`). It is inductive for messages that
one request at a time changes (`OneChanger`), and fails for `raced` ones. The comparison with the
sender is made on a row read earlier; `RequestInv` keeps what it found true, because a row never
changes its sender and an identifier is not reused.

*Paging.* A message that the scan has not shown has at least as many newer rows in the room as the
pages hold that were read (`ListInv`). Inserts only add to them, and a deletion that takes one away is the
exception `ScanComplete` names. That a query's result is in order throughout follows from its being in
order from row to row, by the least position where it is not (`SortedRows`); that as many rows precede an
untied message as are newer, from a bijection (`NewerBefore`). For windows, `BeforeInv` and `AfterInv` say
of each half what it leaves out, and why: it is full, and what is left out is further from the anchor. Stamps never
change, so this outlives the query.

*Rooms.* `OwedInv`: until a call fails, a member has been told or is in the list of a request. The
creator is compared with a row read earlier, and `RequestInv` keeps it. For `SecondRoomByOverlap`: a room that is `kept` by
a request was not the pair's when it looked, by the two counts of `FindDirectRoom` (`CountsFindThePair`), and has the members it had then. The refinement maps the remaining announcements
of all requests to `due`.

*Gateway.* While a handshake is under way `always` lies within the user's memberships and these within
`ever` (`WindowInv`); no room of `always` is lost between the rooms asked for, the queue of queries
and the result (`NoneLost`); an announcement of a room joined later is owed, on the bus or received (`NewsInv`).

*RateLimiter.* `OneBucket`: a request's bucket is the one of its visitor. It needs `ShortStall`: the time a
request may spend between `getVisitor` and `Allow` (`Stall`) is at most the two windows of idle time after
which `cleanup` forgets a visitor; longer, and a request would draw on a forgotten bucket. The code has nothing between the
two calls, and windows are seconds. `RateBound` is a potential argument (`PaidInv`):
from a grant on, what was granted and what the bucket holds is paid for by the burst and the refill.

Two assumptions on the constants were made explicit for the proofs: users are finitely many (`RoomsAssumption`;
a room's members are counted), and `None` of `MessageService` is no row, room or user.

Left to TLC: the five liveness properties of `hub_live` (`DisconnectedIsRemoved`, `ShutdownDisconnects`,
`SlowConsumerDisconnected`, `RelayStopsUnlessStranded`, `EventuallyWritten`), for the prover has no rules for
fairness and `ENABLED`; and the two violations.

## 5. Not modelled

The queries `Search` (messages and rooms: one statement each, changes nothing) and `ListMembers`
apart from the handshake, profile reads apart from the handshake, JSON layout,
attachments, password hashing, CORS, logging, configuration, start-up and the
generated mocks. A statement that
commits although its connection breaks is modelled only for the Redis Sets of
`AuthSession`.

## 6. Plan

Done: (1) `Hub` with its runs; (2) `AuthSession`; (3) `MessageService`;
(4) `Rooms`; (5) `Delivery`, and `Hub` shown to implement it; (6) `RateLimiter` over `TokenBucket`;
(7) `Paging`; (8) `Membership`, and `Gateway` on top of it; (9) the user service's status write;
(10) the proofs of section 4.

Next:

1. A theorem for the two facts section 3 mentions without a run: which receipts survive a `MarkDelivered` after a
   `MarkRead`, and that a subscription that failed at the start leaves a node deaf.
2. Theorems about the abstract modules alone (`Delivery`, `TokenBucket`, `Membership`), so that a
   reader may rely on them without the detailed ones.
