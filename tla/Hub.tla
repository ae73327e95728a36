-------------------------------- MODULE Hub --------------------------------
(***************************************************************************)
(* One websocket node of ChatterStack: the hub goroutine (hub.go), the     *)
(* ReadPump and WritePump goroutines of every connection (client.go), the  *)
(* eviction goroutines the hub spawns, and the Redis relay (relay.go).     *)
(*                                                                         *)
(* Goroutines meet at three unbuffered channels (register, unregister,     *)
(* broadcast: a rendezvous is one action of the hub that moves both        *)
(* sides), at the buffered Send channel of each client, and at the         *)
(* RWMutex of the hub.  A send on a closed channel or a second close       *)
(* panics; both panics happen in goroutines nobody recovers, so they end   *)
(* the process: variable crash.                                            *)
(***************************************************************************)
EXTENDS Naturals, Sequences, FiniteSets

CONSTANTS
    Client,     \* connection objects (*Client); one is made per handshake
    NoClient,   \* the nil *Client
    Room,
    User,
    UserOf,     \* Client.UserID
    RoomsOf,    \* Client.Rooms: the rooms authorised at the handshake, in order
    SendCap,    \* capacity of Client.Send (256 in NewClient)
    MaxEvents,  \* bound: events that users and other nodes originate
    Env         \* bound: which of EnvActs the environment does

\* Messages and typing events of this node's users, room and user events
\* published elsewhere, lost connections, a failed subscription, SIGTERM.
EnvActs == {"send", "typing", "room", "user", "lose", "subfail", "cancel"}

ASSUME HubAssumption ==
    /\ NoClient \notin Client
    /\ UserOf \in [Client -> User]
    /\ RoomsOf \in [Client -> Seq(Room)]
    /\ SendCap \in Nat
    /\ MaxEvents \in Nat
    /\ Env \subseteq EnvActs

(***************************************************************************)
(* What travels: a room Broadcast (hub.go) or a user event.  id names the  *)
(* originating request; a message sent over a websocket exists twice, as   *)
(* the copy its node broadcasts itself ("local") and as the copy that      *)
(* comes back through Redis ("bus").                                       *)
(***************************************************************************)
Event == [id : 1..MaxEvents, via : {"local", "bus"}, kind : {"room", "user"},
          to : Room \cup User, exclude : Client \cup {NoClient}]

Broadcast(i, v, r, x) ==
    [id |-> i, via |-> v, kind |-> "room", to |-> r, exclude |-> x]

UserEvent(i, u) ==
    [id |-> i, via |-> "bus", kind |-> "user", to |-> u, exclude |-> NoClient]

roomSet(c) == {RoomsOf[c][i] : i \in DOMAIN RoomsOf[c]}

isMember(c, r) == r \in roomSet(c)

VARIABLES
    clients,    \* Hub.clients
    rooms,      \* Hub.rooms; a missing key is the empty set
    users,      \* Hub.users; a missing key is the empty set
    hubPc,      \* Run: "select", or inside "add", "remove", "send"; "done"
    hubClient,  \* the client add/removeClient was called with
    hubEvent,   \* <<msg>> inside sendToRoom
    hubTodo,    \* targets sendToRoom has still to visit
    send,       \* buffered contents of every Client.Send
    closed,     \* clients whose Send is closed
    evict,      \* number of pending "go h.Unregister(client)" goroutines
    conn,       \* "none", "open", "lost" (peer gone or stalled), "closed"
    rpc,        \* ReadPump and the handler around it
    pending,    \* <<msg>> ReadPump is handing to the hub
    wpc,        \* WritePump: "idle", "select", "count", "flush", "done"
    wn,         \* n of WritePump: queued messages still to be flushed
    frame,      \* events written to the frame under construction
    relayPc,    \* relay: "subscribe", "select", "bcast", "user", "done"
    relayEvent, \* <<msg>> the relay is working on
    relayTodo,  \* clients SendToUser has still to visit
    bus,        \* subscription channel of the relay
    ctxDone,    \* the context of hub and relay is cancelled
    nextId,
    crash,      \* "no", or the panic that ended the process: "close", "send"
    got,        \* history: events of the frames handed to the network
    owed,       \* history: events the hub or the relay took up for a client
    overflow    \* history: clients whose buffer was full at a send

hubVars   == <<clients, rooms, users, hubPc, hubClient, hubEvent, hubTodo>>
chanVars  == <<send, closed, evict>>
connVars  == <<conn, rpc, pending>>
writeVars == <<wpc, wn, frame, got>>
relayVars == <<relayPc, relayEvent, relayTodo, bus>>
envVars   == <<ctxDone, nextId>>
auxVars   == <<owed, overflow>>
vars == <<hubVars, chanVars, connVars, writeVars, relayVars, envVars, crash,
          auxVars>>

HubType ==
    /\ clients \subseteq Client
    /\ rooms \in [Room -> SUBSET Client]
    /\ users \in [User -> SUBSET Client]
    /\ hubPc \in {"select", "add", "remove", "send", "done"}
    /\ hubClient \in Client \cup {NoClient}
    /\ hubPc \in {"add", "remove"} => hubClient \in Client
    /\ hubEvent \in Seq(Event) /\ (hubPc = "send" => Len(hubEvent) = 1)
    /\ hubTodo \subseteq Client

ChanType ==
    /\ send \in [Client -> Seq(Event)]
    /\ \A c \in Client : Len(send[c]) <= SendCap
    /\ closed \subseteq Client
    /\ evict \in [Client -> Nat]

ConnType ==
    /\ conn \in [Client -> {"none", "open", "lost", "closed"}]
    /\ rpc \in [Client -> {"none", "register", "read", "bcast", "unreg",
                           "close", "done"}]
    /\ pending \in [Client -> Seq(Event)]
    /\ \A c \in Client : rpc[c] = "bcast" =>
          Len(pending[c]) = 1 /\ pending[c][1].to \in Room

WriteType ==
    /\ wpc \in [Client -> {"idle", "select", "count", "flush", "done"}]
    /\ wn \in [Client -> Nat]
    /\ frame \in [Client -> Seq(Event)]
    /\ got \in [Client -> Seq(Event)]

RelayType ==
    /\ relayPc \in {"subscribe", "select", "bcast", "user", "done"}
    /\ relayEvent \in Seq(Event)
    /\ relayPc \in {"bcast", "user"} => Len(relayEvent) = 1
    /\ relayPc = "bcast" => relayEvent[1].to \in Room
    /\ relayTodo \subseteq Client
    /\ bus \in Seq(Event)
    /\ \A i \in 1..Len(bus) : /\ bus[i].kind = "room" => bus[i].to \in Room
                              /\ bus[i].kind = "user" => bus[i].to \in User

EnvType ==
    /\ ctxDone \in BOOLEAN
    /\ nextId \in 1..(MaxEvents + 1)
    /\ crash \in {"no", "close", "send"}
    /\ owed \in [Client -> SUBSET Event]
    /\ overflow \subseteq Client

\* Every variable holds what the Go type of the field or the program counter of
\* the goroutine allows; no Send channel holds more than its capacity.
TypeOK ==
    HubType /\ ChanType /\ ConnType /\ WriteType /\ RelayType /\ EnvType

Init ==
    /\ clients = {}
    /\ rooms = [r \in Room |-> {}]
    /\ users = [u \in User |-> {}]
    /\ hubPc = "select" /\ hubClient = NoClient /\ hubEvent = <<>> /\ hubTodo = {}
    /\ send = [c \in Client |-> <<>>]
    /\ closed = {}
    /\ evict = [c \in Client |-> 0]
    /\ conn = [c \in Client |-> "none"]
    /\ rpc = [c \in Client |-> "none"]
    /\ pending = [c \in Client |-> <<>>]
    /\ wpc = [c \in Client |-> "idle"]
    /\ wn = [c \in Client |-> 0]
    /\ frame = [c \in Client |-> <<>>]
    /\ relayPc = "subscribe" /\ relayEvent = <<>> /\ relayTodo = {}
    /\ bus = <<>>
    /\ ctxDone = FALSE
    /\ nextId = 1
    /\ crash = "no"
    /\ got = [c \in Client |-> <<>>]
    /\ owed = [c \in Client |-> {}]
    /\ overflow = {}

-----------------------------------------------------------------------------
(***************************************************************************)
(* The mutex.  sendToRoom and SendToUser hold it for reading while they    *)
(* walk their targets; addClient, removeClient and shutdown need it alone. *)
(* Of these only SendToUser runs outside the hub goroutine.                *)
(*                                                                         *)
(* Definitions named Mutant... are plausible bugs, never part of Spec: put *)
(* in place of the definition that follows, each must break a property.    *)
(***************************************************************************)
MutantNoLock == TRUE

WriteLockFree == relayPc # "user"

\* The two outcomes of "select { case client.Send <- data: default: }".
HasSpace(c) == Len(send[c]) < SendCap

-----------------------------------------------------------------------------
(***************************************************************************)
(* The hub goroutine: Run.                                                 *)
(***************************************************************************)

\* case client := <-h.register.  The handler's Register returns, it starts
\* the WritePump and runs the ReadPump.
HubRecvRegister(c) ==
    /\ hubPc = "select" /\ rpc[c] = "register"
    /\ hubPc' = "add" /\ hubClient' = c
    /\ rpc' = [rpc EXCEPT ![c] = "read"]
    /\ wpc' = [wpc EXCEPT ![c] = "select"]
    /\ UNCHANGED <<clients, rooms, users, hubEvent, hubTodo, chanVars, conn,
                   pending, wn, frame, got, relayVars, envVars, crash, auxVars>>

addClient ==
    /\ hubPc = "add" /\ WriteLockFree
    /\ clients' = clients \cup {hubClient}
    /\ users' = [users EXCEPT ![UserOf[hubClient]] = @ \cup {hubClient}]
    /\ rooms' = [r \in Room |-> IF isMember(hubClient, r)
                                THEN rooms[r] \cup {hubClient} ELSE rooms[r]]
    /\ hubPc' = "select" /\ hubClient' = NoClient
    /\ UNCHANGED <<hubEvent, hubTodo, chanVars, connVars, writeVars, relayVars,
                   envVars, crash, auxVars>>

\* case client := <-h.unregister, sent by the deferred call of the ReadPump ...
HubRecvUnregister(c) ==
    /\ hubPc = "select" /\ rpc[c] = "unreg"
    /\ hubPc' = "remove" /\ hubClient' = c
    /\ rpc' = [rpc EXCEPT ![c] = "close"]
    /\ UNCHANGED <<clients, rooms, users, hubEvent, hubTodo, chanVars, conn,
                   pending, writeVars, relayVars, envVars, crash, auxVars>>

\* ... or by a goroutine that sendToRoom spawned for a slow consumer.
HubRecvEvict(c) ==
    /\ hubPc = "select" /\ evict[c] > 0
    /\ hubPc' = "remove" /\ hubClient' = c
    /\ evict' = [evict EXCEPT ![c] = @ - 1]
    /\ UNCHANGED <<clients, rooms, users, hubEvent, hubTodo, send, closed,
                   connVars, writeVars, relayVars, envVars, crash, auxVars>>

MutantKeepRooms(c) == rooms

MutantLeaveFirstRoom(c) == [rooms EXCEPT ![RoomsOf[c][1]] = @ \ {c}]

LeaveRooms(c) ==
    [r \in Room |-> IF isMember(c, r) THEN rooms[r] \ {c} ELSE rooms[r]]

\* removeClient ends in an unconditional close(client.Send): a panic when the
\* channel is closed already.
removeClient ==
    /\ hubPc = "remove" /\ WriteLockFree
    /\ clients' = clients \ {hubClient}
    /\ users' = [users EXCEPT ![UserOf[hubClient]] = @ \ {hubClient}]
    /\ rooms' = LeaveRooms(hubClient)
    /\ IF hubClient \in closed
       THEN crash' = "close" /\ UNCHANGED <<hubPc, hubClient, closed>>
       ELSE /\ closed' = closed \cup {hubClient}
            /\ hubPc' = "select" /\ hubClient' = NoClient
            /\ UNCHANGED crash
    /\ UNCHANGED <<hubEvent, hubTodo, send, evict, connVars, writeVars,
                   relayVars, envVars, auxVars>>

\* Entry of sendToRoom(msg): RLock and the range over h.rooms[msg.RoomID]; it
\* returns with its last target.
SendToRoomRest(todo, e) ==
    /\ hubTodo' = todo
    /\ hubPc' = IF todo = {} THEN "select" ELSE "send"
    /\ hubEvent' = IF todo = {} THEN <<>> ELSE <<e>>

StartSendToRoom(e) ==
    /\ SendToRoomRest(rooms[e.to], e)
    /\ owed' = [c \in Client |-> IF c \in rooms[e.to] /\ c # e.exclude
                                 THEN owed[c] \cup {e} ELSE owed[c]]

\* case msg := <-h.broadcast, sent by a ReadPump ...
HubRecvClientBroadcast(c) ==
    /\ hubPc = "select" /\ rpc[c] = "bcast"
    /\ StartSendToRoom(pending[c][1])
    /\ rpc' = [rpc EXCEPT ![c] = "read"]
    /\ pending' = [pending EXCEPT ![c] = <<>>]
    /\ UNCHANGED <<clients, rooms, users, hubClient, chanVars, conn, writeVars,
                   relayVars, envVars, crash, overflow>>

\* ... or by the relay.
HubRecvRelayBroadcast ==
    /\ hubPc = "select" /\ relayPc = "bcast"
    /\ StartSendToRoom(relayEvent[1])
    /\ relayPc' = "select" /\ relayEvent' = <<>>
    /\ UNCHANGED <<clients, rooms, users, hubClient, chanVars, connVars,
                   writeVars, relayTodo, bus, envVars, crash, overflow>>

MutantNotExcluded(c, e) == FALSE

Excluded(c, e) == e.exclude # NoClient /\ c = e.exclude

MutantNoEvict(c) == evict' = evict

\* go h.Unregister(client)
SpawnEvict(c) == evict' = [evict EXCEPT ![c] = @ + 1]

\* One target of sendToRoom: skipped, sent to (a panic if Send is closed), or
\* found full and handed to an eviction goroutine.
SendToRoomStep(c) ==
    /\ hubPc = "send" /\ c \in hubTodo
    /\ SendToRoomRest(hubTodo \ {c}, hubEvent[1])
    /\ \/ /\ Excluded(c, hubEvent[1])
          /\ UNCHANGED <<send, evict, overflow, crash>>
       \/ /\ ~Excluded(c, hubEvent[1]) /\ c \in closed
          /\ crash' = "send"
          /\ UNCHANGED <<send, evict, overflow>>
       \/ /\ ~Excluded(c, hubEvent[1]) /\ c \notin closed
          /\ HasSpace(c)
          /\ send' = [send EXCEPT ![c] = Append(@, hubEvent[1])]
          /\ UNCHANGED <<evict, overflow, crash>>
       \/ /\ ~Excluded(c, hubEvent[1]) /\ c \notin closed
          /\ ~HasSpace(c)
          /\ SpawnEvict(c)
          /\ overflow' = overflow \cup {c}
          /\ UNCHANGED <<send, crash>>
    /\ UNCHANGED <<clients, rooms, users, hubClient, closed, connVars,
                   writeVars, relayVars, envVars, owed>>

MutantNoClose == closed

CloseAll == closed \cup clients

\* case <-ctx.Done().  shutdown closes the Send of every registered client and
\* forgets clients and rooms, not users.
shutdown ==
    /\ hubPc = "select" /\ ctxDone /\ WriteLockFree
    /\ closed' = CloseAll
    /\ IF clients \cap closed # {}
       THEN crash' = "close" /\ UNCHANGED <<clients, rooms, hubPc>>
       ELSE /\ clients' = {}
            /\ rooms' = [r \in Room |-> {}]
            /\ hubPc' = "done"
            /\ UNCHANGED crash
    /\ UNCHANGED <<users, hubClient, hubEvent, hubTodo, send, evict, connVars,
                   writeVars, relayVars, envVars, auxVars>>

-----------------------------------------------------------------------------
(***************************************************************************)
(* A connection: the /ws handler and ReadPump.  Frames that the limiter    *)
(* drops, that do not parse, name an unknown event, name no room the       *)
(* client has, or whose Send fails leave this state unchanged.             *)
(***************************************************************************)

\* Upgrade, NewClient and the blocking hub.Register.
Connect(c) ==
    /\ rpc[c] = "none"
    /\ conn' = [conn EXCEPT ![c] = "open"]
    /\ rpc' = [rpc EXCEPT ![c] = "register"]
    /\ UNCHANGED <<hubVars, chanVars, pending, writeVars, relayVars, envVars,
                   crash, auxVars>>

\* The peer goes away or stops answering: reads and writes now fail, by an
\* error or at their deadline (pongWait, writeWait).
LoseConn(c) ==
    /\ "lose" \in Env /\ conn[c] = "open"
    /\ conn' = [conn EXCEPT ![c] = "lost"]
    /\ UNCHANGED <<hubVars, chanVars, rpc, pending, writeVars, relayVars,
                   envVars, crash, auxVars>>

\* Redis delivers only to a subscription that exists.
Publish(e) ==
    bus' = IF relayPc \in {"subscribe", "done"} THEN bus ELSE Append(bus, e)

\* The bound on originated events.
TakeId == nextId <= MaxEvents /\ nextId' = nextId + 1

\* The sender's Send stored and published the message; the pump goes on to
\* broadcast it on this node too.
handleSendMessage(c, r) ==
    /\ "send" \in Env
    /\ rpc[c] = "read" /\ conn[c] = "open" /\ TakeId
    /\ isMember(c, r)
    /\ Publish(Broadcast(nextId, "bus", r, NoClient))
    /\ rpc' = [rpc EXCEPT ![c] = "bcast"]
    /\ pending' = [pending EXCEPT ![c] = <<Broadcast(nextId, "local", r, NoClient)>>]
    /\ UNCHANGED <<hubVars, chanVars, conn, writeVars, relayPc, relayEvent,
                   relayTodo, ctxDone, crash, auxVars>>

\* The room a typing event is for: the one it names, or the only one the
\* client has.
TypingRoom(c, named) ==
    IF named # {} THEN named
    ELSE IF Len(RoomsOf[c]) = 1 THEN {RoomsOf[c][1]} ELSE {}

handleTypingEvent(c, named) ==
    /\ "typing" \in Env
    /\ rpc[c] = "read" /\ conn[c] = "open" /\ TakeId
    /\ \E r \in TypingRoom(c, named) :
          /\ isMember(c, r)
          /\ pending' = [pending EXCEPT ![c] = <<Broadcast(nextId, "local", r, c)>>]
    /\ rpc' = [rpc EXCEPT ![c] = "bcast"]
    /\ UNCHANGED <<hubVars, chanVars, conn, writeVars, relayVars, ctxDone,
                   crash, auxVars>>

MutantSkipUnregister == "close"

AfterReadError == "unreg"

\* ReadMessage fails: the loop ends and the deferred Unregister blocks.
ReadFail(c) ==
    /\ rpc[c] = "read" /\ conn[c] \in {"lost", "closed"}
    /\ rpc' = [rpc EXCEPT ![c] = AfterReadError]
    /\ UNCHANGED <<hubVars, chanVars, conn, pending, writeVars, relayVars,
                   envVars, crash, auxVars>>

ReadPumpReturn(c) ==
    /\ rpc[c] = "close"
    /\ rpc' = [rpc EXCEPT ![c] = "done"]
    /\ conn' = [conn EXCEPT ![c] = "closed"]
    /\ UNCHANGED <<hubVars, chanVars, pending, writeVars, relayVars, envVars,
                   crash, auxVars>>

-----------------------------------------------------------------------------
(***************************************************************************)
(* WritePump.                                                              *)
(***************************************************************************)

\* case message, ok := <-c.Send with ok; NextWriter and the first Write.
WriteRecv(c) ==
    /\ wpc[c] = "select" /\ send[c] # <<>>
    /\ frame' = [frame EXCEPT ![c] = <<Head(send[c])>>]
    /\ send' = [send EXCEPT ![c] = Tail(@)]
    /\ wpc' = [wpc EXCEPT ![c] = "count"]
    /\ UNCHANGED <<hubVars, closed, evict, connVars, wn, got, relayVars,
                   envVars, crash, auxVars>>

MutantFlushOneMore(c) == Len(send[c]) + 1

\* n := len(c.Send)
FlushCount(c) == Len(send[c])

WriteCount(c) ==
    /\ wpc[c] = "count"
    /\ wn' = [wn EXCEPT ![c] = FlushCount(c)]
    /\ wpc' = [wpc EXCEPT ![c] = "flush"]
    /\ UNCHANGED <<hubVars, chanVars, connVars, frame, got, relayVars, envVars,
                   crash, auxVars>>

MutantQueuedFirst(f, e) == <<e>> \o f

MutantOnlyLast(f, e) == <<e>>

WriteToFrame(f, e) == Append(f, e)

\* One turn of the flush loop.  A receive from an empty open channel would
\* block, from an empty closed one would write nothing.
WriteFlush(c) ==
    /\ wpc[c] = "flush" /\ wn[c] > 0
    /\ \/ /\ send[c] # <<>>
          /\ frame' = [frame EXCEPT ![c] = WriteToFrame(@, Head(send[c]))]
          /\ send' = [send EXCEPT ![c] = Tail(@)]
       \/ /\ send[c] = <<>> /\ c \in closed
          /\ UNCHANGED <<frame, send>>
    /\ wn' = [wn EXCEPT ![c] = @ - 1]
    /\ UNCHANGED <<hubVars, closed, evict, connVars, wpc, got, relayVars,
                   envVars, crash, auxVars>>

\* w.Close() hands the frame to the network, which takes it from a lost
\* connection too until the error shows.
WriteFrame(c) ==
    /\ wpc[c] = "flush" /\ wn[c] = 0 /\ conn[c] \in {"open", "lost"}
    /\ got' = [got EXCEPT ![c] = @ \o frame[c]]
    /\ frame' = [frame EXCEPT ![c] = <<>>]
    /\ wpc' = [wpc EXCEPT ![c] = "select"]
    /\ UNCHANGED <<hubVars, chanVars, connVars, wn, relayVars, envVars, crash,
                   auxVars>>

\* The pump returns; its deferred call closes the connection.
WritePumpReturn(c) ==
    /\ wpc' = [wpc EXCEPT ![c] = "done"]
    /\ wn' = [wn EXCEPT ![c] = 0]
    /\ conn' = [conn EXCEPT ![c] = "closed"]
    /\ UNCHANGED <<hubVars, chanVars, rpc, pending, frame, got, relayVars,
                   envVars, crash, auxVars>>

\* A write or a ping fails.
WriteFail(c) ==
    /\ wpc[c] \in {"select", "count", "flush"} /\ conn[c] \in {"lost", "closed"}
    /\ WritePumpReturn(c)

\* case message, ok := <-c.Send with !ok: closed and drained.
WriteClosed(c) ==
    /\ wpc[c] = "select" /\ send[c] = <<>> /\ c \in closed
    /\ WritePumpReturn(c)

-----------------------------------------------------------------------------
(***************************************************************************)
(* The relay.                                                              *)
(***************************************************************************)

\* PatternSubscribe; a failure ends the goroutine.
RelaySubscribe ==
    /\ relayPc = "subscribe"
    /\ relayPc' \in {"select"} \cup (IF "subfail" \in Env THEN {"done"} ELSE {})
    /\ UNCHANGED <<hubVars, chanVars, connVars, writeVars, relayEvent,
                   relayTodo, bus, envVars, crash, auxVars>>

\* A room message or message.deleted: re-encoded and handed to the hub.
RelayRecvRoom ==
    /\ relayPc = "select" /\ bus # <<>> /\ Head(bus).kind = "room"
    /\ bus' = Tail(bus)
    /\ relayPc' = "bcast" /\ relayEvent' = <<Head(bus)>>
    /\ UNCHANGED <<hubVars, chanVars, connVars, writeVars, relayTodo, envVars,
                   crash, auxVars>>

SendToUserRest(todo, e) ==
    /\ relayTodo' = todo
    /\ relayPc' = IF todo = {} THEN "select" ELSE "user"
    /\ relayEvent' = IF todo = {} THEN <<>> ELSE <<e>>

\* A user event: SendToUser takes the read lock, which a hub inside
\* sendToRoom shares, and ranges over h.users[userID]; it returns with its
\* last client.
RelayRecvUser ==
    /\ relayPc = "select" /\ bus # <<>> /\ Head(bus).kind = "user"
    /\ bus' = Tail(bus)
    /\ SendToUserRest(users[Head(bus).to], Head(bus))
    /\ owed' = [c \in Client |-> IF c \in users[Head(bus).to]
                                 THEN owed[c] \cup {Head(bus)} ELSE owed[c]]
    /\ UNCHANGED <<hubVars, chanVars, connVars, writeVars, envVars, crash,
                   overflow>>

\* One client of SendToUser: sent to (a panic if Send is closed), or found
\* full, closed and dropped from the users map only.
SendToUserStep(c) ==
    /\ relayPc = "user" /\ c \in relayTodo
    /\ SendToUserRest(relayTodo \ {c}, relayEvent[1])
    /\ \/ /\ c \in closed
          /\ crash' = "send"
          /\ UNCHANGED <<send, closed, users, overflow>>
       \/ /\ c \notin closed /\ HasSpace(c)
          /\ send' = [send EXCEPT ![c] = Append(@, relayEvent[1])]
          /\ UNCHANGED <<closed, users, overflow, crash>>
       \/ /\ c \notin closed /\ ~HasSpace(c)
          /\ closed' = closed \cup {c}
          /\ users' = [users EXCEPT ![UserOf[c]] = @ \ {c}]
          /\ overflow' = overflow \cup {c}
          /\ UNCHANGED <<send, crash>>
    /\ UNCHANGED <<clients, rooms, hubPc, hubClient, hubEvent, hubTodo, evict,
                   connVars, writeVars, bus, envVars, owed>>

MutantNoDone == FALSE

\* case <-ctx.Done(): the deferred closeFn ends the subscription.
RelayStop ==
    /\ relayPc = "select" /\ ctxDone
    /\ relayPc' = "done" /\ bus' = <<>>
    /\ UNCHANGED <<hubVars, chanVars, connVars, writeVars, relayEvent,
                   relayTodo, envVars, crash, auxVars>>

-----------------------------------------------------------------------------
(***************************************************************************)
(* The environment: SIGTERM, and events published by the API server or     *)
(* another websocket node.                                                 *)
(***************************************************************************)

Cancel ==
    /\ "cancel" \in Env /\ ~ctxDone /\ ctxDone' = TRUE
    /\ UNCHANGED <<hubVars, chanVars, connVars, writeVars, relayVars, nextId,
                   crash, auxVars>>

PublishElsewhere ==
    /\ TakeId
    /\ \/ "room" \in Env /\ \E r \in Room : Publish(Broadcast(nextId, "bus", r, NoClient))
       \/ "user" \in Env /\ \E u \in User : Publish(UserEvent(nextId, u))
    /\ UNCHANGED <<hubVars, chanVars, connVars, writeVars, relayPc, relayEvent,
                   relayTodo, ctxDone, crash, auxVars>>

-----------------------------------------------------------------------------
Alive == crash = "no"

HubStep ==
    \/ addClient \/ removeClient
    \/ \E c \in Client : SendToRoomStep(c)

HubSelect ==
    \/ shutdown
    \/ HubRecvRelayBroadcast
    \/ \E c \in Client : \/ HubRecvRegister(c) \/ HubRecvUnregister(c)
                         \/ HubRecvEvict(c) \/ HubRecvClientBroadcast(c)

ReadPump(c) == ReadFail(c) \/ ReadPumpReturn(c)

WritePump(c) ==
    \/ WriteRecv(c) \/ WriteCount(c) \/ WriteFlush(c) \/ WriteFrame(c)
    \/ WriteFail(c) \/ WriteClosed(c)

Relay ==
    \/ RelaySubscribe \/ RelayRecvRoom \/ RelayRecvUser \/ RelayStop
    \/ \E c \in Client : SendToUserStep(c)

Peer(c) ==
    \/ Connect(c) \/ LoseConn(c)
    \/ \E r \in Room : handleSendMessage(c, r)
    \/ \E named \in {{}} \cup {{r} : r \in Room} : handleTypingEvent(c, named)

Next ==
    /\ Alive
    /\ \/ HubStep
       \/ HubSelect
       \/ Relay
       \/ \E c \in Client : ReadPump(c) \/ WritePump(c) \/ Peer(c)
       \/ Cancel
       \/ PublishElsewhere

Spec == Init /\ [][Next]_vars

(***************************************************************************)
(* Goroutines that can run do run; a blocked sender is served in turn and  *)
(* a select with several ready cases picks among them at random, so no     *)
(* ready case waits for ever.  Users, peers, other nodes and SIGTERM owe   *)
(* nothing.                                                                *)
(***************************************************************************)
Fairness ==
    /\ WF_vars(Alive /\ HubStep)
    /\ SF_vars(Alive /\ shutdown)
    /\ SF_vars(Alive /\ HubRecvRelayBroadcast)
    /\ SF_vars(Alive /\ RelayStop)
    /\ WF_vars(Alive /\ Relay)
    /\ \A c \in Client :
          /\ WF_vars(Alive /\ ReadPump(c))
          /\ WF_vars(Alive /\ WritePump(c))
          /\ SF_vars(Alive /\ HubRecvRegister(c))
          /\ SF_vars(Alive /\ HubRecvUnregister(c))
          /\ SF_vars(Alive /\ HubRecvEvict(c))
          /\ SF_vars(Alive /\ HubRecvClientBroadcast(c))

FairSpec == Spec /\ Fairness
-----------------------------------------------------------------------------
(***************************************************************************)
(* Safety.                                                                 *)
(***************************************************************************)

\* hub.go: addClient, removeClient and shutdown keep the three maps in step.
\* While the hub runs, rooms holds exactly the registered clients of the room,
\* and users exactly the registered clients of the user minus those that
\* SendToUser has closed; a hub that has returned has no clients and no rooms.
RegistryConsistent ==
    Alive =>
    /\ \A r \in Room : rooms[r] = {c \in clients : isMember(c, r)}
    /\ hubPc # "done" =>
          \A u \in User : users[u] = {c \in clients : UserOf[c] = u} \ closed

\* The process panics on a Send channel (hub.go 84, 136, 149, 162) only after
\* some client's buffer was full at a send or, for a send on a closed channel,
\* after the hub shut down: connects, disconnects, write failures and the
\* races between them alone never do it, in whatever order they come.
CrashCause ==
    /\ crash = "close" => overflow # {}
    /\ crash = "send"  => overflow # {} \/ hubPc = "done"

\* sendToRoom drops an event for a full client and leaves the rest to the
\* goroutine it spawns: a registered client that lost an event is never
\* forgotten, its eviction is pending or under way or its Send is closed.
EvictionUnderway ==
    \A c \in clients \cap overflow :
        evict[c] > 0 \/ c \in closed \/ (hubPc = "remove" /\ hubClient = c)

\* WritePump reads n = len(c.Send) and then receives n times without a select
\* (client.go 157-165): whatever the hub, the relay and a close do meanwhile,
\* the n messages are there, so the loop never blocks and never writes the
\* empty message of a closed channel.
FlushWithinBuffer ==
    \A c \in Client : wpc[c] = "flush" => wn[c] <= Len(send[c])

\* What a client was written, is being written and has queued, in order.
Received(c) == got[c] \o frame[c] \o send[c]

EventsOf(c) == LET p == Received(c) IN {p[i] : i \in DOMAIN p}

\* Events the hub or the relay took up for c and has not yet tried to send.
InHand(c) ==
    {e \in owed[c] : \/ hubPc = "send" /\ c \in hubTodo /\ e = hubEvent[1]
                     \/ relayPc = "user" /\ c \in relayTodo /\ e = relayEvent[1]}

\* Up to an overflow, a client gets each event the hub took up for it exactly
\* once: between the map lookup, the per-client sends, the buffer and the
\* flush loop nothing is dropped, doubled or sent to an excluded client.
DeliveredOnce ==
    Alive => \A c \in Client \ overflow :
        /\ EventsOf(c) = owed[c] \ InHand(c)
        /\ Len(Received(c)) = Cardinality(EventsOf(c))

\* Two clients that both get two room events get them in the same order: the
\* hub goroutine serialises rooms although pumps and relay run concurrently.
RoomOrderAgreed ==
    \A c, d \in Client :
        LET p == Received(c)
            q == Received(d)
        IN  \A i, j \in DOMAIN p :
                i < j /\ p[i].kind = "room" /\ p[j].kind = "room" =>
                    \A k, l \in DOMAIN q : k < l => ~(q[k] = p[j] /\ q[l] = p[i])

-----------------------------------------------------------------------------
(***************************************************************************)
(* Liveness, under FairSpec.                                               *)
(***************************************************************************)

\* A registered client whose connection is lost or closed is taken out of the
\* hub (the deferred Unregister of ReadPump), unless the process ends.
DisconnectedIsRemoved ==
    \A c \in Client :
        (c \in clients /\ conn[c] \in {"lost", "closed"})
            ~> (c \notin clients \/ ~Alive)

\* "Slow consumer; drop and disconnect" (hub.go 151): a client that missed an
\* event has its connection closed, unless the process ends.
SlowConsumerDisconnected ==
    \A c \in Client : (c \in overflow) ~> (conn[c] = "closed" \/ ~Alive)

\* Once the context is cancelled the hub returns, and the connection of every
\* client registered at any time after is closed, unless the process ends.
ShutdownDisconnects ==
    /\ ctxDone ~> (hubPc = "done" \/ ~Alive)
    /\ \A c \in Client :
          (ctxDone /\ c \in clients) ~> (conn[c] = "closed" \/ ~Alive)

\* An event taken up for a client is written to it, unless its connection goes,
\* it is evicted, or the process ends.
EventuallyWritten ==
    \A c \in Client, i \in 1..MaxEvents :
        (\E e \in owed[c] : e.id = i)
            ~> (\/ \E k \in DOMAIN got[c] : got[c][k].id = i
                \/ conn[c] # "open" \/ c \in overflow \/ ~Alive)

\* Once the context is cancelled the relay returns and closes its subscription
\* (relay_test.go 113-118), with one exception: a relay that is handing an event
\* to BroadcastToRoom (hub.go 68) when the hub returns waits there for good.
RelayStopsUnlessStranded ==
    ctxDone ~> (relayPc = "done" \/ (relayPc = "bcast" /\ hubPc = "done") \/ ~Alive)

-----------------------------------------------------------------------------
(***************************************************************************)
(* What a comment says that the code does not do.                          *)
(***************************************************************************)

\* hub.go 151, "Slow consumer; drop and disconnect": evicting a client closes
\* its Send once, and costs nobody else the process.
NoDoubleClose == crash # "close"
=============================================================================
