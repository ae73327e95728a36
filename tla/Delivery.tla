----------------------------- MODULE Delivery -----------------------------
(***************************************************************************)
(* What a websocket node promises the connections it serves, without       *)
(* goroutines, channels, locks, buffers or frames.                         *)
(*                                                                         *)
(* An event is posted to the connections that are in its room, or are its  *)
(* user's, at that moment.  It is then due to each of them until it is     *)
(* delivered, which appends it to the stream of that connection, or        *)
(* missed, which the node answers by cutting the connection off.  Room     *)
(* events are posted one after the other: that is why any two connections  *)
(* see them in one order.  User events have an order of their own and may  *)
(* fall between.  Nobody joins or leaves while an event is due.            *)
(*                                                                         *)
(* Hub is the implementation; HubDelivery has the refinement mapping.      *)
(***************************************************************************)
EXTENDS Naturals, Sequences, Functions

CONSTANTS
    Client, Room, User,
    UserOf,     \* the user of a connection
    RoomsOf,    \* the rooms it joins, a sequence
    Event       \* records with at least kind, to and exclude

VARIABLES
    inRoom,     \* the connections in each room
    ofUser,     \* the connections of each user
    due,        \* events posted to a connection and not yet tried
    stream,     \* what was delivered to a connection, in order
    cut,        \* connections that missed an event
    alive       \* the process runs

vars == <<inRoom, ofUser, due, stream, cut, alive>>

TypeOK ==
    /\ inRoom \in [Room -> SUBSET Client]
    /\ ofUser \in [User -> SUBSET Client]
    /\ due \in [Client -> SUBSET Event]
    /\ stream \in [Client -> Seq(Event)]
    /\ cut \subseteq Client
    /\ alive \in BOOLEAN

Init ==
    /\ inRoom = [r \in Room |-> {}]
    /\ ofUser = [u \in User |-> {}]
    /\ due = [c \in Client |-> {}]
    /\ stream = [c \in Client |-> <<>>]
    /\ cut = {}
    /\ alive = TRUE

\* No event of this kind is due to anybody.
Settled(kind) == \A c \in Client : \A e \in due[c] : e.kind # kind

Quiet == \A c \in Client : due[c] = {}

-----------------------------------------------------------------------------
\* A connection starts with an empty stream: it gets nothing older than itself.
Join(c) ==
    /\ Quiet /\ stream[c] = <<>>
    /\ ofUser' = [ofUser EXCEPT ![UserOf[c]] = @ \cup {c}]
    /\ inRoom' = [r \in Room |-> IF r \in Range(RoomsOf[c])
                                 THEN inRoom[r] \cup {c} ELSE inRoom[r]]
    /\ UNCHANGED <<due, stream, cut, alive>>

Leave(c) ==
    /\ Quiet
    /\ ofUser' = [ofUser EXCEPT ![UserOf[c]] = @ \ {c}]
    /\ inRoom' = [r \in Room |-> inRoom[r] \ {c}]
    /\ UNCHANGED <<due, stream, cut, alive>>

\* The node stops: rooms have nobody left.
Stop ==
    /\ Quiet
    /\ inRoom' = [r \in Room |-> {}]
    /\ UNCHANGED <<ofUser, due, stream, cut, alive>>

\* No connection is sent an event twice.
Post(e, to) ==
    /\ Settled(e.kind)
    /\ \A c \in to : e \notin Range(stream[c])
    /\ due' = [c \in Client |-> IF c \in to THEN due[c] \cup {e} ELSE due[c]]
    /\ UNCHANGED <<inRoom, ofUser, stream, cut, alive>>

PostRoom(e) ==
    e.kind = "room" /\ e.to \in Room /\ Post(e, inRoom[e.to] \ {e.exclude})

PostUser(e) == e.kind = "user" /\ e.to \in User /\ Post(e, ofUser[e.to])

Deliver(c, e) ==
    /\ due' = [due EXCEPT ![c] = @ \ {e}]
    /\ stream' = [stream EXCEPT ![c] = Append(@, e)]
    /\ UNCHANGED <<inRoom, ofUser, cut, alive>>

\* Who misses a user event gets no further one; who misses a room event may
\* still get others until its turn to leave comes.
Miss(c, e) ==
    /\ due' = [due EXCEPT ![c] = @ \ {e}]
    /\ cut' = cut \cup {c}
    /\ ofUser' = IF e.kind = "user" THEN [ofUser EXCEPT ![UserOf[c]] = @ \ {c}]
                 ELSE ofUser
    /\ UNCHANGED <<inRoom, stream, alive>>

\* The process ends.  What was delivered stays delivered.  It may end for two
\* reasons only: somebody was cut off, or the node had stopped.
Abort ==
    /\ alive' = FALSE
    /\ cut # {} \/ \A r \in Room : inRoom[r] = {}
    /\ UNCHANGED <<stream, cut>>

\* The events of a step that posts one; posting to nobody changes nothing.
NewlyDue == UNION {due'[c] \ due[c] : c \in Client}

Next ==
    /\ alive
    /\ \/ \E c \in Client : Join(c) \/ Leave(c)
       \/ Stop
       \/ \E e \in NewlyDue : PostRoom(e) \/ PostUser(e)
       \/ \E c \in Client : \E e \in due[c] : Deliver(c, e) \/ Miss(c, e)
       \/ Abort

Spec == Init /\ [][Next]_vars
=============================================================================
