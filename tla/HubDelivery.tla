---------------------------- MODULE HubDelivery ----------------------------
(***************************************************************************)
(* The node of Hub implements Delivery.                                    *)
(*                                                                         *)
(* An event is due to a client from the range over the map (sendToRoom,    *)
(* SendToUser) until its turn there.  The stream of a client is everything *)
(* that entered its Send channel: what was written, is being written and   *)
(* is queued.  Channels, evictions, pumps and frames stutter.              *)
(***************************************************************************)
EXTENDS Hub, Functions

\* Events the hub or the relay has taken up for c and not tried to send.
Due(c) ==
    {e \in Range(hubEvent) : c \in hubTodo /\ ~Excluded(c, e)}
        \cup {e \in Range(relayEvent) : relayPc = "user" /\ c \in relayTodo}

due == [c \in Client |-> Due(c)]

stream == [c \in Client |-> Received(c)]

D == INSTANCE Delivery WITH
        inRoom <- rooms,
        ofUser <- users,
        cut    <- overflow,
        alive  <- Alive

\* What Delivery means for a connection: it receives each event it is owed once,
\* whichever of the two ways a message takes (client.go 222, relay.go 94), and
\* the events of a room in the order every other connection receives them.
StreamsAgree == DeliveredOnce /\ RoomOrderAgreed

\* Every behaviour of the node is one that Delivery allows: events go to those
\* who are in the room when the hub takes them up, minus the excluded client,
\* in one order of rooms, once, and never past a client that joins or leaves
\* meanwhile; who misses one is cut off (hub.go 66-167, client.go 130-178).
ImplementsDelivery == D!Spec
=============================================================================
