------------------------------ MODULE Gateway ------------------------------
(***************************************************************************)
(* The websocket handshake (cmd/server/main.go, auth_helpers.go) beside    *)
(* the room service: both work on the same memberships, in two processes,  *)
(* without a lock.  The room service is Membership, which Rooms            *)
(* implements.                                                             *)
(*                                                                         *)
(* The rooms a connection is served are fixed at its handshake, one query  *)
(* per requested room.  Later changes of membership reach it only as       *)
(* room_added events, through Redis and the hub; how the hub delivers, and *)
(* how a connection ends, is the subject of Hub.  A handshake without a    *)
(* valid token or without a room_id is refused before it reads anything.   *)
(*                                                                         *)
(* Definitions named Mutant... are plausible bugs, never part of the       *)
(* specification: put in place of the definition that follows, each must   *)
(* break a property.                                                       *)
(***************************************************************************)
EXTENDS Membership, Sequences, Functions

CONSTANTS
    Conn,       \* connections, one handshake each
    Nobody,     \* no user
    Requested,  \* bound: the room_id lists a handshake may carry
    MaxFaults   \* bound: calls that fail

ASSUME GatewayAssumption ==
    /\ Nobody \notin User
    /\ Requested \subseteq Seq(Room) \ {<<>>}
    /\ MaxFaults \in Nat

VARIABLES
    gate,       \* the handler of each connection
    bus,        \* room_added events published and not yet relayed
    inbox,      \* rooms each connection was told of
    ever,       \* history: rooms the user was in at some moment of the handshake
    always,     \* history: rooms the user was in all through the handshake
    joined,     \* history: rooms the user came into while connected and is in
    hurt        \* history: connections one of whose own calls failed

gateHist == <<ever, always, joined>>
vars     == <<memberVars, gate, bus, inbox, gateHist, hurt>>

\* pc: "none"; "filter", "profile", "register" inside the handler; "served"
\* registered with the hub; "refused" answered with an error; "orphan" upgraded
\* and then left by the handler.
Handler == [pc : {"none", "filter", "profile", "register", "served", "refused", "orphan"},
            user : User \cup {Nobody}, raw : Seq(Room), todo : Seq(Room),
            allowed : Seq(Room)]

\* Types; whoever gets past the filter has a room.
TypeOK ==
    /\ state \in [Room -> {"new", "live", "gone"}]
    /\ members \in [Room -> SUBSET User]
    /\ due \subseteq Room \X User /\ told \subseteq Room \X User
    /\ faults \in 0..MaxFaults
    /\ gate \in [Conn -> Handler]
    /\ \A c \in Conn : gate[c].pc # "none" => gate[c].user \in User
    /\ \A c \in Conn : gate[c].pc \in {"profile", "register", "served", "orphan"} =>
          gate[c].allowed # <<>>
    /\ bus \subseteq Room \X User
    /\ inbox \in [Conn -> SUBSET Room]
    /\ ever \in [Conn -> SUBSET Room] /\ always \in [Conn -> SUBSET Room]
    /\ joined \in [Conn -> SUBSET Room]
    /\ hurt \subseteq Conn

Init ==
    /\ MemberInit
    /\ gate = [c \in Conn |-> [pc |-> "none", user |-> Nobody, raw |-> <<>>,
                               todo |-> <<>>, allowed |-> <<>>]]
    /\ bus = {}
    /\ inbox = [c \in Conn |-> {}]
    /\ ever = [c \in Conn |-> {}] /\ always = [c \in Conn |-> {}]
    /\ joined = [c \in Conn |-> {}]
    /\ hurt = {}

-----------------------------------------------------------------------------
(***************************************************************************)
(* The /ws handler.                                                        *)
(***************************************************************************)
Goto(c, pc) == gate' = [gate EXCEPT ![c].pc = pc]

\* One of the handler's own calls works, or fails within the bound.
Works == UNCHANGED <<faults, hurt>>

Fails(c) ==
    faults < MaxFaults /\ faults' = faults + 1 /\ hurt' = hurt \cup {c}

\* The token is valid and there is a room_id.
Handshake(c, u, raw) ==
    /\ gate[c].pc = "none"
    /\ gate' = [gate EXCEPT ![c] = [pc |-> "filter", user |-> u, raw |-> raw,
                                    todo |-> raw, allowed |-> <<>>]]
    /\ Works

MutantRoomExists(c, d) == state[d] = "live"

\* The user is among the members that ListMembers returned.
IsListed(c, d) == gate[c].user \in members[d]

MutantStopAtStranger(c) == IF IsListed(c, Head(gate[c].todo)) THEN Tail(gate[c].todo) ELSE <<>>

\* The rooms the loop goes on to, after a room of which the user is no member
\* or whose members could not be read too.
RestOf(c) == Tail(gate[c].todo)

\* One turn of FilterAuthorizedRooms.
FilterAuthorizedRooms(c) ==
    /\ gate[c].pc = "filter" /\ gate[c].todo # <<>>
    /\ LET d == Head(gate[c].todo)
       IN  \/ /\ Works
              /\ gate' = [gate EXCEPT ![c].todo = RestOf(c),
                              ![c].allowed = IF IsListed(c, d) THEN Append(@, d) ELSE @]
           \/ /\ Fails(c)
              /\ gate' = [gate EXCEPT ![c].todo = RestOf(c)]

MutantUpgradeAnyway(c) == TRUE

HasRooms(c) == gate[c].allowed # <<>>

\* Without a room the handshake is refused; else the connection is upgraded.
Upgrade(c) ==
    /\ gate[c].pc = "filter" /\ gate[c].todo = <<>>
    /\ \/ HasRooms(c) /\ Works /\ Goto(c, "profile")
       \/ HasRooms(c) /\ Fails(c) /\ Goto(c, "refused")
       \/ ~HasRooms(c) /\ Works /\ Goto(c, "refused")

\* The handler that cannot read the profile returns; the connection has been
\* hijacked by then and nobody closes it.
GetProfile(c) ==
    /\ gate[c].pc = "profile"
    /\ \/ Works /\ Goto(c, "register")
       \/ Fails(c) /\ Goto(c, "orphan")

\* NewClient and hub.Register, through to addClient.
Register(c) ==
    /\ gate[c].pc = "register" /\ Goto(c, "served")
    /\ Works

-----------------------------------------------------------------------------
(***************************************************************************)
(* Announcements.                                                          *)
(***************************************************************************)

MutantItsRoomOnly(e) ==
    {c \in Conn : /\ gate[c].pc = "served" /\ gate[c].user = e[2]
                  /\ e[1] \in Range(gate[c].allowed)}

\* The connections registered for the user of the event: Hub.users.
ConnsOf(e) == {c \in Conn : gate[c].pc = "served" /\ gate[c].user = e[2]}

\* The relay passes a user event to SendToUser.
RelayUserEvent(e) ==
    /\ bus' = bus \ {e}
    /\ inbox' = [c \in Conn |-> IF c \in ConnsOf(e) THEN inbox[c] \cup {e[1]} ELSE inbox[c]]
    /\ UNCHANGED <<memberVars, gate, hurt>>

-----------------------------------------------------------------------------
(***************************************************************************)
(* Steps of the room service, of a handler and of the relay.               *)
(***************************************************************************)
\* A room_added event is published with the announcement.
RoomStep ==
    /\ \/ \E e \in due : Announce(e) /\ bus' = bus \cup {e}
       \/ MemberChange /\ faults' <= MaxFaults /\ UNCHANGED bus
    /\ UNCHANGED <<gate, inbox, hurt>>

GateStep(c) ==
    /\ \/ \E u \in User, raw \in Requested : Handshake(c, u, raw)
       \/ FilterAuthorizedRooms(c) \/ Upgrade(c) \/ GetProfile(c) \/ Register(c)
    /\ UNCHANGED <<state, members, due, told, bus, inbox>>

\* The rooms the user of c is in.
MemberOf(c) == {d \in Room : gate[c].user \in members[d]}

Underway(c) == gate[c].pc \in {"filter", "profile", "register"}

Record ==
    /\ ever' = [c \in Conn |->
          IF gate[c].pc = "none" \/ Underway(c) THEN ever[c] \cup MemberOf(c)' ELSE ever[c]]
    /\ always' = [c \in Conn |->
          IF gate[c].pc = "none" THEN MemberOf(c)'
          ELSE IF Underway(c) THEN always[c] \cap MemberOf(c)' ELSE always[c]]
    /\ joined' = [c \in Conn |->
          IF gate[c].pc # "served" THEN {}
          ELSE (joined[c] \cup (MemberOf(c)' \ MemberOf(c))) \cap MemberOf(c)']

Next ==
    /\ \/ RoomStep
       \/ \E c \in Conn : GateStep(c)
       \/ \E e \in bus : RelayUserEvent(e)
    /\ Record

Spec == Init /\ [][Next]_vars

-----------------------------------------------------------------------------
(***************************************************************************)
(* Safety.                                                                 *)
(***************************************************************************)

\* README.md 147, "validates room membership during the upgrade handshake": the
\* members are read one room at a time while rooms change (auth_helpers.go
\* 26-42).  A room is served only if it was asked for and the user was in it at
\* some moment of the handshake.
ServedWereMembers ==
    \A c \in Conn : gate[c].pc = "served" =>
        Range(gate[c].allowed) \subseteq Range(gate[c].raw) \cap ever[c]

\* ... and a user who was in a room all through the handshake and asked for it
\* is served it: the connection is neither refused, nor left behind by the
\* handler (main.go 327), nor short of a room, unless one of its own calls failed.
MembersAreServed ==
    \A c \in Conn \ hurt :
        /\ gate[c].pc = "served" =>
              Range(gate[c].raw) \cap always[c] \subseteq Range(gate[c].allowed)
        /\ gate[c].pc \in {"refused", "orphan"} => Range(gate[c].raw) \cap always[c] = {}

\* The invariant of the handshake (main.go 292-339): types, and of the rooms
\* asked for those that the user was in all the time are served and those that
\* the user was never in are not.
HandshakeInv == TypeOK /\ ServedWereMembers /\ MembersAreServed

\* The rooms of a connection are fixed (client.go 58): somebody added to a room
\* while connected has only the room_added event to learn of it by.  When all is
\* quiet and no call has failed, every connection was told of every room its
\* user came into since it was registered, whatever overlapped.
AddedWhileConnected ==
    faults = 0 /\ bus = {} /\ due = {} =>
        \A c \in Conn : gate[c].pc = "served" => joined[c] \subseteq inbox[c]
=============================================================================
