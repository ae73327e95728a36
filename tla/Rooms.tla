------------------------------- MODULE Rooms -------------------------------
(***************************************************************************)
(* The room service (internal/domain/rooms/service_impl.go) under its HTTP *)
(* handler: rooms and their members in Postgres, and the room_added        *)
(* announcements on Redis.                                                 *)
(*                                                                         *)
(* A request is a sequence of calls.  Each call is atomic and one action:  *)
(* Create alone is a transaction of several statements.  A call may fail;  *)
(* a user that does not exist is such a failure, by its foreign key.       *)
(* Roles are stored and never read, so a membership is a pair.             *)
(*                                                                         *)
(* Definitions named Mutant... are plausible bugs, never part of Spec: put *)
(* in place of the definition that follows, each must break a property.    *)
(***************************************************************************)
EXTENDS Naturals, FiniteSets

CONSTANTS
    User,
    Req,        \* request slots: how many requests are in flight at most
    None,       \* no row
    MaxRooms,   \* bound: rooms created
    MaxFaults   \* bound: calls that fail

ASSUME RoomsAssumption ==
    /\ MaxRooms \in Nat /\ MaxFaults \in Nat
    /\ None \notin User /\ None \notin [group : BOOLEAN, creator : User]
    /\ IsFiniteSet(User)    \* the rows of a table

Id  == 1..MaxRooms
Row == [group : BOOLEAN, creator : User]

VARIABLES
    room,       \* rooms table: a Row or None
    members,    \* room_members: the users of each room
    req,        \* the request in each slot
    nextId,
    faults,
    told,       \* history: <<room, user>> announced and not removed since
    acks,       \* history: how many requests were told they deleted the room
    kept,       \* history: rooms unchanged since an Ensure looked and found none
    elder       \* history: of a room made by an Ensure, the rooms unchanged since
                \* that Ensure looked

past == <<kept, elder>>
hist == <<told, acks, past>>
vars == <<room, members, req, nextId, faults, hist>>

Op == {"none", "Create", "Ensure", "AddMember", "RemoveMember", "Delete"}

Pc == {"idle", "find", "create", "insert", "getAdded", "tell", "remove",
       "get", "delete"}

\* user: creator, member or requester; users: members to create the room with,
\* then the members still to be told.
Request == [op : Op, pc : Pc, user : User \cup {None}, id : Id \cup {0},
            group : BOOLEAN, users : SUBSET User]

Idle == [op |-> "none", pc |-> "idle", user |-> None, id |-> 0,
         group |-> FALSE, users |-> {}]

PastOK == kept \in [Req -> SUBSET Id] /\ elder \in [Id -> SUBSET Id]

\* Types.
TypeOK ==
    /\ room \in [Id -> Row \cup {None}]
    /\ members \in [Id -> SUBSET User]
    /\ req \in [Req -> Request]
    /\ nextId \in 1..(MaxRooms + 1)
    /\ faults \in 0..MaxFaults
    /\ told \subseteq Id \X User
    /\ acks \in [Id -> Nat]
    /\ PastOK

Init ==
    /\ room = [d \in Id |-> None]
    /\ members = [d \in Id |-> {}]
    /\ req = [r \in Req |-> Idle]
    /\ nextId = 1
    /\ faults = 0
    /\ told = {}
    /\ acks = [d \in Id |-> 0]
    /\ kept = [r \in Req |-> {}] /\ elder = [d \in Id |-> {}]

-----------------------------------------------------------------------------
Return(r) == req' = [req EXCEPT ![r] = Idle]

\* Record that room d may have changed.
Touch(d) ==
    IF members'[d] = members[d] /\ room'[d] = room[d] THEN UNCHANGED past
    ELSE /\ kept' = [r \in Req |-> kept[r] \ {d}]
         /\ elder' = [e \in Id |-> IF e = d THEN {} ELSE elder[e] \ {d}]

Works == faults' = faults
Fails == faults < MaxFaults /\ faults' = faults + 1

\* The call fails without effect and the request returns the error.
FailAndReturn(r) ==
    /\ Fails /\ Return(r)
    /\ kept' = [kept EXCEPT ![r] = {}]
    /\ UNCHANGED <<room, members, nextId, told, acks, elder>>

-----------------------------------------------------------------------------
(***************************************************************************)
(* Requests arrive.  Blank names and identifiers, and a direct room with   *)
(* oneself, are refused before any call.                                   *)
(***************************************************************************)
Start(r, new) ==
    /\ req[r] = Idle
    /\ req' = [req EXCEPT ![r] = new]
    /\ UNCHANGED <<room, members, nextId, faults, hist>>

MutantKeepBlank(creator, named) == {creator} \cup named

\* The creator and everyone else named, once each; blank names are skipped.
buildMembers(creator, named) == {creator} \cup (named \ {None})

StartCreate(r, u, g, named) ==
    Start(r, [Idle EXCEPT !.op = "Create", !.pc = "create", !.user = u,
                          !.group = g, !.users = buildMembers(u, named)])

StartEnsure(r, u, peer) ==
    /\ u # peer
    /\ Start(r, [Idle EXCEPT !.op = "Ensure", !.pc = "find", !.user = u,
                             !.users = buildMembers(u, {peer})])

StartAddMember(r, d, u) ==
    Start(r, [Idle EXCEPT !.op = "AddMember", !.pc = "insert", !.user = u, !.id = d])

StartRemoveMember(r, d, u) ==
    Start(r, [Idle EXCEPT !.op = "RemoveMember", !.pc = "remove", !.user = u, !.id = d])

StartDelete(r, d, u) ==
    Start(r, [Idle EXCEPT !.op = "Delete", !.pc = "get", !.user = u, !.id = d])

-----------------------------------------------------------------------------
(***************************************************************************)
(* EnsureDirectRoom: look for the pair's room, and create one if there is  *)
(* none.                                                                   *)
(***************************************************************************)
\* The query: not a group, two members in all, and two different members
\* among the pair.
FindDirectRoom(pair) ==
    {d \in Id : /\ room[d] # None /\ ~room[d].group
                /\ Cardinality(members[d]) = 2
                /\ Cardinality(members[d] \cap pair) = 2}

NoneFound(r) ==
    /\ req' = [req EXCEPT ![r].pc = "create"]
    /\ kept' = [kept EXCEPT ![r] = {d \in Id : room[d] # None}]
    /\ UNCHANGED <<room, members, nextId, told, acks, elder>>

MutantErrorIsNone(r) == Fails /\ NoneFound(r)

\* Only ErrNoRows means that there is none; any other error is returned.
LookFails(r) == FailAndReturn(r)

EnsureDirectRoom(r) ==
    /\ req[r].pc = "find"
    /\ \/ /\ Works
          /\ \/ /\ FindDirectRoom(req[r].users) # {} /\ Return(r)
                /\ UNCHANGED <<room, members, nextId, hist>>
             \/ FindDirectRoom(req[r].users) = {} /\ NoneFound(r)
       \/ LookFails(r)

\* The transaction inserts the room and all its members, or nothing.
Create(r) ==
    /\ req[r].pc = "create"
    /\ \/ /\ Works
          /\ nextId \in Id /\ nextId' = nextId + 1
          /\ room' = [room EXCEPT ![nextId] =
                        [group |-> req[r].group, creator |-> req[r].user]]
          /\ members' = [members EXCEPT ![nextId] = req[r].users]
          /\ req' = [req EXCEPT ![r].pc = "tell", ![r].id = nextId]
          /\ kept' = [kept EXCEPT ![r] = {}]
          /\ elder' = [elder EXCEPT ![nextId] = kept[r]]
          /\ UNCHANGED <<told, acks>>
       \/ FailAndReturn(r)

MutantTellInvited(r) == req[r].users \ {req[r].user}

\* The members that publishRoomAdded has still to tell, in map order.
ToTell(r) == req[r].users

\* One publishRoomAdded; its error is ignored.
Tell(r) ==
    /\ req[r].pc = "tell"
    /\ \/ /\ ToTell(r) = {} /\ Works /\ Return(r)
          /\ UNCHANGED told
       \/ \E u \in ToTell(r) :
             /\ req' = [req EXCEPT ![r].users = @ \ {u}]
             /\ \/ Works /\ told' = told \cup {<<req[r].id, u>>}
                \/ Fails /\ UNCHANGED told
    /\ UNCHANGED <<room, members, nextId, acks, past>>

-----------------------------------------------------------------------------
(***************************************************************************)
(* Membership.                                                             *)
(***************************************************************************)

\* A membership needs its room (foreign key).
MutantNoForeignKey(d) == TRUE

RoomExists(d) == room[d] # None

AddMember(r) ==
    /\ req[r].pc = "insert"
    /\ \/ /\ Works
          /\ IF RoomExists(req[r].id)
             THEN /\ members' = [members EXCEPT ![req[r].id] = @ \cup {req[r].user}]
                  /\ req' = [req EXCEPT ![r].pc = "getAdded"]
                  /\ UNCHANGED room /\ Touch(req[r].id)
             ELSE Return(r) /\ UNCHANGED <<room, members, past>>
          /\ UNCHANGED <<nextId, told, acks>>
       \/ FailAndReturn(r)

\* The room is read again for the announcement; without it there is none.
GetAdded(r) ==
    /\ req[r].pc = "getAdded"
    /\ \/ /\ Works
          /\ IF room[req[r].id] = None THEN Return(r)
             ELSE req' = [req EXCEPT ![r].pc = "tell", ![r].users = {req[r].user}]
          /\ UNCHANGED <<room, members, nextId, hist>>
       \/ FailAndReturn(r)

RemoveMember(r) ==
    /\ req[r].pc = "remove"
    /\ \/ /\ Works /\ Return(r)
          /\ members' = [members EXCEPT ![req[r].id] = @ \ {req[r].user}]
          /\ told' = told \ {<<req[r].id, req[r].user>>}
          /\ UNCHANGED room /\ Touch(req[r].id)
          /\ UNCHANGED <<nextId, acks>>
       \/ FailAndReturn(r)

-----------------------------------------------------------------------------
(***************************************************************************)
(* Delete: read the room, compare its creator, then delete; memberships go *)
(* with it (ON DELETE CASCADE).                                            *)
(***************************************************************************)
MutantAnyone(r) == TRUE

MayDelete(r) == room[req[r].id].creator = req[r].user

GetByID(r) ==
    /\ req[r].pc = "get"
    /\ \/ /\ Works
          /\ \/ room[req[r].id] = None /\ Return(r)
             \/ room[req[r].id] # None /\ ~MayDelete(r) /\ Return(r)
             \/ /\ room[req[r].id] # None /\ MayDelete(r)
                /\ req' = [req EXCEPT ![r].pc = "delete"]
          /\ UNCHANGED <<room, members, nextId, hist>>
       \/ FailAndReturn(r)

MutantIgnoreCount(d) == TRUE

\* RowsAffected: the DELETE removed a row.
Affected(d) == room[d] # None

Delete(r) ==
    /\ req[r].pc = "delete"
    /\ \/ /\ Works /\ Return(r)
          /\ room' = [room EXCEPT ![req[r].id] = None]
          /\ members' = [members EXCEPT ![req[r].id] = {}]
          /\ acks' = IF Affected(req[r].id) THEN [acks EXCEPT ![req[r].id] = @ + 1]
                     ELSE acks
          /\ Touch(req[r].id)
          /\ UNCHANGED <<nextId, told>>
       \/ FailAndReturn(r)

-----------------------------------------------------------------------------
\* Any room that exists or existed may be named.
Arrive(r) ==
    \E u \in User :
        \/ /\ nextId \in Id
           /\ \/ \E g \in BOOLEAN, named \in SUBSET (User \cup {None}) :
                    StartCreate(r, u, g, named)
              \/ \E peer \in User : StartEnsure(r, u, peer)
        \/ \E d \in 1..(nextId - 1) : \/ StartAddMember(r, d, u)
                                      \/ StartRemoveMember(r, d, u)
                                      \/ StartDelete(r, d, u)

Call(r) ==
    \/ EnsureDirectRoom(r) \/ Create(r) \/ Tell(r)
    \/ AddMember(r) \/ GetAdded(r) \/ RemoveMember(r)
    \/ GetByID(r) \/ Delete(r)

Next == \E r \in Req : Arrive(r) \/ Call(r)

Spec == Init /\ [][Next]_vars

-----------------------------------------------------------------------------
(***************************************************************************)
(* Properties.                                                             *)
(***************************************************************************)

\* An AddMember that overlaps a Delete (service_impl.go 101, 203) leaves no
\* membership of a room that is gone, so the handshake of a websocket never
\* authorises one.
MembersHaveRoom == \A d \in Id : room[d] = None => members[d] = {}

\* EnsureDirectRoom (service_impl.go 160-165) looks for the pair's room by two
\* counts (room_repo.go 141-158) and then creates one, with nothing between the two
\* calls.  Whatever additions, removals and deletions came before, an Ensure never
\* makes a room for a pair beside one that was theirs when it looked: a second
\* private room of a pair takes a room made or changed between the two calls.
SecondRoomByOverlap ==
    \A e \in Id : \A d \in elder[e] : room[d].group \/ members[d] # members[e]

\* service_impl.go 81-85, 105-110: room_added is published after the rows are
\* written and, for an added member, after the room was read again.  Whatever
\* overlapped, when no request is under way and no call has failed every member
\* of every room has been told.
AddedAreTold ==
    faults = 0 /\ (\A r \in Req : req[r] = Idle) =>
        \A d \in Id : \A u \in members[d] : <<d, u>> \in told

\* The invariant of the tables and their announcements: types, memberships of
\* rooms that exist, and nobody left untold.
RoomInv == TypeOK /\ MembersHaveRoom /\ AddedAreTold

\* API_documentation.md 141, "Caller is not the room creator": the creator is
\* compared with a row read earlier (service_impl.go 192-203); still a room only
\* ever disappears by a request of its creator.
OnlyCreatorDeletes ==
    [][\A d \in Id :
          room[d] # None /\ room'[d] = None =>
              \E r \in Req : /\ req[r].op = "Delete" /\ req[r].id = d
                             /\ req[r].user = room[d].creator]_vars

\* API_documentation.md 142, "Room missing or already deleted": of the Deletes of
\* one room that all saw it (service_impl.go 192), at most one reports success.
DeletedOnce == \A d \in Id : acks[d] <= 1

-----------------------------------------------------------------------------
(***************************************************************************)
(* The service implements Membership: an announcement is owed from the     *)
(* insert until the request that made it publishes or returns.             *)
(***************************************************************************)
State(d) ==
    IF d >= nextId THEN "new" ELSE IF room[d] # None THEN "live" ELSE "gone"

Owed ==
    {e \in Id \X User : \E r \in Req :
        /\ req[r].id = e[1]
        /\ \/ req[r].pc = "tell" /\ e[2] \in req[r].users
           \/ req[r].pc = "getAdded" /\ req[r].user = e[2]}

M == INSTANCE Membership WITH
        Room  <- Id,
        state <- [d \in Id |-> State(d)],
        due   <- Owed

\* service_impl.go 60-259 with room_repo.go: whatever overlaps, memberships
\* change only by a creation, an addition to a room that exists, a removal or
\* the end of the room; and no announcement is forgotten by a request whose
\* calls all worked while the room is there.
ImplementsMembership == M!MemberSpec
=============================================================================
