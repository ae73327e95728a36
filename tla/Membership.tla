---------------------------- MODULE Membership ----------------------------
(***************************************************************************)
(* What the room service promises those who only look at memberships and   *)
(* listen for room_added: rooms come with their members, and whoever       *)
(* becomes a member is owed an announcement until it is made, the room is  *)
(* gone or a call has failed.                                              *)
(*                                                                         *)
(* Rooms implements this; Gateway is built on it.                          *)
(***************************************************************************)
EXTENDS Naturals

CONSTANTS Room, User

VARIABLES
    state,      \* each room: "new", "live" or "gone"
    members,    \* its members
    due,        \* <<room, user>>: announcements owed
    told,       \* <<room, user>>: announced, and not removed since
    faults      \* calls that have failed

memberVars == <<state, members, due, told, faults>>

MemberInit ==
    /\ state = [d \in Room |-> "new"]
    /\ members = [d \in Room |-> {}]
    /\ due = {}
    /\ told = {}
    /\ faults = 0

CreateRoom(d, us) ==
    /\ state[d] = "new"
    /\ state' = [state EXCEPT ![d] = "live"]
    /\ members' = [members EXCEPT ![d] = us]
    /\ due' = due \cup ({d} \X us)
    /\ UNCHANGED <<told, faults>>

\* Adding a member again owes it another announcement.
AddToRoom(d, u) ==
    /\ state[d] = "live"
    /\ members' = [members EXCEPT ![d] = @ \cup {u}]
    /\ due' = due \cup {<<d, u>>}
    /\ UNCHANGED <<state, told, faults>>

\* Two additions may owe the same announcement: it is then made twice.
Announce(e) ==
    /\ e \in due
    /\ told' = told \cup {e}
    /\ due' \in {due, due \ {e}}
    /\ UNCHANGED <<state, members, faults>>

RemoveFromRoom(d, u) ==
    /\ members' = [members EXCEPT ![d] = @ \ {u}]
    /\ told' = told \ {<<d, u>>}
    /\ UNCHANGED <<state, due, faults>>

DropRoom(d) ==
    /\ state[d] = "live"
    /\ state' = [state EXCEPT ![d] = "gone"]
    /\ members' = [members EXCEPT ![d] = {}]
    /\ UNCHANGED <<due, told, faults>>

\* The announcement is not made: the room is gone ...
Lapse(e) ==
    /\ e \in due /\ state[e[1]] = "gone"
    /\ due' = due \ {e}
    /\ UNCHANGED <<state, members, told, faults>>

\* ... or a call failed; a failed call may also have owed nothing.
Fault(es) ==
    /\ faults' = faults + 1
    /\ due' = due \ es
    /\ UNCHANGED <<state, members, told>>

\* Everything but an announcement.
MemberChange ==
    \/ \E d \in Room : \/ \E us \in SUBSET User : us # {} /\ CreateRoom(d, us)
                       \/ \E u \in User : AddToRoom(d, u) \/ RemoveFromRoom(d, u)
                       \/ DropRoom(d)
    \/ \E e \in due : Lapse(e)
    \/ \E es \in {{}} \cup {{e} : e \in due} : Fault(es)

MemberNext == MemberChange \/ \E e \in due : Announce(e)

MemberSpec == MemberInit /\ [][MemberNext]_memberVars
=============================================================================
