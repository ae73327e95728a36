---------------------------- MODULE RoomsProofs ----------------------------
(***************************************************************************)
(* Theorems about Rooms, for every set of users, any number of requests in *)
(* flight, rooms created and calls that fail.                              *)
(***************************************************************************)
EXTENDS Rooms, FiniteSetTheorems, TLAPS

(***************************************************************************)
(* The inductive invariant.                                                *)
(***************************************************************************)

\* What a request at each call has established.
RequestInv(q) ==
    /\ q.pc \in {"find", "create"} => q.user \in User /\ q.users # {}
    /\ q.pc = "find" => q.op = "Ensure"
    /\ q.op = "Ensure" /\ q.pc \in {"find", "create"} =>
          \E u, v \in User : u # v /\ q.users = {u, v}
    /\ q.pc \in {"insert", "getAdded", "tell", "remove", "get", "delete"} =>
          q.id \in Id /\ q.id < nextId
    /\ q.pc \in {"insert", "getAdded", "remove", "get", "delete"} => q.user \in User
    /\ q.pc \in {"get", "delete"} => q.op = "Delete"
    /\ q.pc = "delete" => room[q.id] = None \/ room[q.id].creator = q.user

\* An identifier not given out yet has left no trace.
FreshInv ==
    \A d \in Id : d >= nextId => room[d] = None /\ members[d] = {} /\ acks[d] = 0

\* The first Delete that is told so is the one that removed the room.
AckInv == \A d \in Id : acks[d] <= 1 /\ (room[d] # None => acks[d] = 0)

\* The announcements a request has still to make.
Owes(q) ==
    {e \in Id \X User :
        /\ q.id = e[1]
        /\ \/ q.pc = "tell" /\ e[2] \in q.users
           \/ q.pc = "getAdded" /\ q.user = e[2]}

\* Until a call fails, whoever is a member has been told or will be.
OwedInv ==
    faults = 0 => \A d \in Id : \A u \in members[d] : <<d, u>> \in told \cup Owed

IInv ==
    /\ TypeOK
    /\ MembersHaveRoom
    /\ \A r \in Req : RequestInv(req[r])
    /\ FreshInv
    /\ AckInv
    /\ OwedInv

-----------------------------------------------------------------------------
(***************************************************************************)
(* Requests.                                                               *)
(***************************************************************************)

\* The request in one slot changes.
LEMMA SlotType ==
  ASSUME TypeOK, NEW r \in Req, NEW q \in Request, req' = [req EXCEPT ![r] = q]
  PROVE  /\ req' \in [Req -> Request]
         /\ \A s \in Req : req'[s] = IF s = r THEN q ELSE req[s]
  BY DEF TypeOK

\* The requests that arrive.
LEMMA ArrivalType ==
  ASSUME NEW u \in User, NEW p \in Pc, NEW o \in Op, NEW d \in Id \cup {0},
         NEW g \in BOOLEAN, NEW us \in SUBSET User
  PROVE  /\ Idle \in Request
         /\ [op |-> o, pc |-> p, user |-> u, id |-> d, group |-> g, users |-> us]
               \in Request
  BY DEF Idle, Request, Op, Pc

\* What a slot holds when a request has arrived, and nothing else changes.
LEMMA ArriveStep ==
  ASSUME RoomsAssumption, TypeOK, NEW r \in Req, Arrive(r)
  PROVE  /\ UNCHANGED <<room, members, nextId, faults, told, acks>>
         /\ req[r] = Idle
         /\ \E q \in Request : /\ RequestInv(q)
                               /\ q.pc \notin {"tell", "getAdded"}
                               /\ req' = [req EXCEPT ![r] = q]
  <1> DEFINE Held(q) == /\ UNCHANGED <<room, members, nextId, faults, told, acks>>
                        /\ req[r] = Idle
                        /\ q \in Request /\ RequestInv(q)
                        /\ q.pc \notin {"tell", "getAdded"}
                        /\ req' = [req EXCEPT ![r] = q]
  <1> SUFFICES \E q : Held(q)
    OBVIOUS
  <1>1. PICK u \in User :
          \/ \E g \in BOOLEAN, named \in SUBSET (User \cup {None}) :
                StartCreate(r, u, g, named)
          \/ \E peer \in User : StartEnsure(r, u, peer)
          \/ \E d \in 1..(nextId - 1) : \/ StartAddMember(r, d, u)
                                        \/ StartRemoveMember(r, d, u)
                                        \/ StartDelete(r, d, u)
    BY DEF Arrive
  <1>2. ASSUME NEW named \in SUBSET (User \cup {None})
        PROVE  buildMembers(u, named) \in SUBSET User /\ buildMembers(u, named) # {}
    BY DEF buildMembers
  <1>3. ASSUME NEW g \in BOOLEAN, NEW named \in SUBSET (User \cup {None}),
               StartCreate(r, u, g, named)
        PROVE  \E q : Held(q)
    <2> DEFINE us == buildMembers(u, named)
    <2>1. us \in SUBSET User /\ us # {}
      BY <1>2
    <2> PICK q : q = [Idle EXCEPT !.op = "Create", !.pc = "create", !.user = u,
                          !.group = g, !.users = us]
      OBVIOUS
    <2>2. /\ UNCHANGED <<room, members, nextId, faults, told, acks>>
          /\ req[r] = Idle
          /\ req' = [req EXCEPT ![r] = q]
      BY <1>3 DEF StartCreate, Start, hist
    <2> HIDE DEF us
    <2>3. q = [op |-> "Create", pc |-> "create", user |-> u, id |-> 0,
               group |-> g, users |-> us]
      BY <2>1 DEF Idle
    <2>4. q \in Request
      BY <2>1, <2>3 DEF Request, Op, Pc
    <2>5. RequestInv(q) /\ q.pc \notin {"tell", "getAdded"}
      BY <2>1, <2>3 DEF RequestInv
    <2>6. Held(q)
      BY <2>2, <2>4, <2>5
    <2> QED
      BY <2>6
  <1>4. ASSUME NEW peer \in User, StartEnsure(r, u, peer)
        PROVE  \E q : Held(q)
    <2> DEFINE us == buildMembers(u, {peer})
    <2>1. us \in SUBSET User /\ us # {}
      BY <1>2
    <2> PICK q : q = [Idle EXCEPT !.op = "Ensure", !.pc = "find", !.user = u,
                          !.users = us]
      OBVIOUS
    <2>2. /\ UNCHANGED <<room, members, nextId, faults, told, acks>>
          /\ req[r] = Idle
          /\ req' = [req EXCEPT ![r] = q]
      BY <1>4 DEF StartEnsure, Start, hist
    <2> HIDE DEF us
    <2> PICK g \in BOOLEAN : g = FALSE
      OBVIOUS
    <2>3. q = [op |-> "Ensure", pc |-> "find", user |-> u, id |-> 0,
               group |-> g, users |-> us]
      BY <2>1 DEF Idle
    <2>4. q \in Request
      BY <2>1, <2>3 DEF Request, Op, Pc
    <2>5. \E v \in User : u # v /\ us = {u, v}
      BY <1>4, RoomsAssumption DEF StartEnsure, buildMembers, us
    <2>6. RequestInv(q) /\ q.pc \notin {"tell", "getAdded"}
      BY <2>1, <2>3, <2>5 DEF RequestInv
    <2>7. Held(q)
      BY <2>2, <2>4, <2>6
    <2> QED
      BY <2>7
  <1>5. ASSUME NEW d \in 1..(nextId - 1),
               \/ StartAddMember(r, d, u)
               \/ StartRemoveMember(r, d, u)
               \/ StartDelete(r, d, u)
        PROVE  \E q : Held(q)
    <2> DEFINE q(o, p) == [op |-> o, pc |-> p, user |-> u, id |-> d,
                           group |-> FALSE, users |-> {}]
    <2>1. d \in Id /\ d < nextId
      BY DEF RoomsAssumption, TypeOK, Id
    <2>2. StartAddMember(r, d, u) => Held(q("AddMember", "insert"))
      BY <2>1, ArrivalType DEF StartAddMember, Start, hist, Idle, RequestInv, Op, Pc
    <2>3. StartRemoveMember(r, d, u) => Held(q("RemoveMember", "remove"))
      BY <2>1, ArrivalType DEF StartRemoveMember, Start, hist, Idle, RequestInv, Op, Pc
    <2>4. StartDelete(r, d, u) => Held(q("Delete", "get"))
      BY <2>1, ArrivalType DEF StartDelete, Start, hist, Idle, RequestInv, Op, Pc
    <2> QED
      BY <1>5, <2>2, <2>3, <2>4
  <1> QED
    BY <1>1, <1>3, <1>4, <1>5

\* The announcements owed when the request in one slot changes.
LEMMA OwedStep ==
  ASSUME TypeOK, NEW r \in Req, NEW q \in Request, req' = [req EXCEPT ![r] = q]
  PROVE  /\ Owes(q) = Owes(req[r]) => Owed' = Owed
         /\ Owes(req[r]) = {} => Owed' = Owed \cup Owes(q)
         /\ \A e : Owes(q) = Owes(req[r]) \ {e} => Owed' \in {Owed, Owed \ {e}}
         /\ Owed \ Owes(req[r]) \subseteq Owed'
  <1> DEFINE Others == {e \in Id \X User : \E s \in Req \ {r} : e \in Owes(req[s])}
  <1>1. Owed = Others \cup Owes(req[r])
    BY DEF Owed, Owes
  <1>2. \A s \in Req : req'[s] = IF s = r THEN q ELSE req[s]
    BY SlotType
  <1>3. Owed' = {e \in Id \X User : \E s \in Req : e \in Owes(req'[s])}
    BY DEF Owed, Owes
  <1>4. Owed' = Others \cup Owes(q)
    <2>1. Owes(q) \subseteq Id \X User
      BY DEF Owes
    <2> QED
      BY <1>2, <1>3, <2>1
  <1> HIDE DEF Others
  <1>5. ASSUME NEW e, Owes(q) = Owes(req[r]) \ {e}
        PROVE  Owed' \in {Owed, Owed \ {e}}
    <2>1. CASE e \in Others
      BY <1>1, <1>4, <1>5, <2>1
    <2>2. CASE e \notin Others
      BY <1>1, <1>4, <1>5, <2>2
    <2> QED
      BY <2>1, <2>2
  <1> QED
    BY <1>1, <1>4, <1>5

-----------------------------------------------------------------------------
(***************************************************************************)
(* The invariant.                                                          *)
(***************************************************************************)
LEMMA InvInit == Init => IInv
  <1> SUFFICES ASSUME Init PROVE IInv
    OBVIOUS
  <1> USE RoomsAssumption DEF Init
  <1>1. TypeOK
    BY DEF TypeOK, PastOK, Id, Idle, Request, Op, Pc
  <1>2. MembersHaveRoom
    BY DEF MembersHaveRoom
  <1>3. \A r \in Req : RequestInv(req[r])
    BY DEF RequestInv, Idle
  <1>4. FreshInv /\ AckInv
    BY DEF FreshInv, AckInv
  <1>5. OwedInv
    BY DEF OwedInv
  <1> QED
    BY <1>1, <1>2, <1>3, <1>4, <1>5 DEF IInv

\* A step that changes only a request and perhaps counts a failed call.
LEMMA RequestStep ==
  ASSUME IInv, NEW r \in Req, NEW q \in Request, req' = [req EXCEPT ![r] = q],
         RequestInv(q), UNCHANGED <<room, members, nextId, told, acks>>,
         PastOK', faults' \in 0..MaxFaults,
         faults' = 0 => /\ faults = 0
                        /\ \A e \in Owed \ Owed' : e[2] \notin members[e[1]]
  PROVE  IInv'
  <1> USE DEF IInv
  <1>1. TypeOK'
    BY SlotType DEF TypeOK
  <1>2. MembersHaveRoom' /\ FreshInv' /\ AckInv'
    BY DEF MembersHaveRoom, FreshInv, AckInv
  <1>3. (\A s \in Req : RequestInv(req[s]))'
    BY SlotType DEF RequestInv
  <1>4. OwedInv'
    <2>1. ASSUME NEW d \in Id, NEW u \in members[d], faults' = 0
          PROVE  <<d, u>> \in told \cup Owed'
      <3>1. <<d, u>> \in told \cup Owed
        BY <2>1 DEF OwedInv
      <3>2. <<d, u>>[1] = d /\ <<d, u>>[2] = u
        OBVIOUS
      <3> QED
        BY <2>1, <3>1, <3>2
    <2> QED
      BY <2>1 DEF OwedInv
  <1> QED
    BY <1>1, <1>2, <1>3, <1>4

\* A call that fails ends its request.
LEMMA FailStep ==
  ASSUME RoomsAssumption, IInv, PastOK', NEW r \in Req, FailAndReturn(r)
  PROVE  IInv'
  <1>1. Idle \in Request /\ RequestInv(Idle)
    BY DEF Idle, Request, Op, Pc, RequestInv
  <1>2. faults' \in 0..MaxFaults /\ faults' # 0
    BY DEF FailAndReturn, Fails, IInv, TypeOK, RoomsAssumption
  <1>3. req' = [req EXCEPT ![r] = Idle] /\ UNCHANGED <<room, members, nextId, told, acks>>
    BY DEF FailAndReturn, Return
  <1> QED
    BY <1>1, <1>2, <1>3, RequestStep

\* The record of rooms kept its type.
LEMMA PastStep ==
  ASSUME TypeOK, [Next]_vars
  PROVE  PastOK'
  <1> USE DEF TypeOK, PastOK
  <1>1. ASSUME NEW d, Touch(d) PROVE PastOK'
    BY <1>1 DEF Touch, past
  <1>2. ASSUME NEW r \in Req, FailAndReturn(r) PROVE PastOK'
    BY <1>2 DEF FailAndReturn
  <1>3. CASE UNCHANGED past
    BY <1>3 DEF past
  <1>4. ASSUME NEW r \in Req, EnsureDirectRoom(r) PROVE PastOK'
    BY <1>2, <1>3, <1>4 DEF EnsureDirectRoom, LookFails, NoneFound, hist
  <1>5. ASSUME NEW r \in Req, Create(r) PROVE PastOK'
    BY <1>2, <1>5 DEF Create
  <1>6. ASSUME NEW r \in Req, AddMember(r) PROVE PastOK'
    BY <1>1, <1>2, <1>3, <1>6 DEF AddMember, Request
  <1>7. ASSUME NEW r \in Req, RemoveMember(r) \/ Delete(r) PROVE PastOK'
    BY <1>1, <1>2, <1>7 DEF RemoveMember, Delete
  <1>8. ASSUME NEW r \in Req, Arrive(r) PROVE PastOK'
    BY <1>3, <1>8 DEF Arrive, StartCreate, StartEnsure, StartAddMember, StartRemoveMember,
       StartDelete, Start, hist
  <1>9. ASSUME NEW r \in Req, Tell(r) \/ GetAdded(r) \/ GetByID(r) PROVE PastOK'
    BY <1>2, <1>3, <1>9 DEF Tell, GetAdded, GetByID, hist
  <1>10. CASE UNCHANGED vars
    BY <1>3, <1>10 DEF vars, hist
  <1> QED
    BY <1>4, <1>5, <1>6, <1>7, <1>8, <1>9, <1>10 DEF Next, Call

\* Every step keeps the invariant.
LEMMA InvStep == IInv /\ [Next]_vars => IInv'
  <1> SUFFICES ASSUME IInv, [Next]_vars PROVE IInv'
    OBVIOUS
  <1>0. PastOK'
    BY PastStep DEF IInv
  <1> USE RoomsAssumption, <1>0
  <1>1. Idle \in Request /\ RequestInv(Idle) /\ Owes(Idle) = {}
    BY DEF Idle, Request, Op, Pc, RequestInv, Owes
  <1>2. ASSUME NEW r \in Req, Arrive(r) PROVE IInv'
    <2>1. PICK q \in Request : /\ RequestInv(q)
                               /\ q.pc \notin {"tell", "getAdded"}
                               /\ req' = [req EXCEPT ![r] = q]
      BY <1>2, ArriveStep DEF IInv
    <2>2. req[r] = Idle /\ UNCHANGED <<room, members, nextId, faults, told, acks>>
      BY <1>2, ArriveStep DEF IInv
    <2>3. Owes(q) = {}
      BY <2>1 DEF Owes
    <2>4. Owed' = Owed
      BY <1>1, <2>1, <2>2, <2>3, OwedStep DEF IInv
    <2>5. faults' \in 0..MaxFaults /\ faults' = faults
      BY <2>2 DEF IInv, TypeOK
    <2> QED
      BY <2>1, <2>2, <2>4, <2>5, RequestStep
  <1>3. ASSUME NEW r \in Req, EnsureDirectRoom(r) PROVE IInv'
    <2> DEFINE q == [req[r] EXCEPT !.pc = "create"]
    <2>1. CASE FailAndReturn(r)
      BY <2>1, FailStep
    <2>2. CASE Works
      <3>1. /\ UNCHANGED <<room, members, nextId, told, acks>> /\ faults' = faults
            /\ \/ req' = [req EXCEPT ![r] = Idle]
               \/ req' = [req EXCEPT ![r] = q]
        BY <1>3, <2>2 DEF EnsureDirectRoom, LookFails, NoneFound, Works, FailAndReturn,
           Fails, Return, hist, IInv, TypeOK
      <3>2. q \in Request /\ RequestInv(q)
        BY <1>3 DEF EnsureDirectRoom, IInv, TypeOK, Request, Pc, RequestInv
      <3>3. Owes(req[r]) = {} /\ Owes(q) = {}
        BY <1>3 DEF EnsureDirectRoom, Owes, IInv, TypeOK, Request
      <3>4. Owed' = Owed /\ faults' \in 0..MaxFaults
        BY <1>1, <3>1, <3>2, <3>3, OwedStep DEF IInv, TypeOK
      <3> QED
        BY <1>1, <3>1, <3>2, <3>4, RequestStep
    <2> QED
      BY <1>3, <2>1, <2>2 DEF EnsureDirectRoom, LookFails
  <1>4. ASSUME NEW r \in Req, Create(r) PROVE IInv'
    <2> DEFINE q == [req[r] EXCEPT !.pc = "tell", !.id = nextId]
    <2>1. CASE FailAndReturn(r)
      BY <2>1, FailStep
    <2>2. CASE ~FailAndReturn(r)
      <3>1. /\ req[r].pc = "create" /\ faults' = faults
            /\ nextId \in Id /\ nextId' = nextId + 1
            /\ room' = [room EXCEPT ![nextId] =
                          [group |-> req[r].group, creator |-> req[r].user]]
            /\ members' = [members EXCEPT ![nextId] = req[r].users]
            /\ req' = [req EXCEPT ![r] = q]
            /\ UNCHANGED <<told, acks>>
        BY <1>4, <2>2 DEF Create, Works
      <3>2. req[r] \in Request /\ req[r].user \in User
        BY <3>1 DEF IInv, TypeOK, RequestInv
      <3>3. q \in Request
        BY <3>1, <3>2 DEF Request, Pc
      <3>4. [group |-> req[r].group, creator |-> req[r].user] \in Row
        BY <3>2 DEF Request, Row
      <3>5. TypeOK'
        <4>1. room' \in [Id -> Row \cup {None}] /\ members' \in [Id -> SUBSET User]
          BY <3>1, <3>2, <3>4 DEF IInv, TypeOK, Request
        <4>2. nextId' \in 1..(MaxRooms + 1)
          BY <3>1 DEF Id
        <4> QED
          BY <3>1, <3>3, <4>1, <4>2, SlotType DEF IInv, TypeOK
      <3>6. MembersHaveRoom' /\ FreshInv' /\ AckInv'
        BY <3>1, <3>4 DEF IInv, TypeOK, MembersHaveRoom, FreshInv, AckInv,
           Id, Row
      <3>7. (\A s \in Req : RequestInv(req[s]))'
        <4>1. ASSUME NEW s \in Req, s # r PROVE RequestInv(req[s])'
          <5>1. req'[s] = req[s]
            BY <3>1, <3>3, <4>1, SlotType DEF IInv
          <5>2. RequestInv(req[s])
            BY DEF IInv
          <5>3. \A d \in Id : d < nextId => d < nextId' /\ room'[d] = room[d]
            BY <3>1 DEF IInv, TypeOK, Id
          <5> QED
            BY <5>1, <5>2, <5>3 DEF RequestInv
        <4>2. RequestInv(req[r])'
          <5>1. req'[r] = q /\ q.pc = "tell" /\ q.id = nextId
            BY <3>1, <3>2, <3>3, SlotType DEF IInv, Request
          <5>2. nextId \in Id /\ nextId < nextId'
            BY <3>1 DEF Id
          <5> QED
            BY <5>1, <5>2 DEF RequestInv
        <4> QED
          BY <4>1, <4>2
      <3>8. OwedInv'
        <4>1. Owed' = Owed \cup Owes(q)
          <5>1. Owes(req[r]) = {}
            BY <3>1 DEF Owes
          <5> QED
            BY <3>1, <3>3, <5>1, OwedStep DEF IInv
        <4>2. ASSUME NEW d \in Id, NEW u \in members'[d], faults' = 0
              PROVE  <<d, u>> \in told \cup Owed'
          <5>1. CASE d = nextId
            <6>1. u \in req[r].users /\ u \in User
              BY <3>1, <3>2, <4>2, <5>1 DEF IInv, TypeOK, Request
            <6>2. <<d, u>> \in Owes(q)
              BY <3>2, <5>1, <6>1 DEF Owes, Request
            <6> QED
              BY <4>1, <6>2
          <5>2. CASE d # nextId
            BY <3>1, <4>1, <4>2, <5>2 DEF IInv, TypeOK, OwedInv
          <5> QED
            BY <5>1, <5>2
        <4> QED
          BY <3>1, <4>2 DEF OwedInv
      <3> QED
        BY <3>5, <3>6, <3>7, <3>8 DEF IInv
    <2> QED
      BY <2>1, <2>2
  <1>5. ASSUME NEW r \in Req, Tell(r) PROVE IInv'
    <2>1. CASE ToTell(r) = {} /\ Works /\ Return(r) /\ UNCHANGED told
      <3>1. Owes(req[r]) = {}
        BY <1>5, <2>1 DEF Tell, ToTell, Owes
      <3>2. /\ req' = [req EXCEPT ![r] = Idle] /\ faults' = faults
            /\ UNCHANGED <<room, members, nextId, told, acks>>
        BY <1>5, <2>1 DEF Tell, Works, Return
      <3>3. Owed' = Owed /\ faults' \in 0..MaxFaults
        BY <1>1, <3>1, <3>2, OwedStep DEF IInv, TypeOK
      <3> QED
        BY <1>1, <3>2, <3>3, RequestStep
    <2>2. ASSUME NEW u \in ToTell(r), req' = [req EXCEPT ![r].users = @ \ {u}],
                 \/ Works /\ told' = told \cup {<<req[r].id, u>>}
                 \/ Fails /\ UNCHANGED told
          PROVE  IInv'
      <3> DEFINE q == [req[r] EXCEPT !.users = @ \ {u}]
      <3>1. /\ req' = [req EXCEPT ![r] = q] /\ UNCHANGED <<room, members, nextId, acks>>
            /\ req[r].pc = "tell" /\ u \in req[r].users
        BY <1>5, <2>2 DEF Tell, ToTell
      <3>2. req[r] \in Request /\ RequestInv(req[r])
        BY DEF IInv, TypeOK
      <3>3. q \in Request /\ RequestInv(q) /\ u \in User
        BY <3>1, <3>2 DEF Request, RequestInv
      <3>4. faults' \in 0..MaxFaults /\ (faults' = 0 => faults = 0 /\ ~Fails)
        BY <2>2 DEF IInv, TypeOK, Works, Fails, RoomsAssumption
      <3>5. CASE Fails /\ UNCHANGED told
        BY <3>1, <3>3, <3>4, <3>5, RequestStep
      <3>6. CASE Works /\ told' = told \cup {<<req[r].id, u>>}
        <4>1. TypeOK'
          BY <3>1, <3>2, <3>3, <3>4, <3>6, SlotType DEF IInv, TypeOK, RequestInv
        <4>2. MembersHaveRoom' /\ FreshInv' /\ AckInv'
          BY <3>1 DEF IInv, MembersHaveRoom, FreshInv, AckInv
        <4>3. (\A s \in Req : RequestInv(req[s]))'
          BY <3>1, <3>3, SlotType DEF IInv, RequestInv
        <4>4. Owes(q) = Owes(req[r]) \ {<<req[r].id, u>>}
          BY <3>1, <3>2 DEF Owes, Request
        <4>5. Owed' \in {Owed, Owed \ {<<req[r].id, u>>}}
          BY <3>1, <3>3, <4>4, OwedStep DEF IInv
        <4>6. OwedInv'
          BY <3>1, <3>6, <4>5 DEF IInv, OwedInv, Works
        <4> QED
          BY <4>1, <4>2, <4>3, <4>6 DEF IInv
      <3> QED
        BY <2>2, <3>5, <3>6
    <2> QED
      BY <1>5, <2>1, <2>2 DEF Tell
  <1>6. ASSUME NEW r \in Req, AddMember(r) PROVE IInv'
    <2> DEFINE q == [req[r] EXCEPT !.pc = "getAdded"]
    <2>1. CASE FailAndReturn(r)
      BY <2>1, FailStep
    <2>2. CASE ~FailAndReturn(r)
      <3>1. /\ req[r].pc = "insert" /\ faults' = faults
            /\ UNCHANGED <<room, nextId, told, acks>>
        BY <1>6, <2>2 DEF AddMember, Works
      <3>2. /\ req[r] \in Request /\ req[r].user \in User
            /\ req[r].id \in Id /\ req[r].id < nextId
        BY <3>1 DEF IInv, TypeOK, RequestInv
      <3>3. Owes(req[r]) = {}
        BY <3>1 DEF Owes
      <3>4. CASE ~RoomExists(req[r].id)
        <4>1. req' = [req EXCEPT ![r] = Idle] /\ UNCHANGED members
          BY <1>6, <2>2, <3>4 DEF AddMember, Return
        <4>2. Owed' = Owed /\ faults' \in 0..MaxFaults
          BY <1>1, <3>1, <3>3, <4>1, OwedStep DEF IInv, TypeOK
        <4> QED
          BY <1>1, <3>1, <4>1, <4>2, RequestStep
      <3>5. CASE RoomExists(req[r].id)
        <4>1. /\ members' = [members EXCEPT ![req[r].id] = @ \cup {req[r].user}]
              /\ req' = [req EXCEPT ![r] = q]
          BY <1>6, <2>2, <3>5 DEF AddMember
        <4>2. q \in Request /\ RequestInv(q)
          BY <3>1, <3>2 DEF Request, Pc, RequestInv
        <4>3. TypeOK'
          BY <3>1, <3>2, <4>1, <4>2, SlotType DEF IInv, TypeOK
        <4>4. MembersHaveRoom' /\ FreshInv' /\ AckInv'
          BY <3>1, <3>2, <3>5, <4>1 DEF IInv, TypeOK, MembersHaveRoom, FreshInv, AckInv, RoomExists, Id
        <4>5. (\A s \in Req : RequestInv(req[s]))'
          BY <3>1, <4>1, <4>2, SlotType DEF IInv, RequestInv
        <4>6. Owes(q) = {<<req[r].id, req[r].user>>}
          BY <3>2 DEF Owes, Request
        <4>7. Owed' = Owed \cup {<<req[r].id, req[r].user>>}
          BY <3>3, <4>1, <4>2, <4>6, OwedStep DEF IInv
        <4>8. OwedInv'
          BY <3>1, <3>2, <4>1, <4>7 DEF IInv, TypeOK, OwedInv
        <4> QED
          BY <4>3, <4>4, <4>5, <4>8 DEF IInv
      <3> QED
        BY <3>4, <3>5
    <2> QED
      BY <2>1, <2>2
  <1>7. ASSUME NEW r \in Req, GetAdded(r) PROVE IInv'
    <2> DEFINE q == [req[r] EXCEPT !.pc = "tell", !.users = {req[r].user}]
    <2>1. CASE FailAndReturn(r)
      BY <2>1, FailStep
    <2>2. CASE ~FailAndReturn(r)
      <3>1. /\ req[r].pc = "getAdded" /\ faults' = faults
            /\ UNCHANGED <<room, members, nextId, told, acks>>
        BY <1>7, <2>2 DEF GetAdded, Works, hist
      <3>2. /\ req[r] \in Request /\ req[r].user \in User
            /\ req[r].id \in Id /\ req[r].id < nextId
        BY <3>1 DEF IInv, TypeOK, RequestInv
      <3>3. Owes(req[r]) = {<<req[r].id, req[r].user>>}
        BY <3>1, <3>2 DEF Owes
      <3>4. CASE room[req[r].id] = None
        <4>1. req' = [req EXCEPT ![r] = Idle]
          BY <1>7, <2>2, <3>4 DEF GetAdded, Return
        <4>2. Owed \ {<<req[r].id, req[r].user>>} \subseteq Owed'
          BY <1>1, <3>3, <4>1, OwedStep DEF IInv
        <4>3. \A e \in Owed \ Owed' : e[2] \notin members[e[1]]
          BY <3>2, <3>4, <4>2 DEF IInv, MembersHaveRoom
        <4> QED
          BY <1>1, <3>1, <4>1, <4>3, RequestStep DEF IInv, TypeOK
      <3>5. CASE room[req[r].id] # None
        <4>1. req' = [req EXCEPT ![r] = q]
          BY <1>7, <2>2, <3>5 DEF GetAdded
        <4>2. q \in Request /\ RequestInv(q)
          BY <3>1, <3>2 DEF Request, Pc, RequestInv
        <4>3. Owes(q) = Owes(req[r])
          BY <3>2, <3>3 DEF Owes, Request
        <4>4. Owed' = Owed
          BY <4>1, <4>2, <4>3, OwedStep DEF IInv
        <4> QED
          BY <3>1, <4>1, <4>2, <4>4, RequestStep DEF IInv, TypeOK
      <3> QED
        BY <3>4, <3>5
    <2> QED
      BY <2>1, <2>2
  <1>8. ASSUME NEW r \in Req, RemoveMember(r) PROVE IInv'
    <2>1. CASE FailAndReturn(r)
      BY <2>1, FailStep
    <2>2. CASE ~FailAndReturn(r)
      <3>1. /\ req[r].pc = "remove" /\ faults' = faults
            /\ req' = [req EXCEPT ![r] = Idle]
            /\ members' = [members EXCEPT ![req[r].id] = @ \ {req[r].user}]
            /\ told' = told \ {<<req[r].id, req[r].user>>}
            /\ UNCHANGED <<room, nextId, acks>>
        BY <1>8, <2>2 DEF RemoveMember, Works, Return
      <3>2. req[r].user \in User /\ req[r].id \in Id
        BY <3>1 DEF IInv, RequestInv
      <3>3. TypeOK'
        BY <1>1, <3>1, <3>2, SlotType DEF IInv, TypeOK
      <3>4. MembersHaveRoom' /\ FreshInv' /\ AckInv'
        BY <3>1, <3>2 DEF IInv, TypeOK, MembersHaveRoom, FreshInv, AckInv
      <3>5. (\A s \in Req : RequestInv(req[s]))'
        BY <1>1, <3>1, SlotType DEF IInv, RequestInv
      <3>6. Owed' = Owed
        <4>1. Owes(req[r]) = {}
          BY <3>1 DEF Owes
        <4> QED
          BY <1>1, <3>1, <4>1, OwedStep DEF IInv
      <3>7. OwedInv'
        BY <3>1, <3>2, <3>6 DEF IInv, TypeOK, OwedInv
      <3> QED
        BY <3>3, <3>4, <3>5, <3>7 DEF IInv
    <2> QED
      BY <2>1, <2>2
  <1>9. ASSUME NEW r \in Req, GetByID(r) PROVE IInv'
    <2> DEFINE q == [req[r] EXCEPT !.pc = "delete"]
    <2>1. CASE FailAndReturn(r)
      BY <2>1, FailStep
    <2>2. CASE ~FailAndReturn(r)
      <3>1. /\ req[r].pc = "get" /\ faults' = faults
            /\ UNCHANGED <<room, members, nextId, told, acks>>
        BY <1>9, <2>2 DEF GetByID, Works, hist
      <3>2. Owes(req[r]) = {}
        BY <3>1 DEF Owes
      <3>3. CASE req' = [req EXCEPT ![r] = Idle]
        <4>1. Owed' = Owed /\ faults' \in 0..MaxFaults
          BY <1>1, <3>1, <3>2, <3>3, OwedStep DEF IInv, TypeOK
        <4> QED
          BY <1>1, <3>1, <3>3, <4>1, RequestStep
      <3>4. CASE /\ MayDelete(r)
                 /\ req' = [req EXCEPT ![r] = q]
        <4>1. req[r] \in Request /\ RequestInv(req[r])
          BY DEF IInv, TypeOK
        <4>2. q \in Request /\ RequestInv(q)
          BY <3>1, <3>4, <4>1 DEF Request, Pc, RequestInv, MayDelete
        <4>3. Owes(q) = {}
          BY <4>1 DEF Owes, Request
        <4>4. Owed' = Owed /\ faults' \in 0..MaxFaults
          BY <3>1, <3>2, <3>4, <4>2, <4>3, OwedStep DEF IInv, TypeOK
        <4> QED
          BY <3>1, <3>4, <4>2, <4>4, RequestStep
      <3> QED
        BY <1>9, <2>2, <3>3, <3>4 DEF GetByID, Return
    <2> QED
      BY <2>1, <2>2
  <1>10. ASSUME NEW r \in Req, Delete(r) PROVE IInv'
    <2>1. CASE FailAndReturn(r)
      BY <2>1, FailStep
    <2>2. CASE ~FailAndReturn(r)
      <3> DEFINE d == req[r].id
      <3>1. /\ req[r].pc = "delete" /\ faults' = faults
            /\ req' = [req EXCEPT ![r] = Idle]
            /\ room' = [room EXCEPT ![d] = None]
            /\ members' = [members EXCEPT ![d] = {}]
            /\ acks' = IF Affected(d) THEN [acks EXCEPT ![d] = @ + 1] ELSE acks
            /\ UNCHANGED <<nextId, told>>
        BY <1>10, <2>2 DEF Delete, Works, Return
      <3>2. d \in Id /\ d < nextId
        BY <3>1 DEF IInv, RequestInv
      <3> HIDE DEF d
      <3>3. acks' \in [Id -> Nat]
        BY <3>1, <3>2 DEF IInv, TypeOK
      <3>4. TypeOK'
        BY <1>1, <3>1, <3>2, <3>3, SlotType DEF IInv, TypeOK
      <3>5. MembersHaveRoom' /\ FreshInv'
        <4>1. /\ room'[d] = None /\ members'[d] = {}
              /\ \A e \in Id \ {d} : /\ room'[e] = room[e] /\ members'[e] = members[e]
                                     /\ acks'[e] = acks[e]
          BY <3>1, <3>2 DEF IInv, TypeOK
        <4>2. ~(d >= nextId) /\ nextId' = nextId
          BY <3>1, <3>2 DEF IInv, TypeOK, Id
        <4> QED
          BY <4>1, <4>2 DEF IInv, MembersHaveRoom, FreshInv
      <3>6. AckInv'
        BY <3>1, <3>2 DEF IInv, TypeOK, AckInv, Affected
      <3>7. (\A s \in Req : RequestInv(req[s]))'
        <4>1. \A e \in Id : room'[e] = room[e] \/ room'[e] = None
          BY <3>1, <3>2 DEF IInv, TypeOK
        <4>2. \A s \in Req : req'[s] = Idle \/ req'[s] = req[s]
          BY <1>1, <3>1, SlotType DEF IInv
        <4> QED
          BY <1>1, <3>1, <4>1, <4>2 DEF IInv, RequestInv
      <3>8. Owed' = Owed
        <4>1. Owes(req[r]) = {}
          BY <3>1 DEF Owes
        <4> QED
          BY <1>1, <3>1, <4>1, OwedStep DEF IInv
      <3>9. OwedInv'
        BY <3>1, <3>2, <3>8 DEF IInv, TypeOK, OwedInv
      <3> QED
        BY <3>4, <3>5, <3>6, <3>7, <3>9 DEF IInv
    <2> QED
      BY <2>1, <2>2
  <1>11. CASE UNCHANGED vars
    BY <1>11 DEF IInv, TypeOK, MembersHaveRoom, RequestInv, FreshInv, AckInv, OwedInv,
       Owed, vars, hist
  <1> QED
    BY <1>2, <1>3, <1>4, <1>5, <1>6, <1>7, <1>8, <1>9, <1>10, <1>11 DEF Next, Call

\* In every reachable state, whatever the requests do and however many fail.
THEOREM Invariant == Spec => []IInv
  BY InvInit, InvStep, PTL DEF Spec

(***************************************************************************)
(* The tables (RoomInv).  Beside the types: no membership outlives its     *)
(* room (an AddMember that overlaps a Delete, service_impl.go 101, 203),   *)
(* and with no request under way and no failed call every member of every  *)
(* room has been told of it (lines 81-85, 105-110).                        *)
(***************************************************************************)
THEOREM TablesConsistent == Spec => []RoomInv
  <1>1. IInv => RoomInv
    <2> SUFFICES ASSUME IInv PROVE RoomInv
      OBVIOUS
    <2>1. AddedAreTold
      <3>1. ASSUME \A r \in Req : req[r] = Idle PROVE Owed = {}
        BY <3>1 DEF Owed, Idle
      <3> QED
        BY <3>1 DEF IInv, OwedInv, AddedAreTold
    <2> QED
      BY <2>1 DEF IInv, RoomInv
  <1> QED
    BY <1>1, Invariant, PTL

(***************************************************************************)
(* Deletion.  Of the Deletes of one room, that may all have read it        *)
(* (service_impl.go 192) before the first removed it, one reports success. *)
(***************************************************************************)
THEOREM OneDeleteSucceeds == Spec => []DeletedOnce
  <1>1. IInv => DeletedOnce
    BY DEF IInv, AckInv, DeletedOnce
  <1> QED
    BY <1>1, Invariant, PTL

\* A room disappears only by a request of its creator, although the creator is
\* compared with a row read earlier (service_impl.go 192-203).
THEOREM CreatorDeletes == Spec => OnlyCreatorDeletes
  <1>1. IInv /\ [Next]_vars =>
          [\A d \in Id :
              room[d] # None /\ room'[d] = None =>
                  \E r \in Req : /\ req[r].op = "Delete" /\ req[r].id = d
                                 /\ req[r].user = room[d].creator]_vars
    <2> SUFFICES ASSUME IInv, Next, NEW d \in Id, room[d] # None, room'[d] = None
                 PROVE  \E r \in Req : /\ req[r].op = "Delete" /\ req[r].id = d
                                       /\ req[r].user = room[d].creator
      OBVIOUS
    <2>1. PICK r \in Req : Arrive(r) \/ Call(r)
      BY DEF Next
    <2>2. room' # room
      OBVIOUS
    <2>3. CASE Create(r)
      <3>1. /\ nextId \in Id
            /\ room' = [room EXCEPT ![nextId] =
                          [group |-> req[r].group, creator |-> req[r].user]]
        BY <2>2, <2>3 DEF Create, FailAndReturn
      <3>2. d # nextId
        BY <3>1 DEF IInv, FreshInv, TypeOK, Id
      <3> QED
        BY <3>1, <3>2 DEF IInv, TypeOK
    <2>4. CASE Delete(r)
      <3>1. req[r].pc = "delete" /\ room' = [room EXCEPT ![req[r].id] = None]
        BY <2>2, <2>4 DEF Delete, FailAndReturn
      <3>2. d = req[r].id
        BY <3>1 DEF IInv, TypeOK
      <3> QED
        BY <3>1, <3>2 DEF IInv, RequestInv
    <2>5. Create(r) \/ Delete(r)
      <3>1. ~Arrive(r)
        BY <2>2, RoomsAssumption, ArriveStep DEF IInv
      <3> QED
        BY <2>1, <2>2, <3>1 DEF Call, EnsureDirectRoom, LookFails, NoneFound, Tell,
           AddMember, GetAdded, RemoveMember, GetByID, FailAndReturn
    <2> QED
      BY <2>3, <2>4, <2>5
  <1> QED
    BY <1>1, Invariant, PTL DEF Spec, OnlyCreatorDeletes

(***************************************************************************)
(* The pair's private room.                                                *)
(***************************************************************************)

\* A set of two, of which two are in a pair, is the pair.
LEMMA PairByCount ==
  ASSUME NEW S, IsFiniteSet(S), NEW pair, IsFiniteSet(pair), Cardinality(pair) = 2
  PROVE  Cardinality(S) = 2 /\ Cardinality(S \cap pair) = 2 <=> S = pair
  <1>1. ASSUME Cardinality(S) = 2, Cardinality(S \cap pair) = 2
        PROVE  S = pair
    <2>1. S \cap pair \in SUBSET S /\ S \cap pair \in SUBSET pair
      OBVIOUS
    <2>2. S = S \cap pair
      BY <1>1, <2>1, FS_Subset
    <2>3. pair = S \cap pair
      BY <1>1, <2>1, FS_Subset
    <2> QED
      BY <2>2, <2>3
  <1>2. ASSUME S = pair
        PROVE  Cardinality(S) = 2 /\ Cardinality(S \cap pair) = 2
    <2>1. S \cap pair = pair
      BY <1>2
    <2> QED
      BY <1>2, <2>1
  <1> QED
    BY <1>1, <1>2

\* Two users make a pair.
LEMMA TwoArePair ==
  ASSUME NEW u, NEW v, u # v
  PROVE  IsFiniteSet({u, v}) /\ Cardinality({u, v}) = 2
  <1>1. {u, v} = {u} \cup {v} /\ v \notin {u}
    OBVIOUS
  <1>2. IsFiniteSet({u}) /\ Cardinality({u}) = 1
    BY FS_Singleton
  <1>3. IsFiniteSet({u} \cup {v}) /\ Cardinality({u} \cup {v}) = Cardinality({u}) + 1
    BY <1>1, <1>2, FS_AddElement
  <1> QED
    BY <1>1, <1>2, <1>3

\* The two counts of the query (room_repo.go 141-158) single out the rooms whose
\* members are exactly the pair.
LEMMA CountsFindThePair ==
  ASSUME RoomsAssumption, TypeOK, NEW u \in User, NEW v \in User, u # v
  PROVE  FindDirectRoom({u, v}) =
            {d \in Id : room[d] # None /\ ~room[d].group /\ members[d] = {u, v}}
  <1> PICK pair : pair = {u, v}
    OBVIOUS
  <1>1. IsFiniteSet(pair) /\ Cardinality(pair) = 2
    BY TwoArePair
  <1>2. \A d \in Id : IsFiniteSet(members[d])
    BY FS_Subset DEF RoomsAssumption, TypeOK
  <1>3. \A d \in Id : Cardinality(members[d]) = 2
                        /\ Cardinality(members[d] \cap pair) = 2
                      <=> members[d] = pair
    BY <1>1, <1>2, PairByCount
  <1>4. FindDirectRoom(pair) =
          {d \in Id : room[d] # None /\ ~room[d].group /\ members[d] = pair}
    BY <1>3 DEF FindDirectRoom
  <1> QED
    BY <1>4

\* Room d is there and not the private room of the users in us.
NotTheirs(d, us) ==
    d < nextId /\ room[d] # None /\ (room[d].group \/ members[d] # us)

\* Rooms are recorded for an Ensure that found none, and none of them is the pair's.
KeptInv ==
    \A r \in Req :
        /\ kept[r] # {} => req[r].op = "Ensure" /\ req[r].pc = "create"
        /\ \A d \in kept[r] : NotTheirs(d, req[r].users)

\* The rooms recorded for a room that an Ensure made are not its pair's.
ElderInv ==
    \A e \in Id : \A d \in elder[e] : e < nextId /\ NotTheirs(d, members[e])

PastInv == KeptInv /\ ElderInv

LEMMA PastInit == Init => PastInv
  BY DEF Init, PastInv, KeptInv, ElderInv, Idle

\* A step of request r that keeps nothing for r, and for the others only rooms that
\* it does not change.
LEMMA KeptStep ==
  ASSUME KeptInv, NEW r \in Req, nextId \in Nat, nextId' \in Nat, nextId <= nextId',
         kept'[r] = {},
         \A s \in Req \ {r} :
            /\ req'[s] = req[s] /\ kept'[s] \subseteq kept[s]
            /\ \A c \in kept'[s] : c \in Nat /\ room'[c] = room[c]
                                   /\ members'[c] = members[c]
  PROVE  KeptInv'
  <1>1. ASSUME NEW s \in Req, NEW d \in kept'[s]
        PROVE  NotTheirs(d, req[s].users)' /\ req'[s].op = "Ensure" /\ req'[s].pc = "create"
    <2>1. s # r /\ d \in kept[s]
      BY <1>1
    <2>2. req'[s] = req[s] /\ d \in Nat /\ room'[d] = room[d] /\ members'[d] = members[d]
      BY <1>1, <2>1
    <2>3. NotTheirs(d, req[s].users) /\ req[s].op = "Ensure" /\ req[s].pc = "create"
      BY <2>1 DEF KeptInv
    <2> QED
      BY <2>2, <2>3 DEF NotTheirs
  <1> QED
    BY <1>1 DEF KeptInv

LEMMA ElderStep ==
  ASSUME ElderInv, nextId \in Nat, nextId' \in Nat, nextId <= nextId',
         \A e \in Id : /\ elder'[e] \subseteq elder[e]
                       /\ \A c \in elder'[e] : /\ c \in Nat /\ room'[c] = room[c]
                                               /\ members'[c] = members[c]
                                               /\ members'[e] = members[e]
  PROVE  ElderInv'
  <1>1. ASSUME NEW e \in Id, NEW d \in elder'[e]
        PROVE  e < nextId' /\ NotTheirs(d, members[e])'
    <2>1. d \in elder[e] /\ d \in Nat /\ e \in Nat
      BY <1>1 DEF Id
    <2>2. /\ room'[d] = room[d] /\ members'[d] = members[d]
          /\ members'[e] = members[e]
      BY <1>1
    <2>3. e < nextId /\ NotTheirs(d, members[e])
      BY <2>1 DEF ElderInv
    <2> QED
      BY <2>1, <2>2, <2>3 DEF NotTheirs
  <1> QED
    BY <1>1 DEF ElderInv

\* A step that changes no room and records nothing.
LEMMA QuietPast ==
  ASSUME IInv, KeptInv, ElderInv, NEW r \in Req, NEW q \in Request,
         req' = [req EXCEPT ![r] = q], UNCHANGED <<room, members, nextId, elder>>,
         \/ req[r].pc # "create" /\ UNCHANGED kept
         \/ kept' = [kept EXCEPT ![r] = {}]
  PROVE  KeptInv' /\ ElderInv'
  <1>1. \A s \in Req : req'[s] = IF s = r THEN q ELSE req[s]
    BY SlotType DEF IInv
  <1>2. kept'[r] = {} /\ \A s \in Req \ {r} : kept'[s] = kept[s]
    BY DEF KeptInv, IInv, TypeOK, PastOK
  <1>3. nextId \in Nat /\ \A s \in Req : kept[s] \subseteq Nat /\ elder \in [Id -> SUBSET Nat]
    BY DEF IInv, TypeOK, PastOK, Id
  <1> QED
    BY <1>1, <1>2, <1>3, KeptStep, ElderStep

\* A recorded change of room d, by a request for which nothing is recorded.
LEMMA TouchPast ==
  ASSUME IInv, KeptInv, ElderInv, NEW r \in Req, NEW q \in Request,
         req' = [req EXCEPT ![r] = q], req[r].pc # "create", NEW d \in Id,
         UNCHANGED room \/ room' = [room EXCEPT ![d] = None],
         NEW us, members' = [members EXCEPT ![d] = us],
         UNCHANGED nextId, Touch(d)
  PROVE  KeptInv' /\ ElderInv'
  <1>1. \A s \in Req : req'[s] = IF s = r THEN q ELSE req[s]
    BY SlotType DEF IInv
  <1>2. kept[r] = {}
    BY DEF KeptInv
  <1>3. \A c \in Id : c # d => room'[c] = room[c] /\ members'[c] = members[c]
    BY DEF IInv, TypeOK
  <1>4. /\ nextId \in Nat /\ Id \subseteq Nat
        /\ kept \in [Req -> SUBSET Id] /\ elder \in [Id -> SUBSET Id]
    BY DEF IInv, TypeOK, PastOK, Id
  <1>5. CASE members'[d] = members[d] /\ room'[d] = room[d]
    <2>1. UNCHANGED <<kept, elder>>
      BY <1>5 DEF Touch, past
    <2>2. \A c \in Id : room'[c] = room[c] /\ members'[c] = members[c]
      BY <1>3, <1>5
    <2>3. KeptInv'
      <3> HIDE DEF KeptInv
      <3> QED
        BY <1>1, <1>2, <1>4, <2>1, <2>2, KeptStep
    <2>4. ElderInv'
      BY <1>4, <2>1, <2>2, ElderStep
    <2> QED
      BY <2>3, <2>4
  <1>6. CASE ~(members'[d] = members[d] /\ room'[d] = room[d])
    <2>1. /\ kept' = [s \in Req |-> kept[s] \ {d}]
          /\ elder' = [e \in Id |-> IF e = d THEN {} ELSE elder[e] \ {d}]
      BY <1>6 DEF Touch
    <2>2. KeptInv'
      BY <1>1, <1>2, <1>3, <1>4, <2>1, KeptStep
    <2>3. ASSUME NEW e \in Id
          PROVE  /\ elder'[e] \subseteq elder[e]
                 /\ \A c \in elder'[e] : /\ c \in Nat /\ room'[c] = room[c]
                                         /\ members'[c] = members[c]
                                         /\ members'[e] = members[e]
      <3>1. elder'[e] = IF e = d THEN {} ELSE elder[e] \ {d}
        BY <2>1
      <3>2. elder[e] \subseteq Id
        BY <1>4
      <3> QED
        BY <1>3, <1>4, <3>1, <3>2
    <2>4. ElderInv'
      BY <1>4, <2>3, ElderStep
    <2> QED
      BY <2>2, <2>4
  <1> QED
    BY <1>5, <1>6

LEMMA PastInvStep == IInv /\ PastInv /\ [Next]_vars => PastInv'
  <1> SUFFICES ASSUME IInv, PastInv, [Next]_vars PROVE PastInv'
    OBVIOUS
  <1> USE RoomsAssumption
  <1>1. Idle \in Request
    BY DEF Idle, Request, Op, Pc
  <1>2. ASSUME NEW r \in Req, Arrive(r) PROVE PastInv'
    <2>1. PICK q \in Request : req' = [req EXCEPT ![r] = q]
      BY <1>2, ArriveStep DEF IInv
    <2>2. UNCHANGED <<room, members, nextId>> /\ req[r].pc # "create"
      BY <1>2, ArriveStep DEF IInv, Idle
    <2>3. UNCHANGED <<kept, elder>>
      BY <1>2 DEF Arrive, StartCreate, StartEnsure, StartAddMember, StartRemoveMember,
         StartDelete, Start, hist, past
    <2> QED
      BY <2>1, <2>2, <2>3, QuietPast DEF PastInv
  <1>3. ASSUME NEW r \in Req, FailAndReturn(r) PROVE PastInv'
    BY <1>1, <1>3, QuietPast DEF FailAndReturn, Return, PastInv
  <1>4. ASSUME NEW r \in Req, req[r].pc # "create", NEW q \in Request,
               req' = [req EXCEPT ![r] = q],
               UNCHANGED <<room, members, nextId, past>>
        PROVE  PastInv'
    BY <1>4, QuietPast DEF past, PastInv
  <1>5. \A r \in Req : req[r] \in Request /\ RequestInv(req[r])
    BY DEF IInv, TypeOK
  <1>6. ASSUME NEW r \in Req, EnsureDirectRoom(r) PROVE PastInv'
    <2> DEFINE q == [req[r] EXCEPT !.pc = "create"]
    <2>1. CASE Works /\ FindDirectRoom(req[r].users) # {}
      <3>1. req' = [req EXCEPT ![r] = Idle] /\ UNCHANGED <<room, members, nextId, past>>
        BY <1>6, <2>1 DEF EnsureDirectRoom, LookFails, FailAndReturn, Fails, NoneFound,
           Works, Return, hist, IInv, TypeOK
      <3> QED
        BY <1>1, <1>4, <1>6, <3>1 DEF EnsureDirectRoom
    <2>2. CASE Works /\ FindDirectRoom(req[r].users) = {}
      <3>1. /\ req[r].pc = "find" /\ req' = [req EXCEPT ![r] = q]
            /\ kept' = [kept EXCEPT ![r] = {d \in Id : room[d] # None}]
            /\ UNCHANGED <<room, members, nextId, elder>>
        BY <1>6, <2>2 DEF EnsureDirectRoom, LookFails, FailAndReturn, Fails, NoneFound,
           Works, IInv, TypeOK
      <3>2. /\ q \in Request /\ q.op = "Ensure" /\ q.pc = "create"
            /\ q.users = req[r].users
        BY <1>5, <3>1 DEF Request, Pc, RequestInv
      <3>3. \A s \in Req : /\ req'[s] = IF s = r THEN q ELSE req[s]
                           /\ kept'[s] = IF s = r THEN {d \in Id : room[d] # None}
                                         ELSE kept[s]
        BY <3>1, <3>2, SlotType DEF IInv, TypeOK, PastOK
      <3>4. ASSUME NEW d \in Id, room[d] # None
            PROVE  NotTheirs(d, q.users)
        <4>1. PICK u \in User, v \in User : u # v /\ req[r].users = {u, v}
          BY <1>5, <3>1 DEF RequestInv
        <4>2. room[d].group \/ members[d] # req[r].users
          BY <2>2, <3>4, <4>1, CountsFindThePair DEF IInv
        <4>3. d < nextId
          BY <3>4 DEF IInv, FreshInv, TypeOK, Id
        <4> QED
          BY <3>2, <3>4, <4>2, <4>3 DEF NotTheirs
      <3> HIDE DEF q
      <3>5. ASSUME NEW s \in Req, NEW d \in kept'[s]
            PROVE  /\ req'[s].op = "Ensure" /\ req'[s].pc = "create"
                   /\ NotTheirs(d, req[s].users)'
        <4>1. CASE s = r
          <5>1. NotTheirs(d, q.users) /\ req'[s] = q
            BY <3>3, <3>4, <3>5, <4>1
          <5> QED
            BY <3>1, <3>2, <5>1 DEF NotTheirs
        <4>2. CASE s # r
          <5>1. d \in kept[s] /\ req'[s] = req[s]
            BY <3>3, <3>5, <4>2
          <5>2. /\ req[s].op = "Ensure" /\ req[s].pc = "create"
                /\ NotTheirs(d, req[s].users)
            BY <5>1 DEF PastInv, KeptInv
          <5> QED
            BY <3>1, <5>1, <5>2 DEF NotTheirs
        <4> QED
          BY <4>1, <4>2
      <3>6. KeptInv'
        BY <3>5 DEF KeptInv
      <3>7. ElderInv'
        BY <3>1 DEF ElderInv, PastInv, NotTheirs
      <3> QED
        BY <3>6, <3>7 DEF PastInv
    <2> QED
      BY <1>3, <1>6, <2>1, <2>2 DEF EnsureDirectRoom, LookFails
  <1>7. ASSUME NEW r \in Req, Create(r) PROVE PastInv'
    <2>1. CASE FailAndReturn(r)
      BY <1>3, <2>1
    <2>2. CASE ~FailAndReturn(r)
      <3> DEFINE q == [req[r] EXCEPT !.pc = "tell", !.id = nextId]
      <3>1. /\ req[r].pc = "create" /\ nextId \in Id /\ nextId' = nextId + 1
            /\ room' = [room EXCEPT ![nextId] =
                          [group |-> req[r].group, creator |-> req[r].user]]
            /\ members' = [members EXCEPT ![nextId] = req[r].users]
            /\ req' = [req EXCEPT ![r] = q]
            /\ kept' = [kept EXCEPT ![r] = {}]
            /\ elder' = [elder EXCEPT ![nextId] = kept[r]]
        BY <1>7, <2>2 DEF Create
      <3>2. q \in Request
        BY <1>5, <3>1 DEF Request, Pc
      <3> HIDE DEF q
      <3>3. /\ nextId \in Nat /\ Id \subseteq Nat /\ nextId' \in Nat /\ nextId <= nextId'
            /\ \A d \in Id : d < nextId => room'[d] = room[d] /\ members'[d] = members[d]
            /\ members'[nextId] = req[r].users
        BY <3>1 DEF IInv, TypeOK, Id
      <3>4. /\ \A s \in Req : req'[s] = IF s = r THEN q ELSE req[s]
            /\ \A s \in Req : kept[s] \subseteq Id
            /\ \A s \in Req : kept'[s] = IF s = r THEN {} ELSE kept[s]
            /\ \A e \in Id : elder[e] \subseteq Id
            /\ \A e \in Id : elder'[e] = IF e = nextId THEN kept[r] ELSE elder[e]
        BY <3>1, <3>2, SlotType DEF IInv, TypeOK, PastOK
      <3>5. \A s \in Req : \A d \in kept[s] : d < nextId
        BY DEF PastInv, KeptInv, NotTheirs
      <3>6. KeptInv'
        <4>1. KeptInv
          BY DEF PastInv
        <4> QED
          BY <3>3, <3>4, <3>5, <4>1, KeptStep
      <3>7. ASSUME NEW e \in Id, NEW d \in elder'[e]
            PROVE  e < nextId' /\ NotTheirs(d, members[e])'
        <4>1. CASE e = nextId
          <5>1. d \in kept[r] /\ NotTheirs(d, req[r].users) /\ d \in Id
            BY <3>4, <3>7, <4>1 DEF PastInv, KeptInv
          <5> QED
            BY <3>1, <3>3, <4>1, <5>1 DEF NotTheirs
        <4>2. CASE e # nextId
          <5>1. d \in elder[e] /\ e < nextId /\ NotTheirs(d, members[e]) /\ d \in Id
            BY <3>4, <3>7, <4>2 DEF PastInv, ElderInv
          <5> QED
            BY <3>1, <3>3, <5>1 DEF NotTheirs
        <4> QED
          BY <4>1, <4>2
      <3>8. ElderInv'
        BY <3>7 DEF ElderInv
      <3> QED
        BY <3>6, <3>8 DEF PastInv
    <2> QED
      BY <2>1, <2>2
  <1>8. ASSUME NEW r \in Req, AddMember(r) PROVE PastInv'
    <2> DEFINE q == [req[r] EXCEPT !.pc = "getAdded"]
    <2>1. req[r].pc = "insert" /\ req[r].id \in Id /\ q \in Request
      BY <1>5, <1>8 DEF AddMember, RequestInv, Request, Pc
    <2>2. CASE RoomExists(req[r].id) /\ ~FailAndReturn(r)
      <3>1. /\ req' = [req EXCEPT ![r] = q] /\ UNCHANGED <<room, nextId>>
            /\ members' = [members EXCEPT ![req[r].id] = @ \cup {req[r].user}]
            /\ Touch(req[r].id)
        BY <1>8, <2>2 DEF AddMember
      <3>2. PICK us : us = members[req[r].id] \cup {req[r].user}
        OBVIOUS
      <3>3. members' = [members EXCEPT ![req[r].id] = us]
        BY <3>1, <3>2
      <3> QED
        BY <2>1, <3>1, <3>3, TouchPast DEF PastInv
    <2>3. CASE ~RoomExists(req[r].id) /\ ~FailAndReturn(r)
      BY <1>1, <1>4, <1>8, <2>1, <2>3 DEF AddMember, Return
    <2> QED
      BY <1>3, <2>2, <2>3
  <1>9. ASSUME NEW r \in Req, RemoveMember(r) PROVE PastInv'
    <2>1. req[r].pc = "remove" /\ req[r].id \in Id
      BY <1>5, <1>9 DEF RemoveMember, RequestInv
    <2>2. CASE ~FailAndReturn(r)
      <3>1. /\ req' = [req EXCEPT ![r] = Idle] /\ UNCHANGED <<room, nextId>>
            /\ members' = [members EXCEPT ![req[r].id] = @ \ {req[r].user}]
            /\ Touch(req[r].id)
        BY <1>9, <2>2 DEF RemoveMember, Return
      <3>2. PICK us : us = members[req[r].id] \ {req[r].user}
        OBVIOUS
      <3>3. members' = [members EXCEPT ![req[r].id] = us]
        BY <3>1, <3>2
      <3> QED
        BY <1>1, <2>1, <3>1, <3>3, TouchPast DEF PastInv
    <2> QED
      BY <1>3, <2>2
  <1>10. ASSUME NEW r \in Req, Delete(r) PROVE PastInv'
    <2>1. req[r].pc = "delete" /\ req[r].id \in Id
      BY <1>5, <1>10 DEF Delete, RequestInv
    <2>2. CASE ~FailAndReturn(r)
      <3>1. /\ req' = [req EXCEPT ![r] = Idle] /\ UNCHANGED nextId
            /\ room' = [room EXCEPT ![req[r].id] = None]
            /\ members' = [members EXCEPT ![req[r].id] = {}]
            /\ Touch(req[r].id)
        BY <1>10, <2>2 DEF Delete, Return
      <3> QED
        BY <1>1, <2>1, <3>1, TouchPast DEF PastInv
    <2> QED
      BY <1>3, <2>2
  <1>11. ASSUME NEW r \in Req, Tell(r) PROVE PastInv'
    <2>1. /\ req[r].pc = "tell" /\ UNCHANGED <<room, members, nextId, past>>
          /\ \/ req' = [req EXCEPT ![r] = Idle]
             \/ \E u : req' = [req EXCEPT ![r].users = @ \ {u}]
      BY <1>11 DEF Tell, Return
    <2>2. ASSUME NEW u PROVE [req[r] EXCEPT !.users = @ \ {u}] \in Request
      BY <1>5 DEF Request
    <2>3. ASSUME NEW u, req' = [req EXCEPT ![r].users = @ \ {u}] PROVE PastInv'
      <3>1. PICK q \in Request : q = [req[r] EXCEPT !.users = @ \ {u}]
        BY <2>2
      <3>2. req' = [req EXCEPT ![r] = q]
        BY <2>3, <3>1
      <3> QED
        BY <1>4, <2>1, <3>2
    <2> QED
      BY <1>1, <1>4, <2>1, <2>3
  <1>12. ASSUME NEW r \in Req, GetAdded(r) PROVE PastInv'
    <2>1. [req[r] EXCEPT !.pc = "tell", !.users = {req[r].user}] \in Request
      BY <1>5, <1>12 DEF GetAdded, Request, Pc, RequestInv
    <2>2. CASE ~FailAndReturn(r)
      <3>1. /\ req[r].pc = "getAdded" /\ UNCHANGED <<room, members, nextId, past>>
            /\ \/ req' = [req EXCEPT ![r] = Idle]
               \/ req' = [req EXCEPT ![r] = [req[r] EXCEPT !.pc = "tell",
                                                         !.users = {req[r].user}]]
        BY <1>12, <2>2 DEF GetAdded, Return, hist
      <3> QED
        BY <1>1, <1>4, <2>1, <3>1
    <2> QED
      BY <1>3, <2>2
  <1>13. ASSUME NEW r \in Req, GetByID(r) PROVE PastInv'
    <2>1. [req[r] EXCEPT !.pc = "delete"] \in Request
      BY <1>5 DEF Request, Pc
    <2> QED
      BY <1>1, <1>3, <1>4, <1>13, <2>1 DEF GetByID, Return, hist
  <1>14. CASE UNCHANGED vars
    BY <1>14 DEF vars, hist, past, PastInv, KeptInv, ElderInv, NotTheirs
  <1> QED
    BY <1>2, <1>6, <1>7, <1>8, <1>9, <1>10, <1>11, <1>12, <1>13, <1>14 DEF Next, Call

(***************************************************************************)
(* EnsureDirectRoom (service_impl.go 160-165).  Whatever the requests do   *)
(* to rooms and their members and however many fail, an Ensure never makes *)
(* a room for a pair beside one that was theirs when it looked, and has    *)
(* not changed since.                                                      *)
(***************************************************************************)
THEOREM EnsureFindsTheRoom == Spec => []SecondRoomByOverlap
  <1>1. PastInv => SecondRoomByOverlap
    BY DEF PastInv, ElderInv, NotTheirs, SecondRoomByOverlap
  <1> QED
    BY <1>1, Invariant, PastInit, PastInvStep, PTL DEF Spec

-----------------------------------------------------------------------------
(***************************************************************************)
(* Refinement: what a step of a request means for Membership.              *)
(***************************************************************************)
MemberState == [d \in Id |-> State(d)]

\* A step that changes no room, no membership and no announcement.
LEMMA MemberStutter ==
  ASSUME UNCHANGED <<room, members, nextId, faults, told, acks>>, Owed' = Owed
  PROVE  UNCHANGED M!memberVars
  BY DEF State, M!memberVars

\* A failed call: at most one announcement is not made.
LEMMA MemberFault ==
  ASSUME UNCHANGED <<room, members, nextId, told, acks>>, Fails,
         Owed' = Owed \/ \E e \in Owed : Owed' = Owed \ {e}
  PROVE  M!MemberChange
  <1>1. UNCHANGED <<MemberState, members, told>>
    BY DEF MemberState, State
  <1>2. \E es \in {{}} \cup {{e} : e \in Owed} : Owed' = Owed \ es
    <2>1. CASE Owed' = Owed
      BY <2>1
    <2>2. CASE \E e \in Owed : Owed' = Owed \ {e}
      BY <2>2
    <2> QED
      BY <2>1, <2>2
  <1>3. faults' = faults + 1
    BY DEF Fails
  <1> QED
    BY <1>1, <1>2, <1>3 DEF M!MemberChange, M!Fault, MemberState

\* A failed call of any request.
LEMMA MemberFailAndReturn ==
  ASSUME IInv, NEW r \in Req, FailAndReturn(r), req[r].pc # "tell"
  PROVE  M!MemberChange
  <1>1. Idle \in Request /\ Owes(Idle) = {}
    BY DEF Idle, Request, Op, Pc, Owes
  <1>2. Owed' = Owed \/ \E e \in Owed : Owed' = Owed \ {e}
    <2>1. CASE req[r].pc = "getAdded"
      <3>1. /\ req[r].user \in User /\ req[r].id \in Id
        BY <2>1 DEF IInv, RequestInv
      <3>2. Owes(req[r]) = {<<req[r].id, req[r].user>>}
        BY <2>1, <3>1 DEF Owes
      <3> DEFINE e == <<req[r].id, req[r].user>>
      <3>3. Owed' \in {Owed, Owed \ {e}}
        <4>1. Owes(Idle) = Owes(req[r]) \ {e}
          BY <1>1, <3>2
        <4> QED
          BY <1>1, <4>1, OwedStep DEF FailAndReturn, Return, IInv
      <3>4. e \in Owed
        BY <2>1, <3>1 DEF Owed
      <3> QED
        BY <3>3, <3>4
    <2>2. CASE req[r].pc # "getAdded"
      <3>1. Owes(req[r]) = {}
        BY <2>2 DEF Owes
      <3> QED
        BY <1>1, <3>1, OwedStep DEF FailAndReturn, Return, IInv
    <2> QED
      BY <2>1, <2>2
  <1> QED
    BY <1>2, MemberFault DEF FailAndReturn

\* EnsureDirectRoom and GetByID that work, and Arrive, are stutters.
LEMMA MemberQuiet ==
  ASSUME IInv, NEW r \in Req, NEW q \in Request, req' = [req EXCEPT ![r] = q],
         Owes(req[r]) = {}, Owes(q) = {},
         UNCHANGED <<room, members, nextId, faults, told, acks>>
  PROVE  UNCHANGED M!memberVars
  <1>1. Owed' = Owed
    BY OwedStep DEF IInv
  <1> QED
    BY <1>1, MemberStutter

\* Create is CreateRoom.
LEMMA MemberCreate ==
  ASSUME IInv, NEW r \in Req, Create(r)
  PROVE  M!MemberChange
  <1> DEFINE q == [req[r] EXCEPT !.pc = "tell", !.id = nextId]
  <1>1. CASE FailAndReturn(r)
    BY <1>1, MemberFailAndReturn DEF Create
  <1>2. CASE ~FailAndReturn(r)
    <2>1. /\ req[r].pc = "create" /\ faults' = faults
          /\ nextId \in Id /\ nextId' = nextId + 1
          /\ room' = [room EXCEPT ![nextId] =
                        [group |-> req[r].group, creator |-> req[r].user]]
          /\ members' = [members EXCEPT ![nextId] = req[r].users]
          /\ req' = [req EXCEPT ![r] = q]
          /\ UNCHANGED <<told, acks>>
      BY <1>2 DEF Create, Works
    <2>2. req[r] \in Request /\ req[r].user \in User /\ req[r].users # {}
      BY <2>1 DEF IInv, TypeOK, RequestInv
    <2>3. q \in Request /\ q.pc = "tell" /\ q.id = nextId /\ q.users = req[r].users
      BY <2>1, <2>2 DEF Request, Pc
    <2>4. Owed' = Owed \cup ({nextId} \X req[r].users)
      <3>1. Owes(req[r]) = {}
        BY <2>1 DEF Owes
      <3>2. Owes(q) = {nextId} \X req[r].users
        <4>1. Owes(q) = {e \in Id \X User : nextId = e[1] /\ e[2] \in req[r].users}
          BY <2>3 DEF Owes
        <4>2. nextId \in Id /\ req[r].users \in SUBSET User
          BY <2>1, <2>2 DEF Request
        <4>3. \A d \in Id, u \in User : <<d, u>> \in Owes(q)
                                         <=> <<d, u>> \in {nextId} \X req[r].users
          BY <4>1
        <4>4. Owes(q) \subseteq Id \X User /\ {nextId} \X req[r].users \subseteq Id \X User
          BY <4>1, <4>2
        <4>5. \A e \in Id \X User : \E d \in Id, u \in User : e = <<d, u>>
          OBVIOUS
        <4> QED
          BY <4>3, <4>4, <4>5
      <3>3. Owed' = Owed \cup Owes(q)
        BY <2>1, <2>3, <3>1, OwedStep DEF IInv
      <3> QED
        BY <3>2, <3>3
    <2>5. MemberState[nextId] = "new"
      BY <2>1 DEF MemberState, State, Id
    <2>6. MemberState' = [MemberState EXCEPT ![nextId] = "live"]
      <3>1. ASSUME NEW d \in Id
            PROVE  State(d)' = IF d = nextId THEN "live" ELSE State(d)
        <4>1. [group |-> req[r].group, creator |-> req[r].user] # None
          BY <2>2, RoomsAssumption DEF Request
        <4>2. CASE d = nextId
          BY <2>1, <4>1, <4>2 DEF State, IInv, TypeOK, Id
        <4>3. CASE d # nextId
          BY <2>1, <4>3 DEF State, IInv, TypeOK, Id
        <4> QED
          BY <4>2, <4>3
      <3> QED
        BY <3>1 DEF MemberState
    <2>7. req[r].users \in SUBSET User
      BY <2>2 DEF Request
    <2> QED
      BY <2>1, <2>2, <2>4, <2>5, <2>6, <2>7
      DEF M!MemberChange, M!CreateRoom, MemberState
  <1> QED
    BY <1>1, <1>2

\* AddMember to a room that exists is AddToRoom.
LEMMA MemberAdd ==
  ASSUME IInv, NEW r \in Req, AddMember(r)
  PROVE  M!MemberChange \/ UNCHANGED M!memberVars
  <1> DEFINE q == [req[r] EXCEPT !.pc = "getAdded"]
  <1>1. Idle \in Request /\ Owes(Idle) = {}
    BY DEF Idle, Request, Op, Pc, Owes
  <1>2. CASE FailAndReturn(r)
    BY <1>2, MemberFailAndReturn DEF AddMember
  <1>3. CASE ~FailAndReturn(r)
    <2>1. /\ req[r].pc = "insert" /\ faults' = faults
          /\ UNCHANGED <<room, nextId, told, acks>>
      BY <1>3 DEF AddMember, Works
    <2>2. /\ req[r] \in Request /\ req[r].user \in User
          /\ req[r].id \in Id /\ req[r].id < nextId
      BY <2>1 DEF IInv, TypeOK, RequestInv
    <2>3. Owes(req[r]) = {}
      BY <2>1 DEF Owes
    <2>4. CASE ~RoomExists(req[r].id)
      <3>1. req' = [req EXCEPT ![r] = Idle] /\ UNCHANGED members
        BY <1>3, <2>4 DEF AddMember, Return
      <3> QED
        BY <1>1, <2>1, <2>3, <3>1, MemberQuiet
    <2>5. CASE RoomExists(req[r].id)
      <3>1. /\ members' = [members EXCEPT ![req[r].id] = @ \cup {req[r].user}]
            /\ req' = [req EXCEPT ![r] = q]
        BY <1>3, <2>5 DEF AddMember
      <3>2. q \in Request
        BY <2>2 DEF Request, Pc
      <3>3. Owes(q) = {<<req[r].id, req[r].user>>}
        BY <2>2 DEF Owes, Request
      <3>4. Owed' = Owed \cup {<<req[r].id, req[r].user>>}
        BY <2>3, <3>1, <3>2, <3>3, OwedStep DEF IInv
      <3>5. MemberState[req[r].id] = "live"
        BY <2>2, <2>5 DEF MemberState, State, RoomExists, IInv, TypeOK, Id
      <3>6. UNCHANGED MemberState
        BY <2>1 DEF MemberState, State
      <3>7. UNCHANGED <<told, faults>>
        BY <2>1
      <3>8. M!AddToRoom(req[r].id, req[r].user)
        BY <3>1, <3>4, <3>5, <3>6, <3>7 DEF M!AddToRoom, MemberState
      <3> QED
        BY <2>2, <3>8 DEF M!MemberChange
    <2> QED
      BY <2>4, <2>5
  <1> QED
    BY <1>2, <1>3

\* Tell is Announce, or a failed call.
LEMMA MemberTell ==
  ASSUME IInv, NEW r \in Req, Tell(r)
  PROVE  M!MemberNext \/ UNCHANGED M!memberVars
  <1>1. Idle \in Request /\ Owes(Idle) = {}
    BY DEF Idle, Request, Op, Pc, Owes
  <1>2. CASE ToTell(r) = {} /\ Works /\ Return(r) /\ UNCHANGED told
    <2>1. Owes(req[r]) = {}
      BY <1>2 DEF Tell, ToTell, Owes
    <2>2. /\ req' = [req EXCEPT ![r] = Idle]
          /\ UNCHANGED <<room, members, nextId, faults, told, acks>>
      BY <1>2 DEF Tell, Works, Return
    <2> QED
      BY <1>1, <2>1, <2>2, MemberQuiet
  <1>3. ASSUME NEW u \in ToTell(r), req' = [req EXCEPT ![r].users = @ \ {u}],
               \/ Works /\ told' = told \cup {<<req[r].id, u>>}
               \/ Fails /\ UNCHANGED told
        PROVE  M!MemberNext
    <2> DEFINE q == [req[r] EXCEPT !.users = @ \ {u}]
               e == <<req[r].id, u>>
    <2>1. /\ req' = [req EXCEPT ![r] = q] /\ UNCHANGED <<room, members, nextId, acks>>
          /\ req[r].pc = "tell" /\ u \in req[r].users
      BY <1>3 DEF Tell, ToTell
    <2>2. /\ req[r] \in Request /\ req[r].id \in Id /\ u \in User
      BY <2>1 DEF IInv, TypeOK, RequestInv, Request
    <2>3. q \in Request
      BY <2>2 DEF Request
    <2>4. Owes(q) = Owes(req[r]) \ {e}
      BY <2>1, <2>2 DEF Owes, Request
    <2>5. Owed' \in {Owed, Owed \ {e}}
      BY <2>1, <2>3, <2>4, OwedStep DEF IInv
    <2>6. e \in Owed
      BY <2>1, <2>2 DEF Owed
    <2>7. CASE Fails /\ UNCHANGED told
      BY <2>1, <2>5, <2>6, <2>7, MemberFault DEF hist, M!MemberNext
    <2>8. CASE Works /\ told' = told \cup {e}
      <3>1. UNCHANGED MemberState
        BY <2>1 DEF MemberState, State
      <3>2. M!Announce(e)
        BY <2>1, <2>5, <2>6, <2>8, <3>1 DEF M!Announce, MemberState, Works
      <3> QED
        BY <2>6, <3>2 DEF M!MemberNext
    <2> QED
      BY <1>3, <2>7, <2>8
  <1> QED
    BY <1>2, <1>3 DEF Tell

\* GetAdded is a stutter while the room is there, else the announcement lapses.
LEMMA MemberGetAdded ==
  ASSUME IInv, NEW r \in Req, GetAdded(r)
  PROVE  M!MemberChange \/ UNCHANGED M!memberVars
  <1> DEFINE q == [req[r] EXCEPT !.pc = "tell", !.users = {req[r].user}]
             e == <<req[r].id, req[r].user>>
  <1>1. Idle \in Request /\ Owes(Idle) = {}
    BY DEF Idle, Request, Op, Pc, Owes
  <1>2. CASE FailAndReturn(r)
    BY <1>2, MemberFailAndReturn DEF GetAdded
  <1>3. CASE ~FailAndReturn(r)
    <2>1. /\ req[r].pc = "getAdded" /\ faults' = faults
          /\ UNCHANGED <<room, members, nextId, told, acks>>
      BY <1>3 DEF GetAdded, Works, hist
    <2>2. /\ req[r] \in Request /\ req[r].user \in User
          /\ req[r].id \in Id /\ req[r].id < nextId
      BY <2>1 DEF IInv, TypeOK, RequestInv
    <2>3. Owes(req[r]) = {e}
      BY <2>1, <2>2 DEF Owes
    <2>4. CASE room[req[r].id] = None
      <3>1. req' = [req EXCEPT ![r] = Idle]
        BY <1>3, <2>4 DEF GetAdded, Return
      <3>2. Owed' \in {Owed, Owed \ {e}}
        <4>1. Owes(Idle) = Owes(req[r]) \ {e}
          BY <1>1, <2>3
        <4> QED
          BY <1>1, <3>1, <4>1, OwedStep DEF IInv
      <3>3. CASE Owed' = Owed
        BY <2>1, <3>3, MemberStutter
      <3>4. CASE Owed' = Owed \ {e}
        <4>1. e \in Owed /\ e[1] = req[r].id /\ e[1] \in Id
          BY <2>1, <2>2 DEF Owed
        <4>2. MemberState[e[1]] = "gone"
          BY <2>2, <2>4, <4>1 DEF MemberState, State, IInv, TypeOK, Id
        <4>3. UNCHANGED MemberState /\ UNCHANGED <<members, told, faults>>
          BY <2>1 DEF MemberState, State
        <4>4. M!Lapse(e)
          BY <3>4, <4>1, <4>2, <4>3 DEF M!Lapse, MemberState
        <4> QED
          BY <4>1, <4>4 DEF M!MemberChange
      <3> QED
        BY <3>2, <3>3, <3>4
    <2>5. CASE room[req[r].id] # None
      <3>1. req' = [req EXCEPT ![r] = q]
        BY <1>3, <2>5 DEF GetAdded
      <3>2. q \in Request
        BY <2>2 DEF Request, Pc
      <3>3. Owes(q) = Owes(req[r])
        BY <2>2, <2>3 DEF Owes, Request
      <3>4. Owed' = Owed
        BY <3>1, <3>2, <3>3, OwedStep DEF IInv
      <3> QED
        BY <2>1, <3>4, MemberStutter
    <2> QED
      BY <2>4, <2>5
  <1> QED
    BY <1>2, <1>3

\* RemoveMember is RemoveFromRoom.
LEMMA MemberRemove ==
  ASSUME IInv, NEW r \in Req, RemoveMember(r)
  PROVE  M!MemberChange
  <1>1. CASE FailAndReturn(r)
    BY <1>1, MemberFailAndReturn DEF RemoveMember
  <1>2. CASE ~FailAndReturn(r)
    <2>1. /\ req[r].pc = "remove" /\ faults' = faults
          /\ req' = [req EXCEPT ![r] = Idle]
          /\ members' = [members EXCEPT ![req[r].id] = @ \ {req[r].user}]
          /\ told' = told \ {<<req[r].id, req[r].user>>}
          /\ UNCHANGED <<room, nextId>>
      BY <1>2 DEF RemoveMember, Works, Return
    <2>2. req[r].user \in User /\ req[r].id \in Id
      BY <2>1 DEF IInv, RequestInv
    <2>3. Idle \in Request /\ Owes(Idle) = {} /\ Owes(req[r]) = {}
      BY <2>1 DEF Idle, Request, Op, Pc, Owes
    <2>4. Owed' = Owed
      BY <2>1, <2>3, OwedStep DEF IInv
    <2>5. UNCHANGED MemberState
      BY <2>1 DEF MemberState, State
    <2>6. M!RemoveFromRoom(req[r].id, req[r].user)
      BY <2>1, <2>4, <2>5 DEF M!RemoveFromRoom, MemberState
    <2> QED
      BY <2>2, <2>6 DEF M!MemberChange
  <1> QED
    BY <1>1, <1>2

\* The Delete that removes the row is DropRoom; the others find nothing.
LEMMA MemberDelete ==
  ASSUME IInv, NEW r \in Req, Delete(r)
  PROVE  M!MemberChange \/ UNCHANGED M!memberVars
  <1>1. CASE FailAndReturn(r)
    BY <1>1, MemberFailAndReturn DEF Delete
  <1>2. CASE ~FailAndReturn(r)
    <2> DEFINE d == req[r].id
    <2>1. /\ req[r].pc = "delete" /\ faults' = faults
          /\ req' = [req EXCEPT ![r] = Idle]
          /\ room' = [room EXCEPT ![d] = None]
          /\ members' = [members EXCEPT ![d] = {}]
          /\ UNCHANGED <<nextId, told>>
      BY <1>2 DEF Delete, Works, Return
    <2>2. d \in Id /\ d < nextId
      BY <2>1 DEF IInv, RequestInv
    <2>3. Idle \in Request /\ Owes(Idle) = {} /\ Owes(req[r]) = {}
      BY <2>1 DEF Idle, Request, Op, Pc, Owes
    <2>4. Owed' = Owed
      BY <2>1, <2>3, OwedStep DEF IInv
    <2> HIDE DEF d
    <2>5. CASE room[d] = None
      <3>1. members[d] = {}
        BY <2>2, <2>5 DEF IInv, MembersHaveRoom
      <3>2. room' = room /\ members' = members
        BY <2>1, <2>5, <3>1 DEF IInv, TypeOK
      <3> QED
        BY <2>1, <2>4, <3>2 DEF M!memberVars, State
    <2>6. CASE room[d] # None
      <3>1. ~(d >= nextId)
        BY <2>2 DEF IInv, TypeOK, Id
      <3>2. MemberState[d] = "live"
        BY <2>2, <2>6, <3>1 DEF MemberState, State
      <3>3. MemberState' = [MemberState EXCEPT ![d] = "gone"]
        <4>1. ASSUME NEW e \in Id
              PROVE  State(e)' = IF e = d THEN "gone" ELSE State(e)
          BY <2>1, <2>2, <3>1 DEF State, IInv, TypeOK
        <4> QED
          BY <4>1 DEF MemberState
      <3>4. M!DropRoom(d)
        BY <2>1, <2>4, <3>2, <3>3 DEF M!DropRoom, MemberState
      <3> QED
        BY <2>2, <3>4 DEF M!MemberChange
    <2> QED
      BY <2>5, <2>6
  <1> QED
    BY <1>1, <1>2

(***************************************************************************)
(* The service (service_impl.go 60-259, room_repo.go) implements           *)
(* Membership: memberships change only by a creation, an addition to a     *)
(* room that exists, a removal or the end of the room, and an announcement *)
(* owed is made unless the room is gone or a call failed.                  *)
(***************************************************************************)
THEOREM RoomsImplementMembership == Spec => ImplementsMembership
  <1>1. Idle \in Request /\ Owes(Idle) = {}
    BY DEF Idle, Request, Op, Pc, Owes
  <1>2. Init => M!MemberInit
    <2> SUFFICES ASSUME Init PROVE M!MemberInit
      OBVIOUS
    <2>1. Owed = {}
      BY DEF Init, Owed, Idle
    <2>2. \A d \in Id : State(d) = "new"
      BY DEF Init, State, Id
    <2> QED
      BY <2>1, <2>2 DEF Init, M!MemberInit
  <1>3. IInv /\ [Next]_vars => [M!MemberNext]_M!memberVars
    <2> SUFFICES ASSUME IInv, [Next]_vars
                 PROVE  M!MemberNext \/ UNCHANGED M!memberVars
      OBVIOUS
    <2>1. ASSUME NEW r \in Req, Arrive(r) PROVE UNCHANGED M!memberVars
      <3>1. PICK q \in Request : /\ q.pc \notin {"tell", "getAdded"}
                                 /\ req' = [req EXCEPT ![r] = q]
        BY <2>1, RoomsAssumption, ArriveStep DEF IInv
      <3>2. req[r] = Idle /\ UNCHANGED <<room, members, nextId, faults, told, acks>>
        BY <2>1, RoomsAssumption, ArriveStep DEF IInv
      <3>3. Owes(q) = {}
        BY <3>1 DEF Owes
      <3> QED
        BY <1>1, <3>1, <3>2, <3>3, MemberQuiet
    <2>2. ASSUME NEW r \in Req, EnsureDirectRoom(r)
          PROVE  M!MemberChange \/ UNCHANGED M!memberVars
      <3>1. CASE FailAndReturn(r)
        BY <2>2, <3>1, MemberFailAndReturn DEF EnsureDirectRoom
      <3>2. CASE ~FailAndReturn(r)
        <4> DEFINE q == [req[r] EXCEPT !.pc = "create"]
        <4>1. /\ UNCHANGED <<room, members, nextId, faults, told, acks>>
              /\ req' = [req EXCEPT ![r] = Idle] \/ req' = [req EXCEPT ![r] = q]
          BY <2>2, <3>2 DEF EnsureDirectRoom, LookFails, NoneFound, Works, Return, hist
        <4>2. req[r] \in Request /\ req[r].pc = "find"
          BY <2>2 DEF EnsureDirectRoom, IInv, TypeOK
        <4>3. q \in Request /\ Owes(q) = {} /\ Owes(req[r]) = {}
          BY <4>2 DEF Request, Pc, Owes
        <4> QED
          BY <1>1, <4>1, <4>3, MemberQuiet
      <3> QED
        BY <3>1, <3>2
    <2>3. ASSUME NEW r \in Req, GetByID(r)
          PROVE  M!MemberChange \/ UNCHANGED M!memberVars
      <3>1. CASE FailAndReturn(r)
        BY <2>3, <3>1, MemberFailAndReturn DEF GetByID
      <3>2. CASE ~FailAndReturn(r)
        <4> DEFINE q == [req[r] EXCEPT !.pc = "delete"]
        <4>1. /\ UNCHANGED <<room, members, nextId, faults, told, acks>>
              /\ req' = [req EXCEPT ![r] = Idle] \/ req' = [req EXCEPT ![r] = q]
          BY <2>3, <3>2 DEF GetByID, Works, Return, hist
        <4>2. req[r] \in Request /\ req[r].pc = "get"
          BY <2>3 DEF GetByID, IInv, TypeOK
        <4>3. q \in Request /\ Owes(q) = {} /\ Owes(req[r]) = {}
          BY <4>2 DEF Request, Pc, Owes
        <4> QED
          BY <1>1, <4>1, <4>3, MemberQuiet
      <3> QED
        BY <3>1, <3>2
    <2>4. CASE UNCHANGED vars
      BY <2>4 DEF vars, hist, M!memberVars, State, Owed
    <2> QED
      BY <2>1, <2>2, <2>3, <2>4, MemberCreate, MemberAdd, MemberTell, MemberGetAdded,
         MemberRemove, MemberDelete
      DEF Next, Call, M!MemberNext
  <1> QED
    BY <1>2, <1>3, Invariant, PTL DEF Spec, ImplementsMembership, M!MemberSpec
=============================================================================
