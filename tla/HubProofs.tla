----------------------------- MODULE HubProofs -----------------------------
(***************************************************************************)
(* Theorems about Hub, for every set of clients, rooms and users, every    *)
(* buffer capacity and every number of events.                             *)
(***************************************************************************)
EXTENDS Hub, TLAPS

(***************************************************************************)
(* The inductive invariant.                                                *)
(***************************************************************************)

\* Targets remain only inside sendToRoom and SendToUser.
TodoInv ==
    /\ hubTodo # {} => hubPc = "send"
    /\ relayTodo # {} => relayPc = "user"

\* The hub has never heard of c.
Untouched(c) ==
    /\ c \notin clients \cup closed \cup hubTodo \cup relayTodo \cup overflow
    /\ evict[c] = 0
    /\ \A r \in Room : c \notin rooms[r]
    /\ \A u \in User : c \notin users[u]
    /\ hubPc = "remove" => hubClient # c

\* A connection reaches the maps, the channels and the eviction goroutines
\* only through Register, once.
LifecycleInv ==
    /\ \A c \in Client : rpc[c] \in {"none", "register"} => Untouched(c)
    /\ hubPc = "add" => /\ rpc[hubClient] \notin {"none", "register"}
                        /\ Untouched(hubClient)

\* As long as no buffer overflowed, only the deferred Unregister of a ReadPump
\* and the shutdown close a Send, and each at most once.
QuietInv ==
    overflow = {} =>
    /\ \A c \in Client : evict[c] = 0
    /\ clients \cap closed = {}
    /\ hubTodo \subseteq clients
    /\ hubPc # "done" =>
          /\ relayTodo \subseteq clients
          /\ \A c \in Client : rpc[c] \in {"read", "bcast", "unreg"} => c \notin closed
    /\ hubPc = "remove" => /\ hubClient \notin closed
                           /\ rpc[hubClient] \in {"close", "done"}

\* CrashCause alone says nothing of the step after; the rest is void once the
\* process has ended.
Inv ==
    /\ CrashCause
    /\ Alive => TodoInv /\ RegistryConsistent /\ LifecycleInv /\ QuietInv

IInv == TypeOK /\ Inv

-----------------------------------------------------------------------------
(***************************************************************************)
(* Types.                                                                  *)
(***************************************************************************)

\* A step that leaves a group of variables alone keeps its types.
LEMMA TypeUnchanged ==
  ASSUME TypeOK
  PROVE  /\ UNCHANGED hubVars => HubType'
         /\ UNCHANGED chanVars => ChanType'
         /\ UNCHANGED connVars => ConnType'
         /\ UNCHANGED writeVars => WriteType'
         /\ UNCHANGED relayVars => RelayType'
         /\ UNCHANGED <<envVars, auxVars, crash>> => EnvType'
  <1>1. UNCHANGED hubVars => HubType'
    BY DEF TypeOK, HubType, hubVars
  <1>2. UNCHANGED chanVars => ChanType'
    BY DEF TypeOK, ChanType, chanVars
  <1>3. UNCHANGED connVars => ConnType'
    BY DEF TypeOK, ConnType, connVars
  <1>4. UNCHANGED writeVars => WriteType'
    BY DEF TypeOK, WriteType, writeVars
  <1>5. UNCHANGED relayVars => RelayType'
    BY DEF TypeOK, RelayType, relayVars
  <1>6. UNCHANGED <<envVars, auxVars, crash>> => EnvType'
    BY DEF TypeOK, EnvType, envVars, auxVars
  <1> QED
    BY <1>1, <1>2, <1>3, <1>4, <1>5, <1>6

\* The events that users and other nodes originate.
LEMMA EventTypes ==
  ASSUME TypeOK, TakeId
  PROVE  /\ \A v \in {"local", "bus"}, r \in Room, x \in Client \cup {NoClient} :
               /\ Broadcast(nextId, v, r, x) \in Event
               /\ Broadcast(nextId, v, r, x).to = r
               /\ Broadcast(nextId, v, r, x).kind = "room"
         /\ \A u \in User : /\ UserEvent(nextId, u) \in Event
                             /\ UserEvent(nextId, u).to = u
                             /\ UserEvent(nextId, u).kind = "user"
  BY HubAssumption DEF TypeOK, EnvType, TakeId, Event, Broadcast, UserEvent

\* The events goroutines hold.
LEMMA InHandTypes ==
  ASSUME TypeOK
  PROVE  /\ hubPc = "send" => hubEvent[1] \in Event
         /\ relayPc \in {"bcast", "user"} => relayEvent[1] \in Event
         /\ \A c \in Client : rpc[c] = "bcast" => pending[c][1] \in Event
         /\ bus # <<>> => /\ Head(bus) \in Event
                          /\ Head(bus).kind = "room" => Head(bus).to \in Room
                          /\ Head(bus).kind = "user" => Head(bus).to \in User
  BY DEF TypeOK, HubType, RelayType, ConnType

\* A send that finds space.
LEMMA EnqueueType ==
  ASSUME ChanType, NEW c \in Client, NEW e \in Event, HasSpace(c),
         send' = [send EXCEPT ![c] = Append(@, e)]
  PROVE  /\ send' \in [Client -> Seq(Event)]
         /\ \A d \in Client : Len(send'[d]) <= SendCap
  <1>1. \A d \in Client : send'[d] = IF d = c THEN Append(send[c], e) ELSE send[d]
    BY DEF ChanType
  <1>2. Append(send[c], e) \in Seq(Event) /\ Len(Append(send[c], e)) = Len(send[c]) + 1
    BY DEF ChanType
  <1>3. Len(send[c]) + 1 <= SendCap
    BY HubAssumption DEF ChanType, HasSpace
  <1> QED
    BY <1>1, <1>2, <1>3 DEF ChanType

\* A receive that finds a message.
LEMMA DequeueType ==
  ASSUME ChanType, NEW c \in Client, send[c] # <<>>,
         send' = [send EXCEPT ![c] = Tail(@)]
  PROVE  /\ Head(send[c]) \in Event
         /\ send' \in [Client -> Seq(Event)]
         /\ \A d \in Client : Len(send'[d]) <= SendCap
  <1>1. \A d \in Client : send'[d] = IF d = c THEN Tail(send[c]) ELSE send[d]
    BY DEF ChanType
  <1>2. /\ Head(send[c]) \in Event
        /\ Tail(send[c]) \in Seq(Event) /\ Len(Tail(send[c])) = Len(send[c]) - 1
    BY DEF ChanType
  <1>3. Len(send[c]) - 1 <= SendCap
    BY HubAssumption DEF ChanType
  <1> QED
    BY <1>1, <1>2, <1>3 DEF ChanType

\* A publication that reaches the subscription or is lost.
LEMMA PublishType ==
  ASSUME RelayType, NEW e \in Event, Publish(e),
         e.kind = "room" => e.to \in Room,
         e.kind = "user" => e.to \in User,
         UNCHANGED <<relayPc, relayEvent, relayTodo>>
  PROVE  RelayType'
  <1>1. CASE bus' = bus
    BY <1>1 DEF RelayType
  <1>2. CASE bus' = Append(bus, e)
    <2>1. bus' \in Seq(Event) /\ Len(bus') = Len(bus) + 1
      BY <1>2 DEF RelayType
    <2>2. ASSUME NEW i \in 1..Len(bus')
          PROVE  /\ bus'[i].kind = "room" => bus'[i].to \in Room
                 /\ bus'[i].kind = "user" => bus'[i].to \in User
      <3>1. CASE i = Len(bus) + 1
        BY <1>2, <3>1 DEF RelayType
      <3>2. CASE i \in 1..Len(bus)
        <4>1. bus'[i] = bus[i]
          BY <1>2, <3>2 DEF RelayType
        <4> QED
          BY <3>2, <4>1 DEF RelayType
      <3> QED
        BY <2>1, <3>1, <3>2 DEF RelayType
    <2> QED
      BY <2>1, <2>2 DEF RelayType
  <1> QED
    BY <1>1, <1>2 DEF Publish

\* Every step keeps the types.
LEMMA TypeStep == TypeOK /\ [Next]_vars => TypeOK'
  <1> SUFFICES ASSUME TypeOK, [Next]_vars PROVE TypeOK'
    OBVIOUS
  <1> USE HubAssumption DEF TypeOK
  <1>1. ASSUME addClient PROVE TypeOK'
    <2>1. HubType'
      BY <1>1 DEF addClient, isMember, WriteLockFree, roomSet, HubType
    <2> QED
      BY <1>1, <2>1, TypeUnchanged DEF addClient
  <1>2. ASSUME removeClient PROVE TypeOK'
    <2>1. HubType'
      BY <1>2 DEF removeClient, LeaveRooms, WriteLockFree, HubType
    <2>2. ChanType'
      BY <1>2 DEF removeClient, LeaveRooms, WriteLockFree, ChanType, HubType
    <2>3. EnvType'
      BY <1>2 DEF removeClient, LeaveRooms, WriteLockFree, EnvType, envVars, auxVars
    <2> QED
      BY <1>2, <2>1, <2>2, <2>3, TypeUnchanged DEF removeClient
  <1>3. ASSUME NEW c \in Client, SendToRoomStep(c) PROVE TypeOK'
    <2>1. HubType'
      BY <1>3, InHandTypes DEF SendToRoomStep, SendToRoomRest, SpawnEvict, HasSpace,
         HubType
    <2>2. ChanType'
      <3>1. CASE send' = send
        <4>1. evict' = evict \/ SpawnEvict(c)
          BY <1>3 DEF SendToRoomStep
        <4>2. evict' \in [Client -> Nat]
          <5>1. evict[c] + 1 \in Nat
            BY DEF ChanType
          <5> QED
            BY <4>1, <5>1 DEF SpawnEvict, ChanType
        <4> QED
          BY <1>3, <3>1, <4>2 DEF SendToRoomStep, ChanType
      <3>2. CASE /\ HasSpace(c) /\ evict' = evict
                 /\ send' = [send EXCEPT ![c] = Append(@, hubEvent[1])]
        BY <1>3, <3>2, InHandTypes, EnqueueType DEF SendToRoomStep, ChanType
      <3> QED
        BY <1>3, <3>1, <3>2 DEF SendToRoomStep
    <2>3. EnvType'
      BY <1>3, InHandTypes DEF SendToRoomStep, SendToRoomRest, SpawnEvict, HasSpace,
         EnvType, envVars, auxVars
    <2> QED
      BY <1>3, <2>1, <2>2, <2>3, TypeUnchanged DEF SendToRoomStep
  <1>4. ASSUME shutdown PROVE TypeOK'
    <2>1. HubType'
      BY <1>4 DEF shutdown, CloseAll, HubType
    <2>2. ChanType'
      BY <1>4 DEF shutdown, CloseAll, ChanType, HubType
    <2>3. EnvType'
      BY <1>4 DEF shutdown, CloseAll, EnvType, envVars, auxVars
    <2> QED
      BY <1>4, <2>1, <2>2, <2>3, TypeUnchanged DEF shutdown
  <1>5. ASSUME HubRecvRelayBroadcast PROVE TypeOK'
    <2>1. HubType'
      BY <1>5, InHandTypes DEF HubRecvRelayBroadcast, StartSendToRoom, SendToRoomRest,
         HubType, RelayType
    <2>2. RelayType'
      BY <1>5, InHandTypes DEF HubRecvRelayBroadcast, StartSendToRoom, SendToRoomRest,
         RelayType
    <2>3. EnvType'
      BY <1>5, InHandTypes DEF HubRecvRelayBroadcast, StartSendToRoom, SendToRoomRest,
         EnvType, RelayType, envVars, auxVars
    <2> QED
      BY <1>5, <2>1, <2>2, <2>3, TypeUnchanged DEF HubRecvRelayBroadcast
  <1>6. ASSUME NEW c \in Client, HubRecvRegister(c) PROVE TypeOK'
    <2>1. HubType'
      BY <1>6 DEF HubRecvRegister, HubType
    <2>2. ConnType'
      BY <1>6 DEF HubRecvRegister, ConnType
    <2>3. WriteType'
      BY <1>6 DEF HubRecvRegister, WriteType
    <2> QED
      BY <1>6, <2>1, <2>2, <2>3, TypeUnchanged DEF HubRecvRegister
  <1>7. ASSUME NEW c \in Client, HubRecvUnregister(c) PROVE TypeOK'
    <2>1. HubType'
      BY <1>7 DEF HubRecvUnregister, HubType
    <2>2. ConnType'
      BY <1>7 DEF HubRecvUnregister, ConnType
    <2> QED
      BY <1>7, <2>1, <2>2, TypeUnchanged DEF HubRecvUnregister
  <1>8. ASSUME NEW c \in Client, HubRecvEvict(c) PROVE TypeOK'
    <2>1. HubType'
      BY <1>8 DEF HubRecvEvict, HubType
    <2>2. ChanType'
      BY <1>8 DEF HubRecvEvict, ChanType
    <2> QED
      BY <1>8, <2>1, <2>2, TypeUnchanged DEF HubRecvEvict
  <1>9. ASSUME NEW c \in Client, HubRecvClientBroadcast(c) PROVE TypeOK'
    <2>1. HubType'
      BY <1>9, InHandTypes DEF HubRecvClientBroadcast, StartSendToRoom,
         SendToRoomRest, HubType, ConnType
    <2>2. ConnType'
      BY <1>9 DEF HubRecvClientBroadcast, StartSendToRoom, SendToRoomRest, ConnType
    <2>3. EnvType'
      BY <1>9, InHandTypes DEF HubRecvClientBroadcast, StartSendToRoom,
         SendToRoomRest, EnvType, ConnType, envVars, auxVars
    <2> QED
      BY <1>9, <2>1, <2>2, <2>3, TypeUnchanged DEF HubRecvClientBroadcast
  <1>10. ASSUME RelaySubscribe PROVE TypeOK'
    <2>1. RelayType'
      BY <1>10 DEF RelaySubscribe, RelayType
    <2> QED
      BY <1>10, <2>1, TypeUnchanged DEF RelaySubscribe
  <1>11. ASSUME RelayRecvRoom PROVE TypeOK'
    <2>1. RelayType'
      BY <1>11 DEF RelayRecvRoom, RelayType
    <2> QED
      BY <1>11, <2>1, TypeUnchanged DEF RelayRecvRoom
  <1>12. ASSUME RelayRecvUser PROVE TypeOK'
    <2>1. RelayType'
      BY <1>12, InHandTypes DEF RelayRecvUser, SendToUserRest, RelayType, HubType
    <2>2. EnvType'
      BY <1>12, InHandTypes DEF RelayRecvUser, SendToUserRest, EnvType, RelayType,
         envVars, auxVars
    <2> QED
      BY <1>12, <2>1, <2>2, TypeUnchanged DEF RelayRecvUser
  <1>13. ASSUME RelayStop PROVE TypeOK'
    <2>1. RelayType'
      BY <1>13 DEF RelayStop, RelayType
    <2> QED
      BY <1>13, <2>1, TypeUnchanged DEF RelayStop
  <1>14. ASSUME NEW c \in Client, SendToUserStep(c) PROVE TypeOK'
    <2>1. HubType'
      BY <1>14 DEF SendToUserStep, HubType
    <2>2. ChanType'
      <3>1. CASE send' = send
        BY <1>14, <3>1 DEF SendToUserStep, ChanType
      <3>2. CASE /\ HasSpace(c) /\ closed' = closed
                 /\ send' = [send EXCEPT ![c] = Append(@, relayEvent[1])]
        BY <1>14, <3>2, InHandTypes, EnqueueType DEF SendToUserStep, ChanType
      <3> QED
        BY <1>14, <3>1, <3>2 DEF SendToUserStep
    <2>3. RelayType'
      BY <1>14, InHandTypes DEF SendToUserStep, SendToUserRest, HasSpace, RelayType
    <2>4. EnvType'
      BY <1>14, InHandTypes DEF SendToUserStep, SendToUserRest, HasSpace, EnvType,
         RelayType, envVars, auxVars
    <2> QED
      BY <1>14, <2>1, <2>2, <2>3, <2>4, TypeUnchanged DEF SendToUserStep
  <1>15. ASSUME NEW c \in Client, ReadFail(c) PROVE TypeOK'
    <2>1. ConnType'
      BY <1>15 DEF ReadFail, AfterReadError, ConnType
    <2> QED
      BY <1>15, <2>1, TypeUnchanged DEF ReadFail
  <1>16. ASSUME NEW c \in Client, ReadPumpReturn(c) PROVE TypeOK'
    <2>1. ConnType'
      BY <1>16 DEF ReadPumpReturn, ConnType
    <2> QED
      BY <1>16, <2>1, TypeUnchanged DEF ReadPumpReturn
  <1>17. ASSUME NEW c \in Client, WriteRecv(c) PROVE TypeOK'
    <2>1. ChanType'
      BY <1>17 DEF WriteRecv, ChanType
    <2>2. WriteType'
      BY <1>17 DEF WriteRecv, WriteType, ChanType
    <2> QED
      BY <1>17, <2>1, <2>2, TypeUnchanged DEF WriteRecv
  <1>18. ASSUME NEW c \in Client, WriteCount(c) PROVE TypeOK'
    <2>1. WriteType'
      BY <1>18 DEF WriteCount, FlushCount, WriteType
    <2> QED
      BY <1>18, <2>1, TypeUnchanged DEF WriteCount
  <1>19. ASSUME NEW c \in Client, WriteFlush(c) PROVE TypeOK'
    <2>1. ChanType'
      <3>1. CASE send' = send
        BY <1>19, <3>1 DEF WriteFlush, ChanType
      <3>2. CASE send[c] # <<>> /\ send' = [send EXCEPT ![c] = Tail(@)]
        BY <1>19, <3>2, DequeueType DEF WriteFlush, ChanType
      <3> QED
        BY <1>19, <3>1, <3>2 DEF WriteFlush
    <2>2. WriteType'
      <3>1. wn' \in [Client -> Nat]
        <4>1. wn[c] - 1 \in Nat
          BY <1>19 DEF WriteFlush, WriteType
        <4> QED
          BY <1>19, <4>1 DEF WriteFlush, WriteType
      <3>2. CASE frame' = frame
        BY <1>19, <3>1, <3>2 DEF WriteFlush, WriteType
      <3>3. CASE /\ send[c] # <<>>
                 /\ frame' = [frame EXCEPT ![c] = Append(@, Head(send[c]))]
        <4>1. Head(send[c]) \in Event
          BY <3>3 DEF ChanType
        <4>2. Append(frame[c], Head(send[c])) \in Seq(Event)
          BY <4>1 DEF WriteType
        <4> QED
          BY <1>19, <3>1, <3>3, <4>2 DEF WriteFlush, WriteType
      <3> QED
        BY <1>19, <3>2, <3>3 DEF WriteFlush, WriteToFrame
    <2> QED
      BY <1>19, <2>1, <2>2, TypeUnchanged DEF WriteFlush
  <1>20. ASSUME NEW c \in Client, WriteFrame(c) PROVE TypeOK'
    <2>1. WriteType'
      BY <1>20 DEF WriteFrame, WriteType
    <2> QED
      BY <1>20, <2>1, TypeUnchanged DEF WriteFrame
  <1>21. ASSUME NEW c \in Client, WriteFail(c) PROVE TypeOK'
    <2>1. ConnType'
      BY <1>21 DEF WriteFail, WritePumpReturn, ConnType
    <2>2. WriteType'
      BY <1>21 DEF WriteFail, WritePumpReturn, WriteType
    <2> QED
      BY <1>21, <2>1, <2>2, TypeUnchanged DEF WriteFail, WritePumpReturn
  <1>22. ASSUME NEW c \in Client, WriteClosed(c) PROVE TypeOK'
    <2>1. ConnType'
      BY <1>22 DEF WriteClosed, WritePumpReturn, ConnType
    <2>2. WriteType'
      BY <1>22 DEF WriteClosed, WritePumpReturn, WriteType
    <2> QED
      BY <1>22, <2>1, <2>2, TypeUnchanged DEF WriteClosed, WritePumpReturn
  <1>23. ASSUME NEW c \in Client, Connect(c) PROVE TypeOK'
    <2>1. ConnType'
      BY <1>23 DEF Connect, ConnType
    <2> QED
      BY <1>23, <2>1, TypeUnchanged DEF Connect
  <1>24. ASSUME NEW c \in Client, LoseConn(c) PROVE TypeOK'
    <2>1. ConnType'
      BY <1>24 DEF LoseConn, ConnType
    <2> QED
      BY <1>24, <2>1, TypeUnchanged DEF LoseConn
  <1>25. ASSUME NEW c \in Client, NEW r \in Room, handleSendMessage(c, r) PROVE TypeOK'
    <2>1. ConnType'
      BY <1>25, EventTypes DEF handleSendMessage, Publish, TakeId, ConnType, EnvType
    <2>2. RelayType'
      <3> DEFINE e == Broadcast(nextId, "bus", r, NoClient)
      <3>1. e \in Event /\ e.to = r /\ e.kind = "room"
        BY <1>25, EventTypes DEF handleSendMessage
      <3>2. Publish(e) /\ UNCHANGED <<relayPc, relayEvent, relayTodo>>
        BY <1>25 DEF handleSendMessage
      <3> HIDE DEF e
      <3> QED
        BY <3>1, <3>2, PublishType
    <2>3. EnvType'
      BY <1>25, EventTypes DEF handleSendMessage, Publish, TakeId, EnvType, envVars,
         auxVars
    <2> QED
      BY <1>25, <2>1, <2>2, <2>3, TypeUnchanged DEF handleSendMessage
  <1>26. ASSUME NEW c \in Client,
                 NEW n \in {{}} \cup {{r} : r \in Room}, handleTypingEvent(c, n) PROVE TypeOK'
    <2>1. ConnType'
      BY <1>26, EventTypes DEF handleTypingEvent, TypingRoom, isMember, roomSet,
         TakeId, ConnType, EnvType
    <2>2. EnvType'
      BY <1>26, EventTypes DEF handleTypingEvent, TypingRoom, isMember, roomSet,
         TakeId, EnvType, envVars, auxVars
    <2> QED
      BY <1>26, <2>1, <2>2, TypeUnchanged DEF handleTypingEvent
  <1>27. ASSUME Cancel PROVE TypeOK'
    <2>1. EnvType'
      BY <1>27 DEF Cancel, EnvType, envVars, auxVars
    <2> QED
      BY <1>27, <2>1, TypeUnchanged DEF Cancel
  <1>28. ASSUME PublishElsewhere PROVE TypeOK'
    <2>1. RelayType'
      <3>1. CASE \E r \in Room : Publish(Broadcast(nextId, "bus", r, NoClient))
        BY <1>28, <3>1, EventTypes, PublishType DEF PublishElsewhere
      <3>2. CASE \E u \in User : Publish(UserEvent(nextId, u))
        BY <1>28, <3>2, EventTypes, PublishType DEF PublishElsewhere
      <3> QED
        BY <1>28, <3>1, <3>2 DEF PublishElsewhere
    <2>2. EnvType'
      BY <1>28, EventTypes DEF PublishElsewhere, Publish, TakeId, EnvType, envVars,
         auxVars
    <2> QED
      BY <1>28, <2>1, <2>2, TypeUnchanged DEF PublishElsewhere
  <1>29. CASE UNCHANGED vars
    BY <1>29, TypeUnchanged DEF vars
  <1> QED
    BY <1>1, <1>2, <1>3, <1>4, <1>5, <1>6, <1>7, <1>8, <1>9, <1>10, <1>11, <1>12,
       <1>13, <1>14,
       <1>15, <1>16, <1>17, <1>18, <1>19, <1>20, <1>21, <1>22, <1>23, <1>24,
       <1>25, <1>26, <1>27, <1>28, <1>29
    DEF Next, HubStep, HubSelect, Relay, ReadPump, WritePump, Peer
-----------------------------------------------------------------------------
(***************************************************************************)
(* Safety.                                                                 *)
(***************************************************************************)

\* The variables Inv is about.
coreVars == <<clients, rooms, users, hubPc, hubClient, hubTodo, closed, evict, rpc,
              relayPc, relayTodo, overflow, crash>>

\* Steps that leave them alone keep Inv.
LEMMA InvUnchanged == ASSUME Inv, UNCHANGED coreVars PROVE Inv'
  BY DEF Inv, coreVars, Alive, CrashCause, TodoInv, RegistryConsistent, LifecycleInv,
         QuietInv, Untouched, isMember, roomSet

\* Every step keeps Inv: one case per action that can disturb it, one step per
\* conjunct.
LEMMA InvStep == ASSUME TypeOK, Inv, Next PROVE Inv'
  <1> USE HubAssumption DEF TypeOK, HubType, ChanType, ConnType, RelayType, EnvType
  <1> Alive /\ CrashCause /\ TodoInv /\ RegistryConsistent /\ LifecycleInv /\ QuietInv
    BY DEF Inv, Next
  <1> USE DEF Alive
  <1>1. ASSUME addClient PROVE Inv'
    <2>1. CrashCause'
      BY <1>1 DEF addClient, WriteLockFree, chanVars, connVars, writeVars, relayVars,
         envVars, auxVars, CrashCause, QuietInv, RegistryConsistent
    <2>2. Alive' => TodoInv'
      BY <1>1 DEF addClient, WriteLockFree, chanVars, connVars, writeVars, relayVars,
         envVars, auxVars, TodoInv
    <2>3. Alive' => RegistryConsistent'
      BY <1>1 DEF addClient, WriteLockFree, chanVars, connVars, writeVars, relayVars,
         envVars, auxVars, RegistryConsistent, LifecycleInv, Untouched
    <2>4. Alive' => LifecycleInv'
      BY <1>1 DEF addClient, WriteLockFree, chanVars, connVars, writeVars, relayVars,
         envVars, auxVars, LifecycleInv, Untouched, RegistryConsistent, TodoInv
    <2>5. Alive' => QuietInv'
      BY <1>1 DEF addClient, WriteLockFree, chanVars, connVars, writeVars, relayVars,
         envVars, auxVars, QuietInv, RegistryConsistent, LifecycleInv, TodoInv, Untouched
    <2> QED
      BY <2>1, <2>2, <2>3, <2>4, <2>5 DEF Inv
  <1>2. ASSUME removeClient PROVE Inv'
    <2>1. CrashCause'
      BY <1>2 DEF removeClient, LeaveRooms, WriteLockFree, connVars, writeVars,
         relayVars, envVars, auxVars, CrashCause, QuietInv, RegistryConsistent
    <2>2. Alive' => TodoInv'
      BY <1>2 DEF removeClient, LeaveRooms, WriteLockFree, connVars, writeVars,
         relayVars, envVars, auxVars, TodoInv
    <2>3. Alive' => RegistryConsistent'
      BY <1>2 DEF removeClient, LeaveRooms, WriteLockFree, connVars, writeVars,
         relayVars, envVars, auxVars, RegistryConsistent, LifecycleInv, Untouched
    <2>4. Alive' => LifecycleInv'
      BY <1>2 DEF removeClient, LeaveRooms, WriteLockFree, connVars, writeVars,
         relayVars, envVars, auxVars, LifecycleInv, Untouched, RegistryConsistent,
         TodoInv
    <2>5. Alive' => QuietInv'
      BY <1>2 DEF removeClient, LeaveRooms, WriteLockFree, connVars, writeVars,
         relayVars, envVars, auxVars, QuietInv, RegistryConsistent, LifecycleInv,
         TodoInv, Untouched
    <2> QED
      BY <2>1, <2>2, <2>3, <2>4, <2>5 DEF Inv
  <1>3. ASSUME NEW c \in Client, SendToRoomStep(c) PROVE Inv'
    <2>1. CrashCause'
      BY <1>3 DEF SendToRoomStep, SendToRoomRest, SpawnEvict, connVars, writeVars,
         relayVars, envVars, CrashCause, QuietInv, RegistryConsistent
    <2>2. Alive' => TodoInv'
      BY <1>3 DEF SendToRoomStep, SendToRoomRest, SpawnEvict, connVars, writeVars,
         relayVars, envVars, TodoInv
    <2>3. Alive' => RegistryConsistent'
      BY <1>3 DEF SendToRoomStep, SendToRoomRest, SpawnEvict, connVars, writeVars,
         relayVars, envVars, RegistryConsistent, LifecycleInv, Untouched
    <2>4. Alive' => LifecycleInv'
      BY <1>3 DEF SendToRoomStep, SendToRoomRest, SpawnEvict, connVars, writeVars,
         relayVars, envVars, LifecycleInv, Untouched, RegistryConsistent, TodoInv
    <2>5. Alive' => QuietInv'
      BY <1>3 DEF SendToRoomStep, SendToRoomRest, SpawnEvict, connVars, writeVars,
         relayVars, envVars, QuietInv, RegistryConsistent, LifecycleInv, TodoInv,
         Untouched
    <2> QED
      BY <2>1, <2>2, <2>3, <2>4, <2>5 DEF Inv
  <1>4. ASSUME shutdown PROVE Inv'
    <2>1. CrashCause'
      BY <1>4 DEF shutdown, CloseAll, WriteLockFree, connVars, writeVars, relayVars,
         envVars, auxVars, CrashCause, QuietInv, RegistryConsistent
    <2>2. Alive' => TodoInv'
      BY <1>4 DEF shutdown, CloseAll, WriteLockFree, connVars, writeVars, relayVars,
         envVars, auxVars, TodoInv
    <2>3. Alive' => RegistryConsistent'
      BY <1>4 DEF shutdown, CloseAll, WriteLockFree, connVars, writeVars, relayVars,
         envVars, auxVars, RegistryConsistent, LifecycleInv, Untouched
    <2>4. Alive' => LifecycleInv'
      BY <1>4 DEF shutdown, CloseAll, WriteLockFree, connVars, writeVars, relayVars,
         envVars, auxVars, LifecycleInv, Untouched, RegistryConsistent, TodoInv
    <2>5. Alive' => QuietInv'
      BY <1>4 DEF shutdown, CloseAll, WriteLockFree, connVars, writeVars, relayVars,
         envVars, auxVars, QuietInv, RegistryConsistent, LifecycleInv, TodoInv, Untouched
    <2> QED
      BY <2>1, <2>2, <2>3, <2>4, <2>5 DEF Inv
  <1>5. ASSUME HubRecvRelayBroadcast PROVE Inv'
    <2>1. CrashCause'
      BY <1>5 DEF HubRecvRelayBroadcast, StartSendToRoom, SendToRoomRest, chanVars,
         connVars, writeVars, envVars, CrashCause, QuietInv, RegistryConsistent
    <2>2. Alive' => TodoInv'
      BY <1>5 DEF HubRecvRelayBroadcast, StartSendToRoom, SendToRoomRest, chanVars,
         connVars, writeVars, envVars, TodoInv
    <2>3. Alive' => RegistryConsistent'
      BY <1>5 DEF HubRecvRelayBroadcast, StartSendToRoom, SendToRoomRest, chanVars,
         connVars, writeVars, envVars, RegistryConsistent, LifecycleInv, Untouched
    <2>4. Alive' => LifecycleInv'
      BY <1>5 DEF HubRecvRelayBroadcast, StartSendToRoom, SendToRoomRest, chanVars,
         connVars, writeVars, envVars, LifecycleInv, Untouched, RegistryConsistent,
         TodoInv
    <2>5. Alive' => QuietInv'
      BY <1>5 DEF HubRecvRelayBroadcast, StartSendToRoom, SendToRoomRest, chanVars,
         connVars, writeVars, envVars, QuietInv, RegistryConsistent, LifecycleInv,
         TodoInv, Untouched
    <2> QED
      BY <2>1, <2>2, <2>3, <2>4, <2>5 DEF Inv
  <1>6. ASSUME NEW c \in Client, HubRecvRegister(c) PROVE Inv'
    <2>1. CrashCause'
      BY <1>6 DEF HubRecvRegister, chanVars, relayVars, envVars, auxVars, CrashCause,
         QuietInv, RegistryConsistent
    <2>2. Alive' => TodoInv'
      BY <1>6 DEF HubRecvRegister, chanVars, relayVars, envVars, auxVars, TodoInv
    <2>3. Alive' => RegistryConsistent'
      BY <1>6 DEF HubRecvRegister, chanVars, relayVars, envVars, auxVars,
         RegistryConsistent, LifecycleInv, Untouched
    <2>4. Alive' => LifecycleInv'
      BY <1>6 DEF HubRecvRegister, chanVars, relayVars, envVars, auxVars,
         LifecycleInv, Untouched, RegistryConsistent, TodoInv
    <2>5. Alive' => QuietInv'
      BY <1>6 DEF HubRecvRegister, chanVars, relayVars, envVars, auxVars, QuietInv,
         RegistryConsistent, LifecycleInv, TodoInv, Untouched
    <2> QED
      BY <2>1, <2>2, <2>3, <2>4, <2>5 DEF Inv
  <1>7. ASSUME NEW c \in Client, HubRecvUnregister(c) PROVE Inv'
    <2>1. CrashCause'
      BY <1>7 DEF HubRecvUnregister, chanVars, writeVars, relayVars, envVars, auxVars,
         CrashCause, QuietInv, RegistryConsistent
    <2>2. Alive' => TodoInv'
      BY <1>7 DEF HubRecvUnregister, chanVars, writeVars, relayVars, envVars, auxVars,
         TodoInv
    <2>3. Alive' => RegistryConsistent'
      BY <1>7 DEF HubRecvUnregister, chanVars, writeVars, relayVars, envVars, auxVars,
         RegistryConsistent, LifecycleInv, Untouched
    <2>4. Alive' => LifecycleInv'
      BY <1>7 DEF HubRecvUnregister, chanVars, writeVars, relayVars, envVars, auxVars,
         LifecycleInv, Untouched, RegistryConsistent, TodoInv
    <2>5. Alive' => QuietInv'
      BY <1>7 DEF HubRecvUnregister, chanVars, writeVars, relayVars, envVars, auxVars,
         QuietInv, RegistryConsistent, LifecycleInv, TodoInv, Untouched
    <2> QED
      BY <2>1, <2>2, <2>3, <2>4, <2>5 DEF Inv
  <1>8. ASSUME NEW c \in Client, HubRecvEvict(c) PROVE Inv'
    <2>1. CrashCause'
      BY <1>8 DEF HubRecvEvict, connVars, writeVars, relayVars, envVars, auxVars,
         CrashCause, QuietInv, RegistryConsistent
    <2>2. Alive' => TodoInv'
      BY <1>8 DEF HubRecvEvict, connVars, writeVars, relayVars, envVars, auxVars,
         TodoInv
    <2>3. Alive' => RegistryConsistent'
      BY <1>8 DEF HubRecvEvict, connVars, writeVars, relayVars, envVars, auxVars,
         RegistryConsistent, LifecycleInv, Untouched
    <2>4. Alive' => LifecycleInv'
      BY <1>8 DEF HubRecvEvict, connVars, writeVars, relayVars, envVars, auxVars,
         LifecycleInv, Untouched, RegistryConsistent, TodoInv
    <2>5. Alive' => QuietInv'
      BY <1>8 DEF HubRecvEvict, connVars, writeVars, relayVars, envVars, auxVars,
         QuietInv, RegistryConsistent, LifecycleInv, TodoInv, Untouched
    <2> QED
      BY <2>1, <2>2, <2>3, <2>4, <2>5 DEF Inv
  <1>9. ASSUME NEW c \in Client, HubRecvClientBroadcast(c) PROVE Inv'
    <2>1. CrashCause'
      BY <1>9 DEF HubRecvClientBroadcast, StartSendToRoom, SendToRoomRest, chanVars,
         writeVars, relayVars, envVars, CrashCause, QuietInv, RegistryConsistent
    <2>2. Alive' => TodoInv'
      BY <1>9 DEF HubRecvClientBroadcast, StartSendToRoom, SendToRoomRest, chanVars,
         writeVars, relayVars, envVars, TodoInv
    <2>3. Alive' => RegistryConsistent'
      BY <1>9 DEF HubRecvClientBroadcast, StartSendToRoom, SendToRoomRest, chanVars,
         writeVars, relayVars, envVars, RegistryConsistent, LifecycleInv, Untouched
    <2>4. Alive' => LifecycleInv'
      BY <1>9 DEF HubRecvClientBroadcast, StartSendToRoom, SendToRoomRest, chanVars,
         writeVars, relayVars, envVars, LifecycleInv, Untouched, RegistryConsistent,
         TodoInv
    <2>5. Alive' => QuietInv'
      BY <1>9 DEF HubRecvClientBroadcast, StartSendToRoom, SendToRoomRest, chanVars,
         writeVars, relayVars, envVars, QuietInv, RegistryConsistent, LifecycleInv,
         TodoInv, Untouched
    <2> QED
      BY <2>1, <2>2, <2>3, <2>4, <2>5 DEF Inv
  <1>10. ASSUME RelaySubscribe PROVE Inv'
    <2>1. CrashCause'
      BY <1>10 DEF RelaySubscribe, hubVars, chanVars, connVars, writeVars, envVars,
         auxVars, CrashCause, QuietInv, RegistryConsistent
    <2>2. Alive' => TodoInv'
      BY <1>10 DEF RelaySubscribe, hubVars, chanVars, connVars, writeVars, envVars,
         auxVars, TodoInv
    <2>3. Alive' => RegistryConsistent'
      BY <1>10 DEF RelaySubscribe, hubVars, chanVars, connVars, writeVars, envVars,
         auxVars, RegistryConsistent, LifecycleInv, Untouched
    <2>4. Alive' => LifecycleInv'
      BY <1>10 DEF RelaySubscribe, hubVars, chanVars, connVars, writeVars, envVars,
         auxVars, LifecycleInv, Untouched, RegistryConsistent, TodoInv
    <2>5. Alive' => QuietInv'
      BY <1>10 DEF RelaySubscribe, hubVars, chanVars, connVars, writeVars, envVars,
         auxVars, QuietInv, RegistryConsistent, LifecycleInv, TodoInv, Untouched
    <2> QED
      BY <2>1, <2>2, <2>3, <2>4, <2>5 DEF Inv
  <1>11. ASSUME RelayRecvRoom PROVE Inv'
    <2>1. CrashCause'
      BY <1>11 DEF RelayRecvRoom, hubVars, chanVars, connVars, writeVars, envVars,
         auxVars, CrashCause, QuietInv, RegistryConsistent
    <2>2. Alive' => TodoInv'
      BY <1>11 DEF RelayRecvRoom, hubVars, chanVars, connVars, writeVars, envVars,
         auxVars, TodoInv
    <2>3. Alive' => RegistryConsistent'
      BY <1>11 DEF RelayRecvRoom, hubVars, chanVars, connVars, writeVars, envVars,
         auxVars, RegistryConsistent, LifecycleInv, Untouched
    <2>4. Alive' => LifecycleInv'
      BY <1>11 DEF RelayRecvRoom, hubVars, chanVars, connVars, writeVars, envVars,
         auxVars, LifecycleInv, Untouched, RegistryConsistent, TodoInv
    <2>5. Alive' => QuietInv'
      BY <1>11 DEF RelayRecvRoom, hubVars, chanVars, connVars, writeVars, envVars,
         auxVars, QuietInv, RegistryConsistent, LifecycleInv, TodoInv, Untouched
    <2> QED
      BY <2>1, <2>2, <2>3, <2>4, <2>5 DEF Inv
  <1>12. ASSUME RelayRecvUser PROVE Inv'
    <2>1. CrashCause'
      BY <1>12 DEF RelayRecvUser, SendToUserRest, hubVars, chanVars, connVars,
         writeVars, envVars, CrashCause, QuietInv, RegistryConsistent
    <2>2. Alive' => TodoInv'
      BY <1>12 DEF RelayRecvUser, SendToUserRest, hubVars, chanVars, connVars,
         writeVars, envVars, TodoInv
    <2>3. Alive' => RegistryConsistent'
      BY <1>12 DEF RelayRecvUser, SendToUserRest, hubVars, chanVars, connVars,
         writeVars, envVars, RegistryConsistent, LifecycleInv, Untouched
    <2>4. Alive' => LifecycleInv'
      <3>1. UNCHANGED <<clients, rooms, users, hubPc, hubClient, hubTodo, closed, evict,
                        overflow, rpc>>
        BY <1>12 DEF RelayRecvUser, hubVars, chanVars, connVars
      <3>2. PICK u \in User : relayTodo' = users[u]
        BY <1>12 DEF RelayRecvUser, SendToUserRest
      <3>3. \A d \in Client : Untouched(d) => Untouched(d)'
        BY <3>1, <3>2 DEF Untouched
      <3> QED
        BY <3>1, <3>3 DEF LifecycleInv
    <2>5. Alive' => QuietInv'
      BY <1>12 DEF RelayRecvUser, SendToUserRest, hubVars, chanVars, connVars,
         writeVars, envVars, QuietInv, RegistryConsistent, LifecycleInv, TodoInv,
         Untouched
    <2> QED
      BY <2>1, <2>2, <2>3, <2>4, <2>5 DEF Inv
  <1>13. ASSUME RelayStop PROVE Inv'
    <2>1. CrashCause'
      BY <1>13 DEF RelayStop, hubVars, chanVars, connVars, writeVars, envVars,
         auxVars, CrashCause, QuietInv, RegistryConsistent
    <2>2. Alive' => TodoInv'
      BY <1>13 DEF RelayStop, hubVars, chanVars, connVars, writeVars, envVars,
         auxVars, TodoInv
    <2>3. Alive' => RegistryConsistent'
      BY <1>13 DEF RelayStop, hubVars, chanVars, connVars, writeVars, envVars,
         auxVars, RegistryConsistent, LifecycleInv, Untouched
    <2>4. Alive' => LifecycleInv'
      BY <1>13 DEF RelayStop, hubVars, chanVars, connVars, writeVars, envVars,
         auxVars, LifecycleInv, Untouched, RegistryConsistent, TodoInv
    <2>5. Alive' => QuietInv'
      BY <1>13 DEF RelayStop, hubVars, chanVars, connVars, writeVars, envVars,
         auxVars, QuietInv, RegistryConsistent, LifecycleInv, TodoInv, Untouched
    <2> QED
      BY <2>1, <2>2, <2>3, <2>4, <2>5 DEF Inv
  <1>14. ASSUME NEW c \in Client, SendToUserStep(c) PROVE Inv'
    <2>1. CrashCause'
      BY <1>14 DEF SendToUserStep, SendToUserRest, connVars, writeVars, envVars,
         CrashCause, QuietInv, RegistryConsistent
    <2>2. Alive' => TodoInv'
      BY <1>14 DEF SendToUserStep, SendToUserRest, connVars, writeVars, envVars, TodoInv
    <2>3. Alive' => RegistryConsistent'
      <3>1. CASE closed' = closed /\ users' = users
        BY <1>14, <3>1 DEF SendToUserStep, RegistryConsistent
      <3>2. CASE /\ closed' = closed \cup {c}
                 /\ users' = [users EXCEPT ![UserOf[c]] = @ \ {c}]
        <4>1. ASSUME NEW u \in User, hubPc # "done"
              PROVE  users'[u] = {d \in clients : UserOf[d] = u} \ closed'
          <5>1. users[u] = {d \in clients : UserOf[d] = u} \ closed
            BY <4>1 DEF RegistryConsistent
          <5>2. users'[u] = IF u = UserOf[c] THEN users[u] \ {c} ELSE users[u]
            BY <3>2
          <5> QED
            BY <3>2, <5>1, <5>2
        <4> QED
          BY <1>14, <4>1 DEF SendToUserStep, RegistryConsistent
      <3> QED
        BY <1>14, <3>1, <3>2 DEF SendToUserStep
    <2>4. Alive' => LifecycleInv'
      <3>1. /\ closed' \subseteq closed \cup {c} /\ overflow' \subseteq overflow \cup {c}
            /\ relayTodo' \subseteq relayTodo
            /\ \A u \in User : users'[u] \subseteq users[u]
        <4>1. closed' \subseteq closed \cup {c} /\ overflow' \subseteq overflow \cup {c}
          BY <1>14 DEF SendToUserStep
        <4>2. relayTodo' \subseteq relayTodo
          BY <1>14 DEF SendToUserStep, SendToUserRest
        <4>3. users' = users \/ users' = [users EXCEPT ![UserOf[c]] = @ \ {c}]
          BY <1>14 DEF SendToUserStep
        <4>4. \A u \in User : users'[u] \subseteq users[u]
          BY <4>3
        <4> QED
          BY <4>1, <4>2, <4>4
      <3>2. \A d \in Client : Untouched(d) => d # c
        BY <1>14 DEF SendToUserStep, Untouched
      <3>3. UNCHANGED <<clients, rooms, hubPc, hubClient, hubTodo, evict, rpc>>
        BY <1>14 DEF SendToUserStep, connVars
      <3>4. \A d \in Client : Untouched(d) => Untouched(d)'
        BY <3>1, <3>2, <3>3 DEF Untouched
      <3> QED
        BY <3>3, <3>4 DEF LifecycleInv
    <2>5. Alive' => QuietInv'
      BY <1>14 DEF SendToUserStep, SendToUserRest, connVars, writeVars, envVars,
         QuietInv, RegistryConsistent, LifecycleInv, TodoInv, Untouched
    <2> QED
      BY <2>1, <2>2, <2>3, <2>4, <2>5 DEF Inv
  <1>15. ASSUME NEW c \in Client, ReadFail(c) PROVE Inv'
    <2>1. CrashCause'
      BY <1>15 DEF ReadFail, AfterReadError, hubVars, chanVars, writeVars, relayVars,
         envVars, auxVars, CrashCause, QuietInv, RegistryConsistent
    <2>2. Alive' => TodoInv'
      BY <1>15 DEF ReadFail, AfterReadError, hubVars, chanVars, writeVars, relayVars,
         envVars, auxVars, TodoInv
    <2>3. Alive' => RegistryConsistent'
      BY <1>15 DEF ReadFail, AfterReadError, hubVars, chanVars, writeVars, relayVars,
         envVars, auxVars, RegistryConsistent, LifecycleInv, Untouched
    <2>4. Alive' => LifecycleInv'
      BY <1>15 DEF ReadFail, AfterReadError, hubVars, chanVars, writeVars, relayVars,
         envVars, auxVars, LifecycleInv, Untouched, RegistryConsistent, TodoInv
    <2>5. Alive' => QuietInv'
      BY <1>15 DEF ReadFail, AfterReadError, hubVars, chanVars, writeVars, relayVars,
         envVars, auxVars, QuietInv, RegistryConsistent, LifecycleInv, TodoInv, Untouched
    <2> QED
      BY <2>1, <2>2, <2>3, <2>4, <2>5 DEF Inv
  <1>16. ASSUME NEW c \in Client, ReadPumpReturn(c) PROVE Inv'
    <2>1. CrashCause'
      BY <1>16 DEF ReadPumpReturn, hubVars, chanVars, writeVars, relayVars, envVars,
         auxVars, CrashCause, QuietInv, RegistryConsistent
    <2>2. Alive' => TodoInv'
      BY <1>16 DEF ReadPumpReturn, hubVars, chanVars, writeVars, relayVars, envVars,
         auxVars, TodoInv
    <2>3. Alive' => RegistryConsistent'
      BY <1>16 DEF ReadPumpReturn, hubVars, chanVars, writeVars, relayVars, envVars,
         auxVars, RegistryConsistent, LifecycleInv, Untouched
    <2>4. Alive' => LifecycleInv'
      BY <1>16 DEF ReadPumpReturn, hubVars, chanVars, writeVars, relayVars, envVars,
         auxVars, LifecycleInv, Untouched, RegistryConsistent, TodoInv
    <2>5. Alive' => QuietInv'
      BY <1>16 DEF ReadPumpReturn, hubVars, chanVars, writeVars, relayVars, envVars,
         auxVars, QuietInv, RegistryConsistent, LifecycleInv, TodoInv, Untouched
    <2> QED
      BY <2>1, <2>2, <2>3, <2>4, <2>5 DEF Inv
  <1>17. ASSUME NEW c \in Client, Connect(c) PROVE Inv'
    <2>1. CrashCause'
      BY <1>17 DEF Connect, hubVars, chanVars, writeVars, relayVars, envVars, auxVars,
         CrashCause, QuietInv, RegistryConsistent
    <2>2. Alive' => TodoInv'
      BY <1>17 DEF Connect, hubVars, chanVars, writeVars, relayVars, envVars, auxVars,
         TodoInv
    <2>3. Alive' => RegistryConsistent'
      BY <1>17 DEF Connect, hubVars, chanVars, writeVars, relayVars, envVars, auxVars,
         RegistryConsistent, LifecycleInv, Untouched
    <2>4. Alive' => LifecycleInv'
      BY <1>17 DEF Connect, hubVars, chanVars, writeVars, relayVars, envVars, auxVars,
         LifecycleInv, Untouched, RegistryConsistent, TodoInv
    <2>5. Alive' => QuietInv'
      BY <1>17 DEF Connect, hubVars, chanVars, writeVars, relayVars, envVars, auxVars,
         QuietInv, RegistryConsistent, LifecycleInv, TodoInv, Untouched
    <2> QED
      BY <2>1, <2>2, <2>3, <2>4, <2>5 DEF Inv
  <1>18. ASSUME NEW c \in Client, NEW r \in Room, handleSendMessage(c, r) PROVE Inv'
    <2>1. CrashCause'
      BY <1>18 DEF handleSendMessage, hubVars, chanVars, writeVars, auxVars,
         CrashCause, QuietInv, RegistryConsistent
    <2>2. Alive' => TodoInv'
      BY <1>18 DEF handleSendMessage, hubVars, chanVars, writeVars, auxVars, TodoInv
    <2>3. Alive' => RegistryConsistent'
      BY <1>18 DEF handleSendMessage, hubVars, chanVars, writeVars, auxVars,
         RegistryConsistent, LifecycleInv, Untouched
    <2>4. Alive' => LifecycleInv'
      BY <1>18 DEF handleSendMessage, hubVars, chanVars, writeVars, auxVars,
         LifecycleInv, Untouched, RegistryConsistent, TodoInv
    <2>5. Alive' => QuietInv'
      BY <1>18 DEF handleSendMessage, hubVars, chanVars, writeVars, auxVars, QuietInv,
         RegistryConsistent, LifecycleInv, TodoInv, Untouched
    <2> QED
      BY <2>1, <2>2, <2>3, <2>4, <2>5 DEF Inv
  <1>19. ASSUME NEW c \in Client, NEW n, handleTypingEvent(c, n) PROVE Inv'
    <2>1. CrashCause'
      BY <1>19 DEF handleTypingEvent, hubVars, chanVars, writeVars, relayVars,
         auxVars, CrashCause, QuietInv, RegistryConsistent
    <2>2. Alive' => TodoInv'
      BY <1>19 DEF handleTypingEvent, hubVars, chanVars, writeVars, relayVars,
         auxVars, TodoInv
    <2>3. Alive' => RegistryConsistent'
      BY <1>19 DEF handleTypingEvent, hubVars, chanVars, writeVars, relayVars,
         auxVars, RegistryConsistent, LifecycleInv, Untouched
    <2>4. Alive' => LifecycleInv'
      BY <1>19 DEF handleTypingEvent, hubVars, chanVars, writeVars, relayVars,
         auxVars, LifecycleInv, Untouched, RegistryConsistent, TodoInv
    <2>5. Alive' => QuietInv'
      BY <1>19 DEF handleTypingEvent, hubVars, chanVars, writeVars, relayVars,
         auxVars, QuietInv, RegistryConsistent, LifecycleInv, TodoInv, Untouched
    <2> QED
      BY <2>1, <2>2, <2>3, <2>4, <2>5 DEF Inv
  <1>20. CASE UNCHANGED coreVars
    BY <1>20, InvUnchanged
  <1>21. ASSUME NEW c \in Client, WritePump(c) \/ LoseConn(c) PROVE UNCHANGED coreVars
    BY <1>21 DEF WritePump, LoseConn, WriteRecv, WriteCount, WriteFlush, WriteFrame,
                 WriteFail, WriteClosed, WritePumpReturn, hubVars, chanVars, connVars,
                 relayVars, auxVars, coreVars
  <1>22. ASSUME Cancel \/ PublishElsewhere PROVE UNCHANGED coreVars
    BY <1>22 DEF Cancel, PublishElsewhere, hubVars, chanVars, connVars, relayVars,
                 auxVars, coreVars
  <1> QED
    BY <1>1, <1>2, <1>3, <1>4, <1>5, <1>6, <1>7, <1>8, <1>9, <1>10, <1>11, <1>12,
       <1>13, <1>14, <1>15, <1>16, <1>17, <1>18, <1>19, <1>20, <1>21, <1>22
    DEF Next, HubStep, HubSelect, Relay, ReadPump, Peer

\* The initial state.
LEMMA InitIInv == Init => IInv
  <1> SUFFICES ASSUME Init PROVE IInv
    OBVIOUS
  <1>1. TypeOK
    <2>1. HubType
      BY DEF Init, HubType
    <2>2. ChanType
      BY HubAssumption DEF Init, ChanType
    <2>3. ConnType
      BY DEF Init, ConnType
    <2>4. WriteType
      BY DEF Init, WriteType
    <2>5. RelayType
      BY DEF Init, RelayType
    <2>6. EnvType
      <3>1. nextId \in 1..(MaxEvents + 1)
        BY HubAssumption DEF Init
      <3>2. owed \in [Client -> SUBSET Event] /\ overflow \subseteq Client
        BY DEF Init
      <3>3. ctxDone \in BOOLEAN /\ crash \in {"no", "close", "send"}
        BY DEF Init
      <3> QED
        BY <3>1, <3>2, <3>3 DEF EnvType
    <2> QED
      BY <2>1, <2>2, <2>3, <2>4, <2>5, <2>6 DEF TypeOK
  <1>2. CrashCause /\ TodoInv /\ RegistryConsistent /\ QuietInv
    BY DEF Init, CrashCause, TodoInv, RegistryConsistent, QuietInv
  <1>3. LifecycleInv
    BY DEF Init, LifecycleInv, Untouched
  <1> QED
    BY <1>1, <1>2, <1>3 DEF IInv, Inv

\* The inductive invariant holds in every state.
THEOREM Inductive == Spec => []IInv
  <1>1. Init => IInv
    BY InitIInv
  <1>2. IInv /\ [Next]_vars => IInv'
    <2> SUFFICES ASSUME IInv, [Next]_vars PROVE IInv'
      OBVIOUS
    <2>1. TypeOK'
      BY TypeStep DEF IInv
    <2>2. CASE Next
      BY <2>1, <2>2, InvStep DEF IInv
    <2>3. CASE UNCHANGED vars
      <3>1. UNCHANGED coreVars
        BY <2>3 DEF vars, coreVars, hubVars, chanVars, connVars, relayVars, auxVars
      <3> QED
        BY <2>1, <3>1, InvUnchanged DEF IInv
    <2> QED
      BY <2>2, <2>3
  <1> QED
    BY <1>1, <1>2, PTL DEF Spec

\* Type correctness; in particular no Send channel ever holds more than SendCap
\* events and every event a goroutine hands over has a room or a user to go to.
THEOREM TypeCorrect == Spec => []TypeOK
  BY Inductive, PTL DEF IInv

\* The panics of hub.go: without a buffer overflow no Send is closed twice, and
\* none is sent to after its close unless the hub has shut down.
THEOREM CrashNeedsCause == Spec => []CrashCause
  BY Inductive, PTL DEF IInv, Inv

\* The three maps of the hub agree, whatever connects, leaves and is evicted.
THEOREM RegistryCorrect == Spec => []RegistryConsistent
  <1>1. IInv => RegistryConsistent
    BY DEF IInv, Inv, RegistryConsistent
  <1> QED
    BY <1>1, Inductive, PTL
-----------------------------------------------------------------------------
(***************************************************************************)
(* Evictions and the flush loop.                                           *)
(***************************************************************************)

\* Only the hub, SendToUser and shutdown touch what EvictionUnderway is about;
\* a client enters the maps with no overflow (LifecycleInv).
LEMMA EvictionStep ==
  ASSUME TypeOK, Inv, EvictionUnderway, [Next]_vars
  PROVE  EvictionUnderway'
  <1> USE DEF EvictionUnderway
  <1>1. CASE addClient /\ Alive
    BY <1>1 DEF addClient, chanVars, auxVars, Inv, LifecycleInv, Untouched
  <1>2. CASE removeClient
    BY <1>2 DEF removeClient, auxVars
  <1>3. ASSUME NEW c \in Client, SendToRoomStep(c) PROVE EvictionUnderway'
    <2>1. /\ \A d \in Client : evict'[d] >= evict[d]
          /\ overflow' = overflow \/ (overflow' = overflow \cup {c} /\ evict'[c] > 0)
      <3>1. CASE evict' = evict /\ overflow' = overflow
        BY <3>1 DEF TypeOK, ChanType
      <3>2. CASE SpawnEvict(c) /\ overflow' = overflow \cup {c}
        <4>1. \A d \in Client : evict'[d] = IF d = c THEN evict[d] + 1 ELSE evict[d]
          BY <3>2 DEF SpawnEvict, TypeOK, ChanType
        <4>2. \A d \in Client : evict[d] \in Nat
          BY DEF TypeOK, ChanType
        <4> QED
          BY <3>2, <4>1, <4>2
      <3> QED
        BY <1>3, <3>1, <3>2 DEF SendToRoomStep
    <2>2. hubPc = "send" /\ UNCHANGED <<clients, closed>>
      BY <1>3 DEF SendToRoomStep
    <2> QED
      <3>1. \A d \in Client : evict[d] \in Nat /\ evict'[d] \in Nat
        BY TypeStep DEF TypeOK, ChanType
      <3>2. clients \subseteq Client
        BY DEF TypeOK, HubType
      <3>3. ASSUME NEW d \in clients' \cap overflow'
            PROVE  evict'[d] > 0 \/ d \in closed'
        <4>1. CASE d \in overflow
          BY <2>1, <2>2, <3>1, <3>2, <3>3, <4>1
        <4>2. CASE d = c
          BY <2>1, <2>2, <3>1, <3>2, <3>3, <4>1, <4>2
        <4> QED
          BY <2>1, <3>3, <4>1, <4>2
      <3> QED
        BY <3>3
  <1>4. CASE shutdown
    BY <1>4 DEF shutdown, CloseAll, auxVars
  <1>5. ASSUME NEW c \in Client, HubRecvEvict(c) PROVE EvictionUnderway'
    <2>1. \A d \in Client : d # c => evict'[d] = evict[d]
      BY <1>5 DEF HubRecvEvict, TypeOK, ChanType
    <2> QED
      BY <1>5, <2>1 DEF HubRecvEvict, auxVars, TypeOK, HubType
  <1>6. ASSUME NEW c \in Client,
               HubRecvRegister(c) \/ HubRecvUnregister(c) \/ HubRecvClientBroadcast(c)
        PROVE  EvictionUnderway'
    BY <1>6 DEF HubRecvRegister, HubRecvUnregister, HubRecvClientBroadcast, chanVars,
       auxVars
  <1>7. CASE HubRecvRelayBroadcast
    BY <1>7 DEF HubRecvRelayBroadcast, chanVars
  <1>8. ASSUME NEW c \in Client, SendToUserStep(c) PROVE EvictionUnderway'
    BY <1>8 DEF SendToUserStep
  <1>9. CASE UNCHANGED <<clients, overflow, evict, closed, hubPc, hubClient>>
    BY <1>9
  <1>10. CASE RelaySubscribe \/ RelayRecvRoom \/ RelayRecvUser \/ RelayStop
    BY <1>9, <1>10 DEF RelaySubscribe, RelayRecvRoom, RelayRecvUser, RelayStop,
       hubVars, chanVars, auxVars
  <1>11. ASSUME NEW c \in Client, ReadPump(c) \/ WritePump(c) PROVE EvictionUnderway'
    BY <1>9, <1>11 DEF ReadPump, ReadFail, ReadPumpReturn, WritePump, WriteRecv,
       WriteCount, WriteFlush, WriteFrame, WriteFail, WriteClosed, WritePumpReturn,
       hubVars, chanVars, auxVars
  <1>12. ASSUME NEW c \in Client, Peer(c) PROVE EvictionUnderway'
    BY <1>9, <1>12 DEF Peer, Connect, LoseConn, handleSendMessage, handleTypingEvent,
       hubVars, chanVars, auxVars
  <1>13. CASE Cancel \/ PublishElsewhere \/ UNCHANGED vars
    BY <1>9, <1>13 DEF Cancel, PublishElsewhere, vars, hubVars, chanVars, auxVars
  <1> QED
    BY <1>1, <1>2, <1>3, <1>4, <1>5, <1>6, <1>7, <1>8, <1>10, <1>11, <1>12, <1>13
    DEF Next, HubStep, HubSelect, Relay

\* A full client that lost an event is never left registered with nothing under
\* way to disconnect it.
THEOREM EvictionNeverLost == Spec => []EvictionUnderway
  <1>1. Init => EvictionUnderway
    BY DEF Init, EvictionUnderway
  <1>2. IInv /\ EvictionUnderway /\ [Next]_vars => EvictionUnderway'
    BY EvictionStep DEF IInv
  <1> QED
    BY <1>1, <1>2, Inductive, PTL DEF Spec

\* Only the pump itself takes from Send.
LEMMA FlushStep ==
  ASSUME TypeOK, FlushWithinBuffer, [Next]_vars
  PROVE  FlushWithinBuffer'
  <1> USE DEF FlushWithinBuffer, TypeOK, ChanType, WriteType
  <1>1. ASSUME NEW c \in Client, SendToRoomStep(c) \/ SendToUserStep(c)
        PROVE  FlushWithinBuffer'
    <2>1. UNCHANGED <<wpc, wn>>
      BY <1>1 DEF SendToRoomStep, SendToUserStep, writeVars
    <2>2. send' = send \/ \E e \in Event : send' = [send EXCEPT ![c] = Append(@, e)]
      BY <1>1, InHandTypes DEF SendToRoomStep, SendToUserStep
    <2>3. \A d \in Client : Len(send'[d]) >= Len(send[d])
      <3>1. CASE send' = send
        BY <3>1
      <3>2. ASSUME NEW e \in Event, send' = [send EXCEPT ![c] = Append(@, e)]
            PROVE  \A d \in Client : Len(send'[d]) >= Len(send[d])
        <4>1. Len(Append(send[c], e)) = Len(send[c]) + 1 /\ Len(send[c]) \in Nat
          OBVIOUS
        <4> QED
          BY <3>2, <4>1
      <3> QED
        BY <2>2, <3>1, <3>2
    <2> QED
      BY <2>1, <2>3, TypeStep
  <1>2. ASSUME NEW c \in Client, WriteRecv(c) \/ WriteCount(c) \/ WriteFrame(c)
        PROVE  FlushWithinBuffer'
    BY <1>2 DEF WriteRecv, WriteCount, FlushCount, WriteFrame, chanVars
  <1>3. ASSUME NEW c \in Client, WriteFlush(c) PROVE FlushWithinBuffer'
    BY <1>3 DEF WriteFlush
  <1>4. ASSUME NEW c \in Client, WriteFail(c) \/ WriteClosed(c)
        PROVE  FlushWithinBuffer'
    BY <1>4 DEF WriteFail, WriteClosed, WritePumpReturn, chanVars
  <1>5. ASSUME NEW c \in Client, HubRecvRegister(c) PROVE FlushWithinBuffer'
    BY <1>5 DEF HubRecvRegister, chanVars
  <1>6. CASE UNCHANGED <<wpc, wn, send>>
    BY <1>6
  <1>7. CASE addClient \/ removeClient \/ shutdown \/ HubRecvRelayBroadcast
    BY <1>6, <1>7 DEF addClient, removeClient, shutdown, HubRecvRelayBroadcast,
       chanVars, writeVars
  <1>8. ASSUME NEW c \in Client,
               HubRecvUnregister(c) \/ HubRecvEvict(c) \/ HubRecvClientBroadcast(c)
        PROVE  FlushWithinBuffer'
    BY <1>6, <1>8 DEF HubRecvUnregister, HubRecvEvict, HubRecvClientBroadcast,
       chanVars, writeVars
  <1>9. CASE RelaySubscribe \/ RelayRecvRoom \/ RelayRecvUser \/ RelayStop
    BY <1>6, <1>9 DEF RelaySubscribe, RelayRecvRoom, RelayRecvUser, RelayStop,
       chanVars, writeVars
  <1>10. ASSUME NEW c \in Client, ReadPump(c) \/ Peer(c) PROVE FlushWithinBuffer'
    BY <1>6, <1>10 DEF ReadPump, ReadFail, ReadPumpReturn, Peer, Connect, LoseConn,
       handleSendMessage, handleTypingEvent, chanVars, writeVars
  <1>11. CASE Cancel \/ PublishElsewhere \/ UNCHANGED vars
    BY <1>6, <1>11 DEF Cancel, PublishElsewhere, vars, chanVars, writeVars
  <1> QED
    BY <1>1, <1>2, <1>3, <1>4, <1>5, <1>7, <1>8, <1>9, <1>10, <1>11
    DEF Next, HubStep, HubSelect, Relay, WritePump

\* The n messages WritePump counted are there when it receives them: its flush
\* loop never blocks on an empty Send.
THEOREM FlushNeverBlocks == Spec => []FlushWithinBuffer
  <1>1. Init => FlushWithinBuffer
    BY DEF Init, FlushWithinBuffer
  <1>2. IInv /\ FlushWithinBuffer /\ [Next]_vars => FlushWithinBuffer'
    BY FlushStep DEF IInv
  <1> QED
    BY <1>1, <1>2, Inductive, PTL DEF Spec
=============================================================================
