--------------------------- MODULE DeliveryProofs ---------------------------
(***************************************************************************)
(* Theorems about HubDelivery: what a connection receives, and that a node *)
(* implements Delivery, for every set of clients, rooms and users, every   *)
(* buffer capacity and every number of events.                             *)
(***************************************************************************)
EXTENDS HubDelivery, HubProofs, SequenceTheorems, FiniteSetTheorems

(***************************************************************************)
(* The inductive invariant, beside the one of HubProofs.                   *)
(***************************************************************************)

\* The WritePump has a frame under construction only between the receive that
\* starts it and the write that ends it.
FrameInv == \A c \in Client : wpc[c] \in {"idle", "select"} => frame[c] = <<>>

\* A connection the hub has not added yet has received nothing.
FreshInv ==
    \A c \in Client :
        rpc[c] \in {"none", "register"} \/ (hubPc = "add" /\ hubClient = c)
            => Received(c) = <<>>

\* The hub walks rooms and the relay walks users; a hub that returned left its
\* rooms empty.
KindInv ==
    /\ hubPc = "send" => hubEvent[1].kind = "room"
    /\ relayPc = "user" => relayEvent[1].kind = "user"
    /\ hubPc = "done" => \A r \in Room : rooms[r] = {}

\* Events no goroutine has taken up for anybody: on their way through Redis, in
\* the hands of a ReadPump, in the hands of the relay.
Waits(e) ==
    \/ \E i \in DOMAIN bus : e = bus[i]
    \/ \E c \in Client : rpc[c] = "bcast" /\ e = pending[c][1]
    \/ relayPc = "bcast" /\ e = relayEvent[1]

\* An event waits in one place.  What comes through Redis is a "bus" copy, what
\* a pump hands over a "local" one.
WaitInv ==
    /\ \A c \in Client : rpc[c] = "bcast" =>
          /\ pending[c][1].via = "local" /\ pending[c][1].kind = "room"
          /\ pending[c][1].id < nextId
    /\ \A c, d \in Client : c # d /\ rpc[c] = "bcast" /\ rpc[d] = "bcast" =>
          pending[c][1] # pending[d][1]
    /\ \A i \in DOMAIN bus : bus[i].via = "bus" /\ bus[i].id < nextId
    /\ \A i, j \in DOMAIN bus : i # j => bus[i] # bus[j]
    /\ relayPc = "bcast" =>
          /\ relayEvent[1].via = "bus" /\ relayEvent[1].kind = "room"
          /\ relayEvent[1].id < nextId
          /\ \A i \in DOMAIN bus : bus[i] # relayEvent[1]

\* What was taken up for somebody does not wait any more, and was taken up for
\* every target that is still to be visited.
OwedInv ==
    /\ \A c \in Client : \A e \in owed[c] : e.id < nextId /\ ~Waits(e)
    /\ \A c \in hubTodo : hubEvent[1] \in owed[c] <=> ~Excluded(c, hubEvent[1])
    /\ \A c \in relayTodo : relayEvent[1] \in owed[c]

\* A connection received nothing it is not owed or still to be sent, nothing
\* twice, and, if it is not cut off, everything else it is owed.
OnceInv ==
    \A c \in Client :
        /\ EventsOf(c) \subseteq owed[c] \ InHand(c)
        /\ c \notin overflow => owed[c] \ InHand(c) \subseteq EventsOf(c)
        /\ \A i, j \in DOMAIN Received(c) : i # j => Received(c)[i] # Received(c)[j]

\* The event inside sendToRoom is the last room event of whoever has it.
LastInv ==
    hubPc = "send" =>
        \A c \in Client : \A i, j \in DOMAIN Received(c) :
            i < j /\ Received(c)[i] = hubEvent[1] => Received(c)[j].kind # "room"

\* What a panic leaves behind is void.
StreamInv ==
    Alive => /\ FrameInv /\ FreshInv /\ KindInv /\ WaitInv /\ OwedInv
             /\ OnceInv /\ LastInv

DInv == StreamInv /\ RoomOrderAgreed

-----------------------------------------------------------------------------
(***************************************************************************)
(* Streams.                                                                *)
(***************************************************************************)

\* Where the pieces of a stream are put together makes no difference.
LEMMA Associative ==
  ASSUME NEW f \in Seq(Event), NEW s \in Seq(Event), NEW t \in Seq(Event)
  PROVE  (f \o s) \o t = f \o (s \o t)
  <1> PICK x \in Seq(Event), y \in Seq(Event) : x = f \o s /\ y = s \o t
    BY ConcatProperties
  <1> PICK a \in Seq(Event), b \in Seq(Event) : a = x \o t /\ b = f \o y
    BY ConcatProperties
  <1> PICK k \in Nat, m \in Nat, n \in Nat : k = Len(f) /\ m = Len(s) /\ n = Len(t)
    BY LenProperties
  <1>1. Len(x) = k + m /\ Len(y) = m + n
    BY ConcatProperties
  <1>2. Len(a) = k + m + n /\ Len(b) = k + m + n
    BY <1>1, ConcatProperties
  <1>3. \A i \in 1..(k + m) : x[i] = IF i <= k THEN f[i] ELSE s[i - k]
    BY ConcatProperties
  <1>4. \A i \in 1..(m + n) : y[i] = IF i <= m THEN s[i] ELSE t[i - m]
    BY ConcatProperties
  <1>5. \A i \in 1..(k + m + n) : a[i] = IF i <= k + m THEN x[i] ELSE t[i - (k + m)]
    BY <1>1, ConcatProperties
  <1>6. \A i \in 1..(k + m + n) : b[i] = IF i <= k THEN f[i] ELSE y[i - k]
    BY <1>1, ConcatProperties
  <1>7. ASSUME NEW i \in 1..(k + m + n) PROVE a[i] = b[i]
    <2>1. CASE i <= k
      BY <1>3, <1>5, <1>6, <2>1
    <2>2. CASE k < i /\ i <= k + m
      <3>1. i - k \in 1..(m + n) /\ i - k <= m
        BY <2>2
      <3> QED
        BY <1>3, <1>4, <1>5, <1>6, <2>2, <3>1
    <2>3. CASE k + m < i
      <3>1. i - k \in 1..(m + n) /\ ~(i - k <= m) /\ (i - k) - m = i - (k + m)
        BY <2>3
      <3> QED
        BY <1>4, <1>5, <1>6, <2>3, <3>1
    <2> QED
      BY <2>1, <2>2, <2>3
  <1>8. a = b
    BY <1>2, <1>7, SeqEqual
  <1> QED
    BY <1>8

\* Moving the oldest queued event to the end of the frame moves nothing.
LEMMA TakeOne ==
  \A g, f, s \in Seq(Event) :
      s # <<>> => g \o Append(f, Head(s)) \o Tail(s) = g \o f \o s
  <1> SUFFICES ASSUME NEW g \in Seq(Event), NEW f \in Seq(Event), NEW s \in Seq(Event),
                      s # <<>>
               PROVE  g \o Append(f, Head(s)) \o Tail(s) = g \o f \o s
    OBVIOUS
  <1>1. Head(s) \in Event /\ Tail(s) \in Seq(Event)
    OBVIOUS
  <1>2. <<Head(s)>> \in Seq(Event)
    BY <1>1
  <1>3. <<Head(s)>> \o Tail(s) = s
    <2> DEFINE t == <<Head(s)>> \o Tail(s)
    <2>1. t \in Seq(Event) /\ Len(t) = Len(s)
      OBVIOUS
    <2>2. \A i \in 1..Len(t) : t[i] = s[i]
      OBVIOUS
    <2> HIDE DEF t
    <2>3. t = s
      BY <2>1, <2>2, SeqEqual
    <2> QED
      BY <2>3 DEF t
  <1>4. Append(f, Head(s)) = f \o <<Head(s)>>
    BY <1>1, AppendIsConcat
  <1>5. (f \o <<Head(s)>>) \o Tail(s) = f \o s
    BY <1>1, <1>2, <1>3, Associative
  <1>6. f \o <<Head(s)>> \in Seq(Event)
    BY <1>2, ConcatProperties
  <1>7. (g \o (f \o <<Head(s)>>)) \o Tail(s) = g \o (f \o s)
    <2> PICK v \in Seq(Event), w \in Seq(Event) : v = f \o <<Head(s)>> /\ w = Tail(s)
      BY <1>1, <1>6
    <2>1. (g \o v) \o w = g \o (v \o w)
      BY ONLY Associative
    <2> QED
      BY <1>5, <2>1
  <1>8. (g \o f) \o s = g \o (f \o s)
    BY Associative
  <1> QED
    BY <1>4, <1>7, <1>8

\* A new event goes to the end of the stream.
LEMMA PutOne ==
  \A g, f, s \in Seq(Event), e \in Event :
      g \o f \o Append(s, e) = Append(g \o f \o s, e)
  <1> SUFFICES ASSUME NEW g \in Seq(Event), NEW f \in Seq(Event), NEW s \in Seq(Event),
                      NEW e \in Event
               PROVE  g \o f \o Append(s, e) = Append(g \o f \o s, e)
    OBVIOUS
  <1>1. /\ <<e>> \in Seq(Event) /\ g \o f \in Seq(Event) /\ g \o f \o s \in Seq(Event)
    BY ConcatProperties
  <1>2. Append(s, e) = s \o <<e>>
    BY AppendIsConcat
  <1>3. Append(g \o f \o s, e) = (g \o f \o s) \o <<e>>
    BY <1>1, AppendIsConcat
  <1>4. (g \o f \o s) \o <<e>> = (g \o f) \o (s \o <<e>>)
    <2> PICK h \in Seq(Event), u \in Seq(Event) : h = g \o f /\ u = <<e>>
      BY <1>1
    <2>1. (h \o s) \o u = h \o (s \o u)
      BY ONLY Associative
    <2> QED
      BY <2>1
  <1> QED
    BY <1>2, <1>3, <1>4

\* No connection's stream is changed.
SameStreams == \A c \in Client : Received(c)' = Received(c)

LEMMA StreamType ==
  ASSUME TypeOK, NEW c \in Client
  PROVE  /\ got[c] \in Seq(Event) /\ frame[c] \in Seq(Event) /\ send[c] \in Seq(Event)
         /\ Received(c) \in Seq(Event)
         /\ Received(c) = <<>> => frame[c] = <<>> /\ send[c] = <<>>
  <1>1. got[c] \in Seq(Event) /\ frame[c] \in Seq(Event) /\ send[c] \in Seq(Event)
    BY DEF TypeOK, WriteType, ChanType
  <1>2. /\ got[c] \o frame[c] \in Seq(Event) /\ Received(c) \in Seq(Event)
    BY <1>1, ConcatProperties DEF Received
  <1>3. Received(c) = <<>> => frame[c] = <<>> /\ send[c] = <<>>
    BY <1>1, <1>2, ConcatEqualIffEmpty DEF Received
  <1> QED
    BY <1>1, <1>2, <1>3

\* What the WritePump does, the stream does not show.
LEMMA PumpStream ==
  ASSUME TypeOK, FrameInv, NEW c \in Client, WritePump(c)
  PROVE  SameStreams
  <1> SUFFICES ASSUME NEW d \in Client PROVE Received(d)' = Received(d)
    BY DEF SameStreams
  <1> DEFINE g == got[d]  f == frame[d]  s == send[d]
  <1>1. g \in Seq(Event) /\ f \in Seq(Event) /\ s \in Seq(Event)
    BY StreamType
  <1>2. CASE d = c /\ WriteRecv(c)
    <2>1. f = <<>> /\ got'[d] = g /\ frame'[d] = <<Head(s)>> /\ send'[d] = Tail(s)
          /\ s # <<>>
      BY <1>2 DEF WriteRecv, FrameInv, TypeOK, WriteType, ChanType
    <2>2. <<Head(s)>> = Append(f, Head(s))
      BY <2>1
    <2>3. g \o Append(f, Head(s)) \o Tail(s) = g \o f \o s
      BY <1>1, <2>1, TakeOne
    <2> QED
      BY <2>1, <2>2, <2>3 DEF Received
  <1>3. CASE d = c /\ WriteFlush(c)
    <2>1. CASE UNCHANGED <<frame, send, got>>
      BY <2>1 DEF Received
    <2>2. CASE ~UNCHANGED <<frame, send>>
      <3>1. got'[d] = g /\ frame'[d] = Append(f, Head(s)) /\ send'[d] = Tail(s) /\ s # <<>>
        BY <1>3, <2>2 DEF WriteFlush, WriteToFrame, TypeOK, WriteType, ChanType
      <3>2. g \o Append(f, Head(s)) \o Tail(s) = g \o f \o s
        BY <1>1, <3>1, TakeOne
      <3> QED
        BY <3>1, <3>2 DEF Received
    <2> QED
      BY <1>3, <2>1, <2>2 DEF WriteFlush
  <1>4. CASE d = c /\ WriteFrame(c)
    <2>1. got'[d] = g \o f /\ frame'[d] = <<>> /\ send'[d] = s
      BY <1>4 DEF WriteFrame, chanVars, TypeOK, WriteType
    <2>2. (g \o f) \o <<>> = g \o f
      BY <1>1, ConcatProperties, ConcatEmptySeq
    <2> QED
      BY <2>1, <2>2 DEF Received
  <1>5. CASE WriteCount(c) \/ WriteFail(c) \/ WriteClosed(c)
    <2>1. UNCHANGED <<got, frame, send>>
      BY <1>5 DEF WriteCount, WriteFail, WriteClosed, WritePumpReturn, chanVars
    <2> QED
      BY <2>1 DEF Received
  <1>6. CASE d # c /\ (WriteRecv(c) \/ WriteFlush(c) \/ WriteFrame(c))
    <2>1. got'[d] = g /\ frame'[d] = f /\ send'[d] = s
      BY <1>6 DEF WriteRecv, WriteFlush, WriteFrame, chanVars, TypeOK, WriteType, ChanType
    <2> QED
      BY <2>1 DEF Received
  <1> QED
    BY <1>2, <1>3, <1>4, <1>5, <1>6 DEF WritePump

\* A send that finds space.
LEMMA SendStream ==
  ASSUME TypeOK, NEW c \in Client, NEW e \in Event,
         send' = [send EXCEPT ![c] = Append(@, e)], UNCHANGED <<got, frame>>
  PROVE  \A d \in Client :
            Received(d)' = IF d = c THEN Append(Received(c), e) ELSE Received(d)
  <1>1. \A d \in Client : send'[d] = IF d = c THEN Append(send[c], e) ELSE send[d]
    BY DEF TypeOK, ChanType
  <1>2. got[c] \o frame[c] \o Append(send[c], e) = Append(got[c] \o frame[c] \o send[c], e)
    <2>1. got[c] \in Seq(Event) /\ frame[c] \in Seq(Event) /\ send[c] \in Seq(Event)
      BY StreamType
    <2> QED
      BY <2>1, PutOne
  <1>3. Received(c)' = Append(Received(c), e)
    BY <1>1, <1>2 DEF Received
  <1>4. \A d \in Client : d # c => Received(d)' = Received(d)
    BY <1>1 DEF Received
  <1> QED
    BY <1>3, <1>4

\* Only the two goroutines that send lengthen a stream.
LEMMA QuietStreams ==
  ASSUME TypeOK, FrameInv, Next,
         ~\E c \in Client : SendToRoomStep(c) \/ SendToUserStep(c)
  PROVE  SameStreams
  <1>1. CASE UNCHANGED <<got, frame, send>>
    BY <1>1 DEF SameStreams, Received
  <1>2. ASSUME NEW c \in Client, WritePump(c) PROVE SameStreams
    BY <1>2, PumpStream
  <1>3. CASE HubSelect
    BY <1>1, <1>3 DEF HubSelect, shutdown, HubRecvRelayBroadcast, HubRecvRegister,
       HubRecvUnregister, HubRecvEvict, HubRecvClientBroadcast, chanVars, writeVars
  <1>4. CASE addClient \/ removeClient
    BY <1>1, <1>4 DEF addClient, removeClient, chanVars, writeVars
  <1>5. CASE RelaySubscribe \/ RelayRecvRoom \/ RelayRecvUser \/ RelayStop
    BY <1>1, <1>5 DEF RelaySubscribe, RelayRecvRoom, RelayRecvUser, RelayStop,
       chanVars, writeVars
  <1>6. ASSUME NEW c \in Client, ReadPump(c) \/ Peer(c) PROVE SameStreams
    BY <1>1, <1>6 DEF ReadPump, ReadFail, ReadPumpReturn, Peer, Connect, LoseConn,
       handleSendMessage, handleTypingEvent, chanVars, writeVars
  <1>7. CASE Cancel \/ PublishElsewhere
    BY <1>1, <1>7 DEF Cancel, PublishElsewhere, chanVars, writeVars
  <1> QED
    BY <1>2, <1>3, <1>4, <1>5, <1>6, <1>7 DEF Next, HubStep, Relay

\* The frame is empty again when the pump selects.
LEMMA FrameStep ==
  ASSUME TypeOK, Inv, Alive, FrameInv, FreshInv, Next
  PROVE  FrameInv'
  <1>1. CASE UNCHANGED <<wpc, frame>>
    BY <1>1 DEF FrameInv
  <1>2. ASSUME NEW c \in Client, HubRecvRegister(c) PROVE FrameInv'
    <2>1. frame[c] = <<>>
      BY <1>2, StreamType DEF HubRecvRegister, FreshInv
    <2> QED
      BY <1>2, <2>1 DEF HubRecvRegister, FrameInv, TypeOK, WriteType
  <1>3. ASSUME NEW c \in Client, WritePump(c) PROVE FrameInv'
    BY <1>3 DEF WritePump, WriteRecv, WriteCount, WriteFlush, WriteFrame, WriteFail,
       WriteClosed, WritePumpReturn, FrameInv, TypeOK, WriteType
  <1>4. CASE shutdown \/ HubRecvRelayBroadcast
    BY <1>1, <1>4 DEF shutdown, HubRecvRelayBroadcast, writeVars
  <1>5. ASSUME NEW c \in Client,
               HubRecvUnregister(c) \/ HubRecvEvict(c) \/ HubRecvClientBroadcast(c)
        PROVE  FrameInv'
    BY <1>1, <1>5 DEF HubRecvUnregister, HubRecvEvict, HubRecvClientBroadcast, writeVars
  <1>6. CASE HubStep
    BY <1>1, <1>6 DEF HubStep, addClient, removeClient, SendToRoomStep, writeVars
  <1>7. CASE Relay
    BY <1>1, <1>7 DEF Relay, RelaySubscribe, RelayRecvRoom, RelayRecvUser, RelayStop,
       SendToUserStep, writeVars
  <1>8. ASSUME NEW c \in Client, ReadPump(c) \/ Peer(c) PROVE FrameInv'
    BY <1>1, <1>8 DEF ReadPump, ReadFail, ReadPumpReturn, Peer, Connect, LoseConn,
       handleSendMessage, handleTypingEvent, writeVars
  <1>9. CASE Cancel \/ PublishElsewhere
    BY <1>1, <1>9 DEF Cancel, PublishElsewhere, writeVars
  <1> QED
    BY <1>2, <1>3, <1>4, <1>5, <1>6, <1>7, <1>8, <1>9 DEF Next, HubSelect

\* One turn of sendToRoom or SendToUser, as the streams see it.
LEMMA TurnStream ==
  ASSUME TypeOK, NEW c \in Client, SendToRoomStep(c) \/ SendToUserStep(c)
  PROVE  /\ SameStreams \/ c \in hubTodo \cup relayTodo
         /\ \A d \in Client : d # c => Received(d)' = Received(d)
  <1>1. c \in hubTodo \cup relayTodo
    BY DEF SendToRoomStep, SendToUserStep
  <1>2. UNCHANGED <<got, frame>>
    BY DEF SendToRoomStep, SendToUserStep, writeVars
  <1>3. \A d \in Client : d # c => send'[d] = send[d]
    BY DEF SendToRoomStep, SendToUserStep, TypeOK, ChanType
  <1> QED
    BY <1>1, <1>2, <1>3 DEF Received

\* Who has not been added is nobody's target.
LEMMA FreshStep ==
  ASSUME TypeOK, Inv, Alive, FrameInv, FreshInv, Next
  PROVE  FreshInv'
  <1> SUFFICES ASSUME NEW d \in Client,
                      rpc'[d] \in {"none", "register"} \/ (hubPc' = "add" /\ hubClient' = d)
               PROVE  Received(d)' = <<>>
    BY DEF FreshInv
  <1> DEFINE Unadded == rpc[d] \in {"none", "register"} \/ (hubPc = "add" /\ hubClient = d)
  <1>1. Unadded
    <2>1. CASE rpc' = rpc /\ (hubPc' = "add" => hubPc = "add" /\ hubClient' = hubClient)
      BY <2>1
    <2>2. CASE HubStep
      <3>1. rpc' = rpc /\ (hubPc' = "add" => hubPc = "add" /\ hubClient' = hubClient)
        BY <2>2 DEF HubStep, addClient, removeClient, SendToRoomStep, SendToRoomRest,
           connVars
      <3> QED
        BY <2>1, <3>1
    <2>3. CASE shutdown \/ HubRecvRelayBroadcast
      BY <2>1, <2>3 DEF shutdown, HubRecvRelayBroadcast, StartSendToRoom,
         SendToRoomRest, connVars
    <2>4. ASSUME NEW c \in Client, HubRecvRegister(c) PROVE Unadded
      BY <2>4 DEF HubRecvRegister, TypeOK, ConnType
    <2>5. ASSUME NEW c \in Client,
                 HubRecvUnregister(c) \/ HubRecvEvict(c) \/ HubRecvClientBroadcast(c)
          PROVE  Unadded
      BY <2>5 DEF HubRecvUnregister, HubRecvEvict, HubRecvClientBroadcast,
         StartSendToRoom, SendToRoomRest, connVars, TypeOK, ConnType
    <2>6. CASE Relay
      BY <2>1, <2>6 DEF Relay, RelaySubscribe, RelayRecvRoom, RelayRecvUser, RelayStop,
         SendToUserStep, hubVars, connVars
    <2>7. ASSUME NEW c \in Client, ReadPump(c) \/ Peer(c) \/ WritePump(c)
          PROVE  Unadded
      BY <2>7 DEF ReadPump, ReadFail, AfterReadError, ReadPumpReturn, Peer, Connect,
         LoseConn, handleSendMessage, handleTypingEvent, WritePump, WriteRecv,
         WriteCount, WriteFlush, WriteFrame, WriteFail, WriteClosed, WritePumpReturn,
         hubVars, connVars, TypeOK, ConnType
    <2>8. CASE Cancel \/ PublishElsewhere
      BY <2>1, <2>8 DEF Cancel, PublishElsewhere, hubVars, connVars
    <2> QED
      BY <2>2, <2>3, <2>4, <2>5, <2>6, <2>7, <2>8 DEF Next, HubSelect
  <1>2. Received(d) = <<>> /\ Untouched(d)
    BY <1>1 DEF FreshInv, Inv, LifecycleInv
  <1>3. Received(d)' = Received(d)
    <2>1. ASSUME NEW c \in Client, SendToRoomStep(c) \/ SendToUserStep(c)
          PROVE  Received(d)' = Received(d)
      BY <1>2, <2>1, TurnStream DEF SameStreams, Untouched
    <2> QED
      BY <2>1, QuietStreams DEF SameStreams
  <1> QED
    BY <1>2, <1>3

-----------------------------------------------------------------------------
(***************************************************************************)
(* What is in hand: the four things a step may do with events that were    *)
(* taken up, whichever goroutine does it.                                  *)
(***************************************************************************)

\* Nobody's events in hand, history or stream changes.
Calm ==
    /\ SameStreams /\ UNCHANGED <<owed, overflow>>
    /\ \A c \in Client : InHand(c)' = InHand(c)

\* An event that waited is taken up for some connections.
Taken(e, to) ==
    /\ SameStreams /\ UNCHANGED overflow
    /\ \A c \in Client : e \notin owed[c]
    /\ \A c \in Client : owed'[c] = IF c \in to THEN owed[c] \cup {e} ELSE owed[c]
    /\ \A c \in Client :
          InHand(c)' = IF c \in to THEN InHand(c) \cup {e} ELSE InHand(c)

\* An event in hand reaches the Send of a connection ...
Delivered(c, e) ==
    /\ e \in InHand(c) /\ UNCHANGED <<owed, overflow>>
    /\ \A d \in Client :
          /\ Received(d)' = IF d = c THEN Append(Received(c), e) ELSE Received(d)
          /\ InHand(d)' = IF d = c THEN InHand(c) \ {e} ELSE InHand(d)

\* ... or finds it full.
Missed(c, e) ==
    /\ SameStreams /\ UNCHANGED owed
    /\ e \in InHand(c) /\ overflow' = overflow \cup {c}
    /\ \A d \in Client : InHand(d)' = IF d = c THEN InHand(c) \ {e} ELSE InHand(d)

\* The targets, and the event while there are targets, stay as they are.
SameHands ==
    /\ UNCHANGED <<owed, overflow, hubTodo, relayTodo>>
    /\ hubTodo # {} => UNCHANGED <<hubPc, hubEvent>>
    /\ relayTodo # {} => UNCHANGED <<relayPc, relayEvent>>

\* The steps that take nothing up and try no send.
QuietStep ==
    \/ addClient \/ removeClient \/ shutdown
    \/ \E c \in Client : HubRecvRegister(c) \/ HubRecvUnregister(c) \/ HubRecvEvict(c)
    \/ RelaySubscribe \/ RelayRecvRoom \/ RelayStop
    \/ \E c \in Client : ReadPump(c) \/ WritePump(c) \/ Peer(c)
    \/ Cancel \/ PublishElsewhere

LEMMA QuietHands ==
  ASSUME TodoInv, QuietStep
  PROVE  SameHands
  <1>1. CASE addClient \/ removeClient
    BY <1>1 DEF addClient, removeClient, relayVars, auxVars, TodoInv, SameHands
  <1>2. CASE shutdown
    BY <1>2 DEF shutdown, relayVars, auxVars, TodoInv, SameHands
  <1>3. ASSUME NEW c \in Client,
               HubRecvRegister(c) \/ HubRecvUnregister(c) \/ HubRecvEvict(c)
        PROVE  SameHands
    BY <1>3 DEF HubRecvRegister, HubRecvUnregister, HubRecvEvict, relayVars, auxVars,
       TodoInv, SameHands
  <1>4. CASE RelaySubscribe \/ RelayRecvRoom \/ RelayStop
    BY <1>4 DEF RelaySubscribe, RelayRecvRoom, RelayStop, hubVars, auxVars, TodoInv,
       SameHands
  <1>5. ASSUME NEW c \in Client, ReadPump(c) PROVE SameHands
    BY <1>5 DEF ReadPump, ReadFail, ReadPumpReturn, hubVars, relayVars, auxVars, SameHands
  <1>6. ASSUME NEW c \in Client, WritePump(c) PROVE SameHands
    BY <1>6 DEF WritePump, WriteRecv, WriteCount, WriteFlush, WriteFrame, WriteFail,
       WriteClosed, WritePumpReturn, hubVars, relayVars, auxVars, SameHands
  <1>7. ASSUME NEW c \in Client, Peer(c) PROVE SameHands
    BY <1>7 DEF Peer, Connect, LoseConn, handleSendMessage, handleTypingEvent,
       hubVars, relayVars, auxVars, SameHands
  <1>8. CASE Cancel \/ PublishElsewhere
    BY <1>8 DEF Cancel, PublishElsewhere, hubVars, relayVars, auxVars, SameHands
  <1> QED
    BY <1>1, <1>2, <1>3, <1>4, <1>5, <1>6, <1>7, <1>8 DEF QuietStep

LEMMA QuietIsCalm ==
  ASSUME TypeOK, TodoInv, FrameInv, Next, QuietStep
  PROVE  Calm
  <1>1. SameHands
    BY QuietHands
  <1>2. SameStreams
    <2>1. ~\E c \in Client : SendToRoomStep(c) \/ SendToUserStep(c)
      BY <1>1 DEF SameHands, SendToRoomStep, SendToRoomRest, SendToUserStep,
         SendToUserRest
    <2> QED
      BY <2>1, QuietStreams
  <1>3. \A c \in Client : InHand(c)' = InHand(c)
    BY <1>1 DEF SameHands, InHand
  <1> QED
    BY <1>1, <1>2, <1>3 DEF Calm, SameHands

\* The hub takes an event up for those in its room, save who is excluded.
LEMMA RoomIsTaken ==
  ASSUME TypeOK, TodoInv, FrameInv, KindInv, OwedInv, Next, NEW e \in Event, Waits(e),
         e.to \in Room, hubPc = "select", StartSendToRoom(e),
         UNCHANGED <<relayTodo, overflow>>,
         relayTodo # {} => UNCHANGED <<relayPc, relayEvent>>
  PROVE  Taken(e, rooms[e.to] \ {e.exclude})
  <1> DEFINE to == rooms[e.to] \ {e.exclude}
  <1>1. hubTodo = {} /\ hubTodo' = rooms[e.to]
    BY DEF TodoInv, StartSendToRoom, SendToRoomRest
  <1>2. SameStreams
    <2>1. ~\E c \in Client : SendToRoomStep(c) \/ SendToUserStep(c)
      BY DEF SendToRoomStep, SendToUserStep, TypeOK, ChanType, SendToUserRest
    <2> QED
      BY <2>1, QuietStreams
  <1>3. \A c \in Client : e \notin owed[c]
    BY DEF OwedInv
  <1>4. \A c \in Client : owed'[c] = IF c \in to THEN owed[c] \cup {e} ELSE owed[c]
    BY DEF StartSendToRoom
  <1>5. rooms[e.to] # {} => hubPc' = "send" /\ hubEvent' = <<e>>
    BY DEF StartSendToRoom, SendToRoomRest
  <1>6. ASSUME NEW c \in Client
        PROVE  InHand(c)' = IF c \in to THEN InHand(c) \cup {e} ELSE InHand(c)
    <2>1. InHand(c) = {x \in owed[c] : relayPc = "user" /\ c \in relayTodo /\ x = relayEvent[1]}
      BY <1>1 DEF InHand
    <2>2. InHand(c)' =
             {x \in owed'[c] : \/ c \in rooms[e.to] /\ x = e
                               \/ relayPc = "user" /\ c \in relayTodo /\ x = relayEvent[1]}
      BY <1>1, <1>5 DEF InHand
    <2>3. CASE c \in to
      <3>1. c \in rooms[e.to] /\ owed'[c] = owed[c] \cup {e} /\ e \notin owed[c]
        BY <1>3, <1>4, <2>3
      <3>2. c \in relayTodo => relayEvent[1] \in owed[c]
        BY DEF OwedInv
      <3> QED
        BY <2>1, <2>2, <2>3, <3>1, <3>2
    <2>4. CASE c \notin to
      <3>1. owed'[c] = owed[c] /\ e \notin owed[c]
        BY <1>3, <1>4, <2>4
      <3> QED
        BY <2>1, <2>2, <2>4, <3>1
    <2> QED
      BY <2>3, <2>4
  <1> QED
    BY <1>2, <1>3, <1>4, <1>6 DEF Taken

LEMMA UserIsTaken ==
  ASSUME TypeOK, TodoInv, FrameInv, KindInv, OwedInv, Next, RelayRecvUser
  PROVE  Taken(Head(bus), users[Head(bus).to])
  <1> DEFINE e == Head(bus)
             to == users[e.to]
  <1>1. relayTodo = {} /\ relayTodo' = to /\ UNCHANGED <<hubPc, hubEvent, hubTodo, overflow>>
    BY DEF TodoInv, RelayRecvUser, SendToUserRest, hubVars
  <1>2. SameStreams
    <2>1. ~\E c \in Client : SendToRoomStep(c) \/ SendToUserStep(c)
      <3>1. \A c \in hubTodo : hubTodo \ {c} # hubTodo
        OBVIOUS
      <3> QED
        BY <1>1, <3>1 DEF SendToRoomStep, SendToRoomRest, SendToUserStep, RelayRecvUser
    <2> QED
      BY <2>1, QuietStreams
  <1>3. \A c \in Client : e \notin owed[c]
    <2>1. Waits(e)
      BY DEF RelayRecvUser, Waits, TypeOK, RelayType
    <2> QED
      BY <2>1 DEF OwedInv
  <1>4. \A c \in Client : owed'[c] = IF c \in to THEN owed[c] \cup {e} ELSE owed[c]
    BY DEF RelayRecvUser
  <1>5. to # {} => relayPc' = "user" /\ relayEvent' = <<e>>
    BY DEF RelayRecvUser, SendToUserRest
  <1>6. ASSUME NEW c \in Client
        PROVE  InHand(c)' = IF c \in to THEN InHand(c) \cup {e} ELSE InHand(c)
    <2>1. InHand(c) = {x \in owed[c] : hubPc = "send" /\ c \in hubTodo /\ x = hubEvent[1]}
      BY <1>1 DEF InHand
    <2>2. InHand(c)' =
             {x \in owed'[c] : \/ hubPc = "send" /\ c \in hubTodo /\ x = hubEvent[1]
                               \/ c \in to /\ x = e}
      BY <1>1, <1>5 DEF InHand
    <2>3. c \in hubTodo /\ hubEvent[1] = e => Excluded(c, e)
      BY <1>3 DEF OwedInv
    <2> QED
      BY <1>3, <1>4, <2>1, <2>2, <2>3
  <1> QED
    BY <1>1, <1>2, <1>3, <1>4, <1>6 DEF Taken

\* One turn of sendToRoom: the excluded client is skipped, any other is sent the
\* event, misses it, or brings the process down.
LEMMA RoomTurn ==
  ASSUME TypeOK, KindInv, OwedInv, NEW c \in Client, SendToRoomStep(c)
  PROVE  IF Excluded(c, hubEvent[1]) THEN Calm
         ELSE \/ Delivered(c, hubEvent[1]) \/ Missed(c, hubEvent[1])
              \/ ~Alive' /\ SameStreams
  <1> DEFINE e == hubEvent[1]
  <1>1. /\ hubPc = "send" /\ c \in hubTodo /\ hubTodo' = hubTodo \ {c}
        /\ UNCHANGED <<owed, relayPc, relayTodo, relayEvent, got, frame>>
        /\ hubTodo' # {} => hubPc' = "send" /\ hubEvent' = <<e>>
    BY DEF SendToRoomStep, SendToRoomRest, relayVars, writeVars
  <1>2. ASSUME NEW d \in Client
        PROVE  InHand(d)' = {x \in owed[d] : \/ d \in hubTodo /\ d # c /\ x = e
                                             \/ relayPc = "user" /\ d \in relayTodo
                                                  /\ x = relayEvent[1]}
    BY <1>1 DEF InHand
  <1>3. ASSUME NEW d \in Client
        PROVE  InHand(d) = {x \in owed[d] : \/ d \in hubTodo /\ x = e
                                            \/ relayPc = "user" /\ d \in relayTodo
                                                 /\ x = relayEvent[1]}
    BY <1>1 DEF InHand
  <1>4. \A d \in Client : d # c => InHand(d)' = InHand(d)
    BY <1>2, <1>3
  <1>5. CASE Excluded(c, e)
    <2>1. e \notin owed[c]
      BY <1>1, <1>5 DEF OwedInv
    <2>2. InHand(c)' = InHand(c)
      BY <1>2, <1>3, <2>1
    <2>3. UNCHANGED <<send, overflow>>
      BY <1>5 DEF SendToRoomStep
    <2> QED
      BY <1>1, <1>4, <1>5, <2>2, <2>3 DEF Calm, SameStreams, Received
  <1>6. CASE ~Excluded(c, e)
    <2>1. e \in owed[c]
      BY <1>1, <1>6 DEF OwedInv
    <2>2. relayPc = "user" => relayEvent[1] # e
      BY <1>1 DEF KindInv
    <2>3. e \in InHand(c) /\ InHand(c)' = InHand(c) \ {e}
      <3>1. e \in InHand(c)
        BY <1>1, <1>3, <2>1
      <3>2. InHand(c)' = {x \in owed[c] : relayPc = "user" /\ c \in relayTodo
                                             /\ x = relayEvent[1]}
        BY <1>2
      <3> QED
        BY <1>1, <1>3, <2>2, <3>1, <3>2
    <2>4. \A d \in Client : InHand(d)' = IF d = c THEN InHand(c) \ {e} ELSE InHand(d)
      BY <1>4, <2>3
    <2>5. CASE send' = send
      <3>1. SameStreams
        BY <1>1, <2>5 DEF SameStreams, Received
      <3>2. CASE crash' = "send"
        BY <1>6, <3>1, <3>2 DEF Alive
      <3>3. CASE overflow' = overflow \cup {c}
        BY <1>1, <1>6, <2>3, <2>4, <3>1, <3>3 DEF Missed
      <3>4. CASE send' = [send EXCEPT ![c] = Append(@, e)]
        <4>1. e \in Event
          BY <1>1, InHandTypes
        <4>2. send[c] \in Seq(Event) /\ send'[c] = Append(send[c], e)
          BY <3>4 DEF TypeOK, ChanType
        <4>3. Len(send'[c]) = Len(send[c]) + 1 /\ Len(send[c]) \in Nat
          BY <4>1, <4>2
        <4> QED
          BY <2>5, <4>3
      <3> QED
        BY <1>6, <3>2, <3>3, <3>4 DEF SendToRoomStep
    <2>6. CASE send' # send
      <3>1. UNCHANGED overflow /\ send' = [send EXCEPT ![c] = Append(@, e)]
        BY <2>6 DEF SendToRoomStep
      <3>2. \A d \in Client :
               Received(d)' = IF d = c THEN Append(Received(c), e) ELSE Received(d)
        BY <1>1, <3>1, InHandTypes, SendStream
      <3> QED
        BY <1>1, <1>6, <2>3, <2>4, <3>1, <3>2 DEF Delivered
    <2> QED
      BY <2>5, <2>6
  <1> QED
    BY <1>5, <1>6

\* One turn of SendToUser.
LEMMA UserTurn ==
  ASSUME TypeOK, KindInv, OwedInv, NEW c \in Client, SendToUserStep(c)
  PROVE  \/ Delivered(c, relayEvent[1]) /\ UNCHANGED users
         \/ /\ Missed(c, relayEvent[1])
            /\ users' = [users EXCEPT ![UserOf[c]] = @ \ {c}]
         \/ ~Alive' /\ SameStreams
  <1> DEFINE e == relayEvent[1]
  <1>1. /\ relayPc = "user" /\ c \in relayTodo /\ relayTodo' = relayTodo \ {c}
        /\ UNCHANGED <<owed, hubPc, hubTodo, hubEvent, got, frame>>
        /\ relayTodo' # {} => relayPc' = "user" /\ relayEvent' = <<e>>
    BY DEF SendToUserStep, SendToUserRest, writeVars
  <1>2. ASSUME NEW d \in Client
        PROVE  InHand(d)' = {x \in owed[d] : \/ hubPc = "send" /\ d \in hubTodo
                                                  /\ x = hubEvent[1]
                                             \/ d \in relayTodo /\ d # c /\ x = e}
    BY <1>1 DEF InHand
  <1>3. ASSUME NEW d \in Client
        PROVE  InHand(d) = {x \in owed[d] : \/ hubPc = "send" /\ d \in hubTodo
                                                 /\ x = hubEvent[1]
                                            \/ d \in relayTodo /\ x = e}
    BY <1>1 DEF InHand
  <1>4. e \in owed[c] /\ (hubPc = "send" => hubEvent[1] # e)
    BY <1>1 DEF OwedInv, KindInv
  <1>5. e \in InHand(c) /\ InHand(c)' = InHand(c) \ {e}
    <2>1. e \in InHand(c)
      BY <1>1, <1>3, <1>4
    <2>2. InHand(c)' = {x \in owed[c] : hubPc = "send" /\ c \in hubTodo
                                           /\ x = hubEvent[1]}
      BY <1>2
    <2> QED
      BY <1>1, <1>3, <1>4, <2>1, <2>2
  <1>6. \A d \in Client : InHand(d)' = IF d = c THEN InHand(c) \ {e} ELSE InHand(d)
    BY <1>2, <1>3, <1>5
  <1>7. CASE /\ UNCHANGED send
             /\ \/ crash' = "send"
                \/ /\ overflow' = overflow \cup {c}
                   /\ users' = [users EXCEPT ![UserOf[c]] = @ \ {c}]
    <2>1. SameStreams
      BY <1>1, <1>7 DEF SameStreams, Received
    <2> QED
      BY <1>1, <1>5, <1>6, <1>7, <2>1 DEF Missed, Alive
  <1>8. CASE /\ send' = [send EXCEPT ![c] = Append(@, e)]
             /\ UNCHANGED <<overflow, users>>
    <2>1. \A d \in Client :
             Received(d)' = IF d = c THEN Append(Received(c), e) ELSE Received(d)
      BY <1>1, <1>8, InHandTypes, SendStream
    <2> QED
      BY <1>1, <1>5, <1>6, <1>8, <2>1 DEF Delivered
  <1> QED
    BY <1>7, <1>8 DEF SendToUserStep

-----------------------------------------------------------------------------
(***************************************************************************)
(* What the four kinds of step keep.                                       *)
(***************************************************************************)

\* The positions and the events of a stream that grew by one.
LEMMA Grown ==
  ASSUME TypeOK, NEW c \in Client, NEW e \in Event,
         Received(c)' = Append(Received(c), e)
  PROVE  /\ \A i \in DOMAIN Received(c)' :
               \/ i \in DOMAIN Received(c) /\ Received(c)'[i] = Received(c)[i]
               \/ Received(c)'[i] = e /\ \A j \in DOMAIN Received(c) : j < i
         /\ \A i, j \in DOMAIN Received(c)' :
               i \notin DOMAIN Received(c) /\ j \notin DOMAIN Received(c) => i = j
         /\ \A i \in DOMAIN Received(c) : i \in DOMAIN Received(c)'
         /\ EventsOf(c)' = EventsOf(c) \cup {e}
  <1> DEFINE s == Received(c)
             t == Append(s, e)
  <1>1. s \in Seq(Event)
    BY StreamType
  <1>2. /\ DOMAIN s = 1..Len(s) /\ Len(s) \in Nat
        /\ DOMAIN t = 1..(Len(s) + 1)
        /\ \A i \in 1..Len(s) : t[i] = s[i]
        /\ t[Len(s) + 1] = e
    BY <1>1
  <1> HIDE DEF t, s
  <1>3. DOMAIN t = DOMAIN s \cup {Len(s) + 1}
    BY <1>2
  <1>4. {t[i] : i \in DOMAIN t} = {s[i] : i \in DOMAIN s} \cup {e}
    BY <1>2, <1>3
  <1>5. EventsOf(c)' = {t[i] : i \in DOMAIN t} /\ EventsOf(c) = {s[i] : i \in DOMAIN s}
    BY DEF EventsOf, s, t
  <1>6. Received(c)' = t /\ Received(c) = s
    BY DEF s, t
  <1> QED
    BY <1>2, <1>3, <1>4, <1>5, <1>6

LEMMA OnceCalm ==
  ASSUME OnceInv, Calm
  PROVE  OnceInv'
  BY DEF OnceInv, Calm, SameStreams, EventsOf

LEMMA OnceTaken ==
  ASSUME OnceInv, NEW e, NEW to, Taken(e, to)
  PROVE  OnceInv'
  <1> SUFFICES ASSUME NEW c \in Client
               PROVE  /\ EventsOf(c)' = EventsOf(c) /\ Received(c)' = Received(c)
                      /\ owed'[c] \ InHand(c)' = owed[c] \ InHand(c)
    BY DEF OnceInv, Taken
  <1>1. Received(c)' = Received(c) /\ EventsOf(c)' = EventsOf(c)
    BY DEF Taken, SameStreams, EventsOf
  <1>2. owed'[c] \ InHand(c)' = owed[c] \ InHand(c)
    <2>1. CASE c \in to
      <3>1. /\ e \notin owed[c] /\ owed'[c] = owed[c] \cup {e}
            /\ InHand(c)' = InHand(c) \cup {e}
        BY <2>1 DEF Taken
      <3> QED
        BY <3>1
    <2>2. CASE c \notin to
      BY <2>2 DEF Taken
    <2> QED
      BY <2>1, <2>2
  <1> QED
    BY <1>1, <1>2

LEMMA OnceDelivered ==
  ASSUME TypeOK, OnceInv, NEW c \in Client, NEW e \in Event, Delivered(c, e)
  PROVE  OnceInv'
  <1>1. ASSUME NEW d \in Client, d # c
        PROVE  /\ EventsOf(d)' = EventsOf(d) /\ Received(d)' = Received(d)
               /\ InHand(d)' = InHand(d)
    BY <1>1 DEF Delivered, EventsOf
  <1>2. Received(c)' = Append(Received(c), e) /\ InHand(c)' = InHand(c) \ {e}
    BY DEF Delivered
  <1>3. e \in InHand(c) /\ e \in owed[c] /\ e \notin EventsOf(c)
    BY DEF Delivered, OnceInv, InHand
  <1>4. EventsOf(c)' = EventsOf(c) \cup {e}
    BY <1>2, Grown
  <1>5. ASSUME NEW i \in DOMAIN Received(c)', NEW j \in DOMAIN Received(c)', i # j
        PROVE  Received(c)'[i] # Received(c)'[j]
    <2>1. \A k \in DOMAIN Received(c) : Received(c)[k] # e
      BY <1>3 DEF EventsOf
    <2>2. \A k, l \in DOMAIN Received(c) : k # l => Received(c)[k] # Received(c)[l]
      BY DEF OnceInv
    <2> QED
      BY <1>2, <1>5, <2>1, <2>2, Grown
  <1>6. UNCHANGED <<owed, overflow>>
    BY DEF Delivered
  <1> QED
    BY <1>1, <1>2, <1>3, <1>4, <1>5, <1>6 DEF OnceInv

LEMMA OnceMissed ==
  ASSUME OnceInv, NEW c \in Client, NEW e, Missed(c, e)
  PROVE  OnceInv'
  <1>1. \A d \in Client : EventsOf(d)' = EventsOf(d) /\ Received(d)' = Received(d)
    BY DEF Missed, SameStreams, EventsOf
  <1> QED
    BY <1>1 DEF OnceInv, Missed

LEMMA OrderSame ==
  ASSUME RoomOrderAgreed, SameStreams
  PROVE  RoomOrderAgreed'
  BY DEF RoomOrderAgreed, SameStreams

\* The order of rooms survives a delivery: the event is no room's, or it is the
\* one all have last.
LEMMA OrderDelivered ==
  ASSUME TypeOK, RoomOrderAgreed, OnceInv, NEW c \in Client, NEW e \in Event,
         Delivered(c, e),
         e.kind = "room" =>
            \A d \in Client : \A i, j \in DOMAIN Received(d) :
               i < j /\ Received(d)[i] = e => Received(d)[j].kind # "room"
  PROVE  RoomOrderAgreed'
  <1> SUFFICES ASSUME NEW a \in Client, NEW b \in Client,
                      NEW i \in DOMAIN Received(a)', NEW j \in DOMAIN Received(a)',
                      NEW k \in DOMAIN Received(b)', NEW l \in DOMAIN Received(b)',
                      i < j, k < l,
                      Received(a)'[i].kind = "room", Received(a)'[j].kind = "room",
                      Received(b)'[k] = Received(a)'[j],
                      Received(b)'[l] = Received(a)'[i]
               PROVE  FALSE
    BY DEF RoomOrderAgreed
  <1>1. /\ Received(c)' = Append(Received(c), e)
        /\ \A d \in Client : d # c => Received(d)' = Received(d)
    BY DEF Delivered
  <1>2. \A d \in Client : DOMAIN Received(d) \subseteq Nat /\ DOMAIN Received(d)' \subseteq Nat
    <2>1. \A d \in Client : Received(d) \in Seq(Event) /\ Received(d)' \in Seq(Event)
      <3>1. \A d \in Client : Received(d) \in Seq(Event)
        BY StreamType
      <3>2. Append(Received(c), e) \in Seq(Event)
        BY <3>1
      <3> QED
        BY <1>1, <3>1, <3>2
    <2> QED
      BY <2>1
  <1>3. \A m \in DOMAIN Received(c) : Received(c)[m] # e
    BY DEF Delivered, OnceInv, EventsOf, InHand
  <1>4. ASSUME NEW d \in Client, NEW m \in DOMAIN Received(d)'
        PROVE  \/ m \in DOMAIN Received(d) /\ Received(d)'[m] = Received(d)[m]
               \/ /\ d = c /\ Received(c)'[m] = e
                  /\ \A n \in DOMAIN Received(c) : n < m
                  /\ \A n \in DOMAIN Received(c)' : n # m => n \in DOMAIN Received(c)
    BY <1>1, Grown
  <1> QED
    BY <1>1, <1>2, <1>3, <1>4 DEF RoomOrderAgreed

LEMMA LastDelivered ==
  ASSUME TypeOK, LastInv, OnceInv, NEW c \in Client, NEW e \in Event, Delivered(c, e),
         hubPc' = "send" => /\ hubPc = "send" /\ hubEvent'[1] = hubEvent[1]
                            /\ e = hubEvent[1] \/ e.kind # "room"
  PROVE  LastInv'
  <1> SUFFICES ASSUME hubPc' = "send", NEW d \in Client,
                      NEW i \in DOMAIN Received(d)', NEW j \in DOMAIN Received(d)',
                      i < j, Received(d)'[i] = hubEvent'[1]
               PROVE  Received(d)'[j].kind # "room"
    BY DEF LastInv
  <1>1. /\ Received(c)' = Append(Received(c), e)
        /\ \A x \in Client : x # c => Received(x)' = Received(x)
    BY DEF Delivered
  <1>2. \A m \in DOMAIN Received(c) : Received(c)[m] # e
    BY DEF Delivered, OnceInv, EventsOf, InHand
  <1>3. CASE d # c
    BY <1>1, <1>3 DEF LastInv
  <1>4. CASE d = c /\ j \in DOMAIN Received(c)
    <2>1. i \in DOMAIN Received(c) /\ Received(c)'[i] = Received(c)[i]
      BY <1>1, <1>4, Grown, StreamType
    <2> QED
      BY <1>1, <1>4, <2>1, Grown DEF LastInv
  <1>5. CASE d = c /\ j \notin DOMAIN Received(c)
    <2>1. Received(c)'[j] = e
      BY <1>1, <1>5, Grown
    <2>2. i # j
      BY <1>1, <1>5, Grown, StreamType
    <2>3. i \in DOMAIN Received(c) /\ Received(c)'[i] = Received(c)[i]
      BY <1>1, <1>5, <2>2, Grown
    <2> QED
      BY <1>2, <1>5, <2>1, <2>3
  <1> QED
    BY <1>3, <1>4, <1>5

-----------------------------------------------------------------------------
(***************************************************************************)
(* Waiting events.                                                         *)
(***************************************************************************)

\* Nothing new waits.
NoneNew ==
    /\ \A c \in Client : rpc'[c] = "bcast" => rpc[c] = "bcast" /\ pending'[c] = pending[c]
    /\ bus' = bus /\ nextId' = nextId
    /\ relayPc' = "bcast" => relayPc = "bcast" /\ relayEvent' = relayEvent

LEMMA NoneNewKeeps ==
  ASSUME WaitInv, NoneNew
  PROVE  WaitInv' /\ \A e : Waits(e)' => Waits(e)
  BY DEF WaitInv, Waits, NoneNew

\* The next event and the old ones after a publication.
LEMMA PublishBus ==
  ASSUME TypeOK, WaitInv, NEW e \in Event, e.id = nextId, e.via = "bus", Publish(e)
  PROVE  /\ \A i \in DOMAIN bus' :
               \/ i \in DOMAIN bus /\ bus'[i] = bus[i]
               \/ bus'[i] = e
         /\ \A i, j \in DOMAIN bus' :
               i # j => bus'[i] # bus'[j]
  <1>1. CASE bus' = bus
    BY <1>1 DEF WaitInv
  <1>2. CASE bus' = Append(bus, e)
    <2>1. bus \in Seq(Event)
      BY DEF TypeOK, RelayType
    <2>2. /\ DOMAIN bus = 1..Len(bus) /\ Len(bus) \in Nat
          /\ DOMAIN bus' = 1..(Len(bus) + 1)
          /\ \A i \in 1..Len(bus) : bus'[i] = bus[i]
          /\ bus'[Len(bus) + 1] = e
      BY <1>2, <2>1
    <2>3. \A i \in DOMAIN bus : bus[i] # e
      BY DEF WaitInv, TypeOK, EnvType
    <2> QED
      BY <2>2, <2>3 DEF WaitInv
  <1> QED
    BY <1>1, <1>2 DEF Publish

\* One event is published, and at most one connection hands over its copy.
LEMMA NewWaits ==
  ASSUME TypeOK, WaitInv, TakeId,
         bus' = bus \/ \E e \in Event : e.id = nextId /\ e.via = "bus" /\ Publish(e),
         UNCHANGED <<relayPc, relayEvent>>,
         NEW c \in Client \cup {NoClient},
         \A d \in Client : d # c => rpc'[d] = rpc[d] /\ pending'[d] = pending[d],
         c \in Client =>
            /\ rpc'[c] = "bcast"
            /\ \E e \in Event : /\ pending'[c] = <<e>> /\ e.id = nextId
                                /\ e.via = "local" /\ e.kind = "room"
  PROVE  WaitInv' /\ \A e : Waits(e)' => Waits(e) \/ e.id = nextId
  <1>1. nextId \in Nat /\ nextId' = nextId + 1
    BY HubAssumption DEF TypeOK, EnvType, TakeId
  <1>2. /\ \A i \in DOMAIN bus' :
              \/ i \in DOMAIN bus /\ bus'[i] = bus[i]
              \/ bus'[i].id = nextId /\ bus'[i].via = "bus"
        /\ \A i, j \in DOMAIN bus' : i # j => bus'[i] # bus'[j]
    <2>1. CASE bus' = bus
      BY <2>1 DEF WaitInv
    <2>2. CASE \E e \in Event : e.id = nextId /\ e.via = "bus" /\ Publish(e)
      BY <2>2, PublishBus
    <2> QED
      BY <2>1, <2>2
  <1>3. \A d \in Client : rpc'[d] = "bcast" =>
           \/ rpc[d] = "bcast" /\ pending'[d] = pending[d]
           \/ /\ d = c /\ pending'[d][1].id = nextId /\ pending'[d][1].via = "local"
              /\ pending'[d][1].kind = "room"
    OBVIOUS
  <1>4. /\ \A d \in Client : rpc[d] = "bcast" => pending[d][1].id \in Nat
        /\ \A i \in DOMAIN bus : bus[i].id \in Nat
        /\ relayPc = "bcast" => relayEvent[1].id \in Nat
    <2>1. \A e \in Event : e.id \in Nat
      BY HubAssumption DEF Event
    <2>2. \A i \in DOMAIN bus : bus[i] \in Event
      BY DEF TypeOK, RelayType
    <2> QED
      BY <2>1, <2>2, InHandTypes
  <1>5. /\ \A d \in Client : rpc'[d] = "bcast" =>
              /\ pending'[d][1].via = "local" /\ pending'[d][1].kind = "room"
              /\ pending'[d][1].id < nextId'
        /\ \A d, x \in Client : d # x /\ rpc'[d] = "bcast" /\ rpc'[x] = "bcast" =>
              pending'[d][1] # pending'[x][1]
    BY <1>1, <1>3, <1>4 DEF WaitInv
  <1>6. \A i \in DOMAIN bus' : bus'[i].via = "bus" /\ bus'[i].id < nextId'
    BY <1>1, <1>2, <1>4 DEF WaitInv
  <1>7. relayPc' = "bcast" =>
          /\ relayEvent'[1].via = "bus" /\ relayEvent'[1].kind = "room"
          /\ relayEvent'[1].id < nextId'
          /\ \A i \in DOMAIN bus' : bus'[i] # relayEvent'[1]
    BY <1>1, <1>2, <1>4 DEF WaitInv
  <1>8. \A e : Waits(e)' => Waits(e) \/ e.id = nextId
    BY <1>2, <1>3 DEF Waits
  <1> QED
    BY <1>2, <1>5, <1>6, <1>7, <1>8 DEF WaitInv

\* The relay takes the oldest event off the bus.
LEMMA BusTail ==
  ASSUME TypeOK, WaitInv, bus # <<>>, bus' = Tail(bus)
  PROVE  /\ \A i \in DOMAIN bus' : \E j \in DOMAIN bus : bus'[i] = bus[j]
         /\ \A i, j \in DOMAIN bus' : i # j => bus'[i] # bus'[j]
         /\ \A i \in DOMAIN bus' : bus'[i] # Head(bus)
         /\ \E j \in DOMAIN bus : Head(bus) = bus[j]
  <1>1. bus \in Seq(Event)
    BY DEF TypeOK, RelayType
  <1>2. /\ DOMAIN bus = 1..Len(bus) /\ Len(bus) \in Nat \ {0}
        /\ DOMAIN bus' = 1..(Len(bus) - 1)
        /\ \A i \in 1..(Len(bus) - 1) : bus'[i] = bus[i + 1]
        /\ Head(bus) = bus[1]
    BY <1>1
  <1> QED
    BY <1>2 DEF WaitInv

\* Steps that take nothing up.
LEMMA QuietWaits ==
  ASSUME TypeOK, TodoInv, WaitInv, QuietStep
  PROVE  /\ WaitInv' /\ nextId' >= nextId
         /\ \A e : Waits(e)' => Waits(e) \/ e.id = nextId
  <1>1. nextId \in Nat
    BY HubAssumption DEF TypeOK, EnvType
  <1>2. CASE NoneNew
    BY <1>1, <1>2, NoneNewKeeps DEF NoneNew
  <1>3. CASE addClient \/ removeClient \/ shutdown
    BY <1>2, <1>3 DEF addClient, removeClient, shutdown, connVars, relayVars, envVars,
       NoneNew
  <1>4. ASSUME NEW c \in Client,
               HubRecvRegister(c) \/ HubRecvUnregister(c) \/ HubRecvEvict(c)
        PROVE  NoneNew
    BY <1>4 DEF HubRecvRegister, HubRecvUnregister, HubRecvEvict, connVars, relayVars,
       envVars, NoneNew, TypeOK, ConnType
  <1>5. CASE RelaySubscribe
    BY <1>2, <1>5 DEF RelaySubscribe, connVars, envVars, NoneNew
  <1>6. CASE RelayRecvRoom
    <2>1. /\ bus # <<>> /\ bus' = Tail(bus) /\ relayPc' = "bcast" /\ relayPc = "select"
          /\ relayEvent'[1] = Head(bus) /\ Head(bus).kind = "room"
          /\ UNCHANGED <<rpc, pending, nextId>>
      BY <1>6 DEF RelayRecvRoom, connVars, envVars
    <2>2. WaitInv'
      BY <2>1, BusTail DEF WaitInv
    <2>3. \A e : Waits(e)' => Waits(e)
      BY <2>1, BusTail DEF Waits
    <2> QED
      BY <1>1, <2>1, <2>2, <2>3
  <1>7. CASE RelayStop
    <2>1. /\ bus' = <<>> /\ relayPc' = "done" /\ UNCHANGED <<rpc, pending, nextId>>
      BY <1>7 DEF RelayStop, connVars, envVars
    <2>2. DOMAIN bus' = {}
      BY <2>1
    <2> QED
      BY <1>1, <2>1, <2>2 DEF WaitInv, Waits
  <1>8. ASSUME NEW c \in Client,
               ReadPump(c) \/ WritePump(c) \/ Connect(c) \/ LoseConn(c)
        PROVE  NoneNew
    BY <1>8 DEF ReadPump, ReadFail, AfterReadError, ReadPumpReturn, WritePump, WriteRecv,
       WriteCount, WriteFlush, WriteFrame, WriteFail, WriteClosed, WritePumpReturn,
       Connect, LoseConn, connVars, relayVars, envVars, NoneNew, TypeOK, ConnType
  <1>9. ASSUME NEW c \in Client, NEW r \in Room, handleSendMessage(c, r)
        PROVE  WaitInv' /\ \A e : Waits(e)' => Waits(e) \/ e.id = nextId
    <2> DEFINE mine == Broadcast(nextId, "local", r, NoClient)
               copy == Broadcast(nextId, "bus", r, NoClient)
    <2>1. TakeId /\ Publish(copy)
      BY <1>9 DEF handleSendMessage
    <2>2. mine \in Event /\ copy \in Event /\ mine.kind = "room"
      BY <2>1, EventTypes
    <2>3. mine.id = nextId /\ mine.via = "local" /\ copy.id = nextId /\ copy.via = "bus"
      BY DEF Broadcast
    <2>4. rpc' = [rpc EXCEPT ![c] = "bcast"] /\ pending' = [pending EXCEPT ![c] = <<mine>>]
      BY <1>9 DEF handleSendMessage
    <2>5. /\ rpc'[c] = "bcast" /\ pending'[c] = <<mine>>
          /\ \A d \in Client : d # c => rpc'[d] = rpc[d] /\ pending'[d] = pending[d]
      BY <2>4 DEF TypeOK, ConnType
    <2>6. UNCHANGED <<relayPc, relayEvent>>
      BY <1>9 DEF handleSendMessage
    <2> QED
      BY <2>1, <2>2, <2>3, <2>5, <2>6, NewWaits
  <1>10. ASSUME NEW c \in Client, NEW named \in {{}} \cup {{r} : r \in Room},
                handleTypingEvent(c, named)
         PROVE  WaitInv' /\ \A e : Waits(e)' => Waits(e) \/ e.id = nextId
    <2>1. PICK r \in TypingRoom(c, named) :
             pending' = [pending EXCEPT ![c] = <<Broadcast(nextId, "local", r, c)>>]
      BY <1>10 DEF handleTypingEvent
    <2> DEFINE mine == Broadcast(nextId, "local", r, c)
    <2>2. r \in Room
      BY HubAssumption, <2>1 DEF TypingRoom
    <2>3. TakeId
      BY <1>10 DEF handleTypingEvent
    <2>4. mine \in Event /\ mine.kind = "room"
      BY <2>2, <2>3, EventTypes
    <2>5. mine.id = nextId /\ mine.via = "local"
      BY DEF Broadcast
    <2>6. rpc' = [rpc EXCEPT ![c] = "bcast"] /\ UNCHANGED <<bus, relayPc, relayEvent>>
      BY <1>10 DEF handleTypingEvent, relayVars
    <2>7. /\ rpc'[c] = "bcast" /\ pending'[c] = <<mine>>
          /\ \A d \in Client : d # c => rpc'[d] = rpc[d] /\ pending'[d] = pending[d]
      BY <2>1, <2>6 DEF TypeOK, ConnType
    <2> QED
      BY <2>3, <2>4, <2>5, <2>6, <2>7, NewWaits
  <1>11. CASE Cancel
    BY <1>2, <1>11 DEF Cancel, connVars, relayVars, NoneNew
  <1>12. CASE PublishElsewhere
    <2>1. TakeId /\ UNCHANGED <<rpc, pending, relayPc, relayEvent>>
      BY <1>12 DEF PublishElsewhere, connVars
    <2>2. PICK e : /\ Publish(e)
                   /\ \/ \E r \in Room : e = Broadcast(nextId, "bus", r, NoClient)
                      \/ \E u \in User : e = UserEvent(nextId, u)
      BY <1>12 DEF PublishElsewhere
    <2>3. e \in Event
      BY <2>1, <2>2, EventTypes
    <2>4. e.id = nextId /\ e.via = "bus"
      BY <2>2 DEF Broadcast, UserEvent
    <2>5. WaitInv' /\ \A x : Waits(x)' => Waits(x) \/ x.id = nextId
      BY HubAssumption, <2>1, <2>2, <2>3, <2>4, NewWaits
    <2>6. nextId' >= nextId
      BY <1>1, <2>1 DEF TakeId
    <2> QED
      BY <2>5, <2>6
  <1>13. ASSUME TakeId PROVE nextId' >= nextId
    BY <1>1, <1>13 DEF TakeId
  <1> QED
    BY <1>2, <1>3, <1>4, <1>5, <1>6, <1>7, <1>8, <1>9, <1>10, <1>11, <1>12, <1>13
    DEF QuietStep, Peer, handleSendMessage, handleTypingEvent

-----------------------------------------------------------------------------
(***************************************************************************)
(* Every step keeps the invariant.                                         *)
(***************************************************************************)

\* A quiet step enters neither sendToRoom nor SendToUser, and a hub that returns
\* empties its rooms first.
LEMMA QuietKinds ==
  ASSUME QuietStep
  PROVE  /\ hubPc' = "send" => UNCHANGED <<hubPc, hubEvent>>
         /\ relayPc' = "user" => UNCHANGED <<relayPc, relayEvent>>
         /\ hubPc' = "done" => \/ \A r \in Room : rooms'[r] = {}
                               \/ UNCHANGED <<hubPc, rooms>>
  <1>1. CASE addClient \/ removeClient
    BY <1>1 DEF addClient, removeClient, relayVars
  <1>2. CASE shutdown
    BY <1>2 DEF shutdown, relayVars
  <1>3. ASSUME NEW c \in Client,
               HubRecvRegister(c) \/ HubRecvUnregister(c) \/ HubRecvEvict(c)
        PROVE  UNCHANGED <<relayPc, relayEvent>> /\ hubPc' \in {"add", "remove"}
    BY <1>3 DEF HubRecvRegister, HubRecvUnregister, HubRecvEvict, relayVars
  <1>4. CASE RelaySubscribe \/ RelayRecvRoom \/ RelayStop
    BY <1>4 DEF RelaySubscribe, RelayRecvRoom, RelayStop, hubVars
  <1>5. ASSUME NEW c \in Client, ReadPump(c) \/ Peer(c)
        PROVE  UNCHANGED <<hubPc, hubEvent, relayPc, relayEvent, rooms>>
    BY <1>5 DEF ReadPump, ReadFail, ReadPumpReturn, Peer, Connect, LoseConn,
       handleSendMessage, handleTypingEvent, hubVars, relayVars
  <1>6. ASSUME NEW c \in Client, WritePump(c)
        PROVE  UNCHANGED <<hubPc, hubEvent, relayPc, relayEvent, rooms>>
    BY <1>6 DEF WritePump, WriteRecv, WriteCount, WriteFlush, WriteFrame, WriteFail,
       WriteClosed, WritePumpReturn, hubVars, relayVars
  <1>7. CASE Cancel \/ PublishElsewhere
    BY <1>7 DEF Cancel, PublishElsewhere, hubVars, relayVars
  <1> QED
    BY <1>1, <1>2, <1>3, <1>4, <1>5, <1>6, <1>7 DEF QuietStep

LEMMA QuietKeeps ==
  ASSUME TypeOK, Inv, Alive, StreamInv, Next, QuietStep
  PROVE  KindInv' /\ WaitInv' /\ OwedInv' /\ OnceInv' /\ LastInv'
  <1>1. /\ TodoInv /\ FrameInv /\ KindInv /\ WaitInv /\ OwedInv /\ OnceInv /\ LastInv
    BY DEF Inv, StreamInv
  <1>2. Calm /\ SameHands
    BY <1>1, QuietIsCalm, QuietHands
  <1>3. KindInv'
    BY <1>1, QuietKinds DEF KindInv
  <1>4. WaitInv'
    BY <1>1, QuietWaits
  <1>5. OnceInv'
    BY <1>1, <1>2, OnceCalm
  <1>6. LastInv'
    BY <1>1, <1>2, QuietKinds DEF LastInv, Calm, SameStreams
  <1>7. OwedInv'
    <2>1. ASSUME NEW c \in Client, NEW e \in owed'[c]
          PROVE  e.id < nextId' /\ ~Waits(e)'
      <3>1. e \in owed[c] /\ e.id < nextId /\ ~Waits(e)
        BY <1>1, <1>2, <2>1 DEF SameHands, OwedInv
      <3>2. e.id \in Nat /\ nextId \in Nat
        BY <3>1, HubAssumption DEF TypeOK, EnvType, Event
      <3>3. nextId' \in Nat
        BY HubAssumption, TypeStep DEF TypeOK, EnvType
      <3>4. nextId' >= nextId /\ (Waits(e)' => Waits(e) \/ e.id = nextId)
        BY <1>1, QuietWaits
      <3> QED
        BY <3>1, <3>2, <3>3, <3>4
    <2>2. /\ \A c \in hubTodo' : hubEvent'[1] \in owed'[c] <=> ~Excluded(c, hubEvent'[1])
          /\ \A c \in relayTodo' : relayEvent'[1] \in owed'[c]
      BY <1>1, <1>2 DEF SameHands, OwedInv, Excluded
    <2> QED
      BY <2>1, <2>2 DEF OwedInv, Excluded
  <1> QED
    BY <1>3, <1>4, <1>5, <1>6, <1>7

\* The hub takes up what a ReadPump hands over ...
LEMMA ClientBroadcastIs ==
  ASSUME TypeOK, TodoInv, WaitInv, NEW c \in Client, HubRecvClientBroadcast(c)
  PROVE  LET e == pending[c][1]
         IN  /\ e \in Event /\ e.kind = "room" /\ e.to \in Room /\ e.id < nextId
             /\ Waits(e) /\ hubPc = "select" /\ StartSendToRoom(e)
             /\ UNCHANGED <<relayVars, rooms, users, overflow, nextId, crash>>
             /\ WaitInv' /\ \A x : Waits(x)' => Waits(x) /\ x # e
  <1> DEFINE e == pending[c][1]
  <1>1. /\ rpc[c] = "bcast" /\ hubPc = "select" /\ StartSendToRoom(e)
        /\ UNCHANGED <<relayVars, rooms, users, overflow, nextId, crash>>
    BY DEF HubRecvClientBroadcast, envVars
  <1>2. e \in Event /\ e.kind = "room" /\ e.to \in Room /\ e.id < nextId /\ e.via = "local"
    BY <1>1, InHandTypes DEF WaitInv, TypeOK, ConnType
  <1>3. Waits(e)
    BY <1>1 DEF Waits
  <1>4. \A d \in Client : rpc'[d] = "bcast" =>
           d # c /\ rpc[d] = "bcast" /\ pending'[d] = pending[d]
    BY DEF HubRecvClientBroadcast, TypeOK, ConnType
  <1>5. NoneNew
    BY <1>1, <1>4 DEF NoneNew, relayVars
  <1>6. WaitInv'
    BY <1>5, NoneNewKeeps
  <1>7. \A x : Waits(x)' => x # e
    BY <1>1, <1>2, <1>4 DEF Waits, WaitInv, relayVars
  <1>8. \A x : Waits(x)' => Waits(x)
    BY <1>5, NoneNewKeeps
  <1> QED
    BY <1>1, <1>2, <1>3, <1>6, <1>7, <1>8

\* ... or what the relay does.
LEMMA RelayBroadcastIs ==
  ASSUME TypeOK, TodoInv, WaitInv, HubRecvRelayBroadcast
  PROVE  LET e == relayEvent[1]
         IN  /\ e \in Event /\ e.kind = "room" /\ e.to \in Room /\ e.id < nextId
             /\ Waits(e) /\ hubPc = "select" /\ StartSendToRoom(e)
             /\ relayTodo = {} /\ relayPc' = "select"
             /\ UNCHANGED <<relayTodo, rooms, users, overflow, nextId, crash>>
             /\ WaitInv' /\ \A x : Waits(x)' => Waits(x) /\ x # e
  <1> DEFINE e == relayEvent[1]
  <1>1. /\ relayPc = "bcast" /\ hubPc = "select" /\ StartSendToRoom(e)
        /\ relayTodo = {} /\ relayPc' = "select"
        /\ UNCHANGED <<relayTodo, rooms, users, overflow, nextId, crash, bus, rpc, pending>>
    BY DEF HubRecvRelayBroadcast, envVars, connVars, TodoInv
  <1>2. e \in Event /\ e.kind = "room" /\ e.to \in Room /\ e.id < nextId /\ e.via = "bus"
    BY <1>1, InHandTypes DEF WaitInv, TypeOK, RelayType
  <1>3. Waits(e)
    BY <1>1 DEF Waits
  <1>4. NoneNew
    BY <1>1 DEF NoneNew
  <1>5. WaitInv'
    BY <1>4, NoneNewKeeps
  <1>6. \A x : Waits(x)' => x # e
    BY <1>1, <1>2 DEF Waits, WaitInv
  <1>7. \A x : Waits(x)' => Waits(x)
    BY <1>4, NoneNewKeeps
  <1> QED
    BY <1>1, <1>2, <1>3, <1>5, <1>6, <1>7

\* The relay takes up a user event.
LEMMA RecvUserIs ==
  ASSUME TypeOK, TodoInv, WaitInv, RelayRecvUser
  PROVE  LET e == Head(bus)
         IN  /\ e \in Event /\ e.kind = "user" /\ e.to \in User /\ e.id < nextId
             /\ relayTodo = {} /\ SendToUserRest(users[e.to], e)
             /\ UNCHANGED <<hubVars, overflow, nextId, crash>>
             /\ WaitInv' /\ \A x : Waits(x)' => Waits(x) /\ x # e
  <1> DEFINE e == Head(bus)
  <1>1. /\ bus # <<>> /\ bus' = Tail(bus) /\ e.kind = "user" /\ relayPc' # "bcast"
        /\ relayTodo = {} /\ SendToUserRest(users[e.to], e)
        /\ UNCHANGED <<hubVars, overflow, nextId, crash, rpc, pending>>
    BY DEF RelayRecvUser, SendToUserRest, envVars, connVars, TodoInv
  <1>2. /\ \A i \in DOMAIN bus' : \E j \in DOMAIN bus : bus'[i] = bus[j]
        /\ \A i, j \in DOMAIN bus' : i # j => bus'[i] # bus'[j]
        /\ \A i \in DOMAIN bus' : bus'[i] # e
        /\ \E j \in DOMAIN bus : e = bus[j]
    BY <1>1, BusTail
  <1>3. e \in Event /\ e.to \in User /\ e.id < nextId /\ e.via = "bus"
    BY <1>1, <1>2, InHandTypes DEF WaitInv
  <1>4. WaitInv'
    BY <1>1, <1>2 DEF WaitInv
  <1>5. \A x : Waits(x)' => Waits(x) /\ x # e
    BY <1>1, <1>2, <1>3 DEF Waits, WaitInv
  <1> QED
    BY <1>1, <1>3, <1>4, <1>5

\* Taking up a room event.
LEMMA RoomPostKeeps ==
  ASSUME TypeOK, TodoInv, FrameInv, KindInv, OwedInv, OnceInv, Next,
         NEW e \in Event, e.kind = "room", e.to \in Room, e.id < nextId, Waits(e),
         hubPc = "select", StartSendToRoom(e), UNCHANGED <<relayTodo, overflow, nextId>>,
         relayTodo # {} \/ relayPc' = "user" => UNCHANGED <<relayPc, relayEvent>>,
         \A x : Waits(x)' => Waits(x) /\ x # e
  PROVE  /\ Taken(e, rooms[e.to] \ {e.exclude})
         /\ KindInv' /\ OwedInv' /\ OnceInv' /\ LastInv'
  <1> DEFINE to == rooms[e.to] \ {e.exclude}
  <1>1. Taken(e, to)
    BY RoomIsTaken
  <1>2. OnceInv'
    BY <1>1, OnceTaken
  <1>3. /\ hubTodo' = rooms[e.to] /\ hubPc' \in {"select", "send"}
        /\ hubPc' = "send" => hubEvent'[1] = e
        /\ hubTodo' # {} => hubEvent'[1] = e
    BY DEF StartSendToRoom, SendToRoomRest
  <1>4. KindInv'
    BY <1>3 DEF KindInv
  <1>5. LastInv'
    <2>1. \A c \in Client : \A i \in DOMAIN Received(c) : Received(c)[i] # e
      BY <1>1 DEF Taken, OnceInv, EventsOf
    <2> QED
      BY <1>1, <1>3, <2>1 DEF LastInv, Taken, SameStreams
  <1>6. OwedInv'
    <2>1. \A c \in Client : owed'[c] = IF c \in to THEN owed[c] \cup {e} ELSE owed[c]
      BY <1>1 DEF Taken
    <2>2. ASSUME NEW c \in Client, NEW x \in owed'[c]
          PROVE  x.id < nextId' /\ ~Waits(x)'
      <3>1. x \in owed[c] \/ x = e
        BY <2>1, <2>2
      <3>2. x \in owed[c] => x.id < nextId /\ ~Waits(x)
        BY DEF OwedInv
      <3> QED
        BY <3>1, <3>2
    <2>3. ASSUME NEW c \in hubTodo'
          PROVE  hubEvent'[1] \in owed'[c] <=> ~(e.exclude # NoClient /\ c = e.exclude)
      <3>1. c \in Client /\ c # NoClient /\ hubEvent'[1] = e /\ c \in rooms[e.to]
        BY <1>3, <2>3, HubAssumption DEF TypeOK, HubType
      <3>2. e \notin owed[c]
        BY <1>1, <3>1 DEF Taken
      <3> QED
        BY <2>1, <3>1, <3>2
    <2>4. ASSUME NEW c \in relayTodo' PROVE relayEvent'[1] \in owed'[c]
      <3>1. c \in relayTodo /\ c \in Client /\ relayEvent' = relayEvent
        BY <2>4 DEF TypeOK, RelayType
      <3> QED
        BY <2>1, <3>1 DEF OwedInv
    <2>5. \A c \in hubTodo' : hubEvent'[1] = e
      BY <1>3
    <2> QED
      BY <2>2, <2>3, <2>4, <2>5 DEF OwedInv, Excluded
  <1> QED
    BY <1>1, <1>2, <1>4, <1>5, <1>6

\* Taking up a user event.
LEMMA UserPostKeeps ==
  ASSUME TypeOK, TodoInv, FrameInv, KindInv, WaitInv, OwedInv, OnceInv, LastInv, Next,
         RelayRecvUser
  PROVE  KindInv' /\ WaitInv' /\ OwedInv' /\ OnceInv' /\ LastInv'
  <1> DEFINE e == Head(bus)
             to == users[e.to]
  <1>1. /\ e \in Event /\ e.kind = "user" /\ e.to \in User /\ e.id < nextId
        /\ relayTodo = {} /\ SendToUserRest(to, e)
        /\ UNCHANGED <<hubVars, overflow, nextId, crash>>
        /\ WaitInv' /\ \A x : Waits(x)' => Waits(x) /\ x # e
    BY RecvUserIs
  <1>2. Taken(e, to)
    BY UserIsTaken
  <1>3. OnceInv'
    BY <1>2, OnceTaken
  <1>4. /\ relayTodo' = to /\ relayPc' \in {"select", "user"}
        /\ relayPc' = "user" => relayEvent'[1] = e
        /\ relayTodo' # {} => relayEvent'[1] = e
    BY <1>1 DEF SendToUserRest
  <1>5. KindInv'
    BY <1>1, <1>4 DEF KindInv, hubVars
  <1>6. LastInv'
    BY <1>1, <1>2 DEF LastInv, Taken, SameStreams, hubVars
  <1>7. OwedInv'
    <2>1. \A c \in Client : owed'[c] = IF c \in to THEN owed[c] \cup {e} ELSE owed[c]
      BY <1>2 DEF Taken
    <2>2. ASSUME NEW c \in Client, NEW x \in owed'[c]
          PROVE  x.id < nextId' /\ ~Waits(x)'
      BY <1>1, <2>1, <2>2 DEF OwedInv
    <2>3. ASSUME NEW c \in hubTodo'
          PROVE  hubEvent'[1] \in owed'[c] <=> ~Excluded(c, hubEvent[1])
      <3>1. c \in Client /\ c \in hubTodo /\ hubEvent' = hubEvent /\ hubPc = "send"
        BY <1>1, <2>3 DEF hubVars, TypeOK, HubType, TodoInv
      <3>2. hubEvent[1] # e
        BY <1>1, <3>1 DEF KindInv
      <3> QED
        BY <2>1, <3>1, <3>2 DEF OwedInv
    <2>4. ASSUME NEW c \in relayTodo' PROVE relayEvent'[1] \in owed'[c]
      <3>1. c \in Client
        BY <1>1, <1>4, <2>4 DEF TypeOK, HubType
      <3> QED
        BY <1>4, <2>1, <2>4, <3>1
    <2> QED
      BY <1>1, <2>2, <2>3, <2>4 DEF OwedInv, Excluded, hubVars
  <1> QED
    BY <1>1, <1>3, <1>5, <1>6, <1>7

\* A turn of sendToRoom.
LEMMA RoomTurnKeeps ==
  ASSUME TypeOK, TodoInv, KindInv, WaitInv, OwedInv, OnceInv, LastInv,
         NEW c \in Client, SendToRoomStep(c), Alive'
  PROVE  KindInv' /\ WaitInv' /\ OwedInv' /\ OnceInv' /\ LastInv'
  <1> DEFINE e == hubEvent[1]
  <1>1. /\ hubPc = "send" /\ hubTodo' = hubTodo \ {c}
        /\ hubPc' \in {"select", "send"}
        /\ hubPc' = "send" \/ hubTodo' # {} => hubEvent'[1] = e
        /\ UNCHANGED <<owed, relayVars, connVars, nextId>>
    BY DEF SendToRoomStep, SendToRoomRest, envVars
  <1>2. e \in Event /\ e.kind = "room"
    BY <1>1, InHandTypes DEF KindInv
  <1>3. Calm \/ Delivered(c, e) \/ Missed(c, e)
    BY RoomTurn
  <1>4. OnceInv'
    BY <1>2, <1>3, OnceCalm, OnceDelivered, OnceMissed
  <1>5. LastInv'
    <2>1. CASE SameStreams
      BY <1>1, <2>1 DEF LastInv, SameStreams
    <2>2. CASE Delivered(c, e)
      BY <1>1, <1>2, <2>2, LastDelivered
    <2> QED
      BY <1>3, <2>1, <2>2 DEF Calm, Missed
  <1>6. KindInv'
    BY <1>1, <1>2 DEF KindInv, relayVars
  <1>7. NoneNew
    BY <1>1 DEF NoneNew, relayVars, connVars
  <1>8. WaitInv' /\ \A x : Waits(x)' => Waits(x)
    BY <1>7, NoneNewKeeps
  <1>9. OwedInv'
    BY <1>1, <1>8 DEF OwedInv, Excluded, relayVars
  <1> QED
    BY <1>4, <1>5, <1>6, <1>8, <1>9

\* A turn of SendToUser.
LEMMA UserTurnKeeps ==
  ASSUME TypeOK, TodoInv, KindInv, WaitInv, OwedInv, OnceInv, LastInv,
         NEW c \in Client, SendToUserStep(c), Alive'
  PROVE  KindInv' /\ WaitInv' /\ OwedInv' /\ OnceInv' /\ LastInv'
  <1> DEFINE e == relayEvent[1]
  <1>1. /\ relayPc = "user" /\ relayTodo' = relayTodo \ {c}
        /\ relayPc' \in {"select", "user"}
        /\ relayPc' = "user" \/ relayTodo' # {} => relayEvent'[1] = e
        /\ UNCHANGED <<owed, hubPc, hubTodo, hubEvent, rooms, connVars, bus, nextId>>
    BY DEF SendToUserStep, SendToUserRest, envVars
  <1>2. e \in Event /\ e.kind = "user"
    BY <1>1, InHandTypes DEF KindInv
  <1>3. Delivered(c, e) \/ Missed(c, e)
    BY UserTurn
  <1>4. OnceInv'
    BY <1>2, <1>3, OnceDelivered, OnceMissed
  <1>5. LastInv'
    <2>1. CASE Missed(c, e)
      BY <1>1, <2>1 DEF LastInv, Missed, SameStreams
    <2>2. CASE Delivered(c, e)
      BY <1>1, <1>2, <2>2, LastDelivered
    <2> QED
      BY <1>3, <2>1, <2>2
  <1>6. KindInv'
    BY <1>1, <1>2 DEF KindInv
  <1>7. NoneNew
    BY <1>1 DEF NoneNew, connVars
  <1>8. WaitInv' /\ \A x : Waits(x)' => Waits(x)
    BY <1>7, NoneNewKeeps
  <1>9. OwedInv'
    BY <1>1, <1>8 DEF OwedInv, Excluded
  <1> QED
    BY <1>4, <1>5, <1>6, <1>8, <1>9

\* The order of rooms, whatever the step.
LEMMA OrderStep ==
  ASSUME TypeOK, Inv, Alive, StreamInv, RoomOrderAgreed, Next
  PROVE  RoomOrderAgreed'
  <1>1. TodoInv /\ FrameInv /\ KindInv /\ OwedInv /\ OnceInv /\ LastInv
    BY DEF Inv, StreamInv
  <1>2. CASE SameStreams
    BY <1>2, OrderSame
  <1>3. ASSUME NEW c \in Client, SendToRoomStep(c) PROVE RoomOrderAgreed'
    <2>1. hubPc = "send" /\ hubEvent[1] \in Event
      BY <1>3, InHandTypes DEF SendToRoomStep
    <2>2. CASE Delivered(c, hubEvent[1])
      BY <1>1, <2>1, <2>2, OrderDelivered DEF LastInv
    <2> QED
      BY <1>1, <1>2, <1>3, <2>2, RoomTurn DEF Calm, Missed
  <1>4. ASSUME NEW c \in Client, SendToUserStep(c) PROVE RoomOrderAgreed'
    <2>1. relayPc = "user" /\ relayEvent[1] \in Event /\ relayEvent[1].kind = "user"
      BY <1>1, <1>4, InHandTypes DEF SendToUserStep, KindInv
    <2>2. CASE Delivered(c, relayEvent[1])
      BY <1>1, <2>1, <2>2, OrderDelivered
    <2> QED
      BY <1>1, <1>2, <1>4, <2>2, UserTurn DEF Missed
  <1> QED
    BY <1>1, <1>2, <1>3, <1>4, QuietStreams

\* Next, sorted by what a step does with events.
LEMMA Kinds ==
  ASSUME Next
  PROVE  \/ QuietStep \/ HubRecvRelayBroadcast \/ RelayRecvUser
         \/ \E c \in Client : \/ HubRecvClientBroadcast(c)
                              \/ SendToRoomStep(c) \/ SendToUserStep(c)
  BY DEF Next, QuietStep, HubStep, HubSelect, Relay

LEMMA DStep ==
  ASSUME IInv, DInv, [Next]_vars
  PROVE  DInv'
  <1>1. CASE UNCHANGED vars
    <2>1. UNCHANGED <<crash, wpc, frame, got, send, rpc, hubPc, hubClient, hubEvent,
                      hubTodo, rooms, relayPc, relayEvent, relayTodo, bus, pending,
                      nextId, owed, overflow>>
      BY <1>1 DEF vars, hubVars, chanVars, connVars, writeVars, relayVars, envVars, auxVars
    <2>2. /\ SameStreams
          /\ \A c \in Client : InHand(c)' = InHand(c) /\ EventsOf(c)' = EventsOf(c)
          /\ \A e : Waits(e)' = Waits(e)
      BY <2>1 DEF SameStreams, Received, InHand, EventsOf, Waits
    <2>3. Alive' = Alive
      BY <2>1 DEF Alive
    <2>4. CASE Alive
      <3>1. /\ FrameInv /\ FreshInv /\ KindInv /\ WaitInv /\ OwedInv /\ OnceInv /\ LastInv
        BY <2>4 DEF DInv, StreamInv
      <3>2. FrameInv' /\ KindInv' /\ WaitInv'
        BY <2>1, <3>1 DEF FrameInv, KindInv, WaitInv
      <3>3. FreshInv' /\ LastInv'
        BY <2>1, <2>2, <3>1 DEF FreshInv, LastInv, SameStreams
      <3>4. OwedInv'
        BY <2>1, <2>2, <3>1 DEF OwedInv, Excluded
      <3>5. OnceInv'
        BY <2>1, <2>2, <3>1 DEF OnceInv, SameStreams
      <3> QED
        BY <2>2, <3>2, <3>3, <3>4, <3>5, OrderSame DEF DInv, StreamInv
    <2> QED
      BY <2>2, <2>3, <2>4, OrderSame DEF DInv, StreamInv
  <1>2. CASE Next
    <2>1. TypeOK /\ Inv /\ Alive /\ StreamInv /\ RoomOrderAgreed
      BY <1>2 DEF IInv, DInv, Next
    <2>2. /\ TodoInv /\ FrameInv /\ FreshInv /\ KindInv /\ WaitInv /\ OwedInv /\ OnceInv
          /\ LastInv
      BY <2>1 DEF Inv, StreamInv
    <2>3. RoomOrderAgreed' /\ FrameInv' /\ FreshInv'
      BY <1>2, <2>1, <2>2, OrderStep, FrameStep, FreshStep
    <2> SUFFICES ASSUME Alive' PROVE KindInv' /\ WaitInv' /\ OwedInv' /\ OnceInv' /\ LastInv'
      BY <2>3 DEF DInv, StreamInv
    <2>4. CASE QuietStep
      BY <1>2, <2>1, <2>4, QuietKeeps
    <2>5. CASE HubRecvRelayBroadcast
      BY <1>2, <2>1, <2>2, <2>5, RelayBroadcastIs, RoomPostKeeps
    <2>6. ASSUME NEW c \in Client, HubRecvClientBroadcast(c)
          PROVE  KindInv' /\ WaitInv' /\ OwedInv' /\ OnceInv' /\ LastInv'
      BY <1>2, <2>1, <2>2, <2>6, ClientBroadcastIs, RoomPostKeeps DEF relayVars
    <2>7. CASE RelayRecvUser
      BY <1>2, <2>1, <2>2, <2>7, UserPostKeeps
    <2>8. ASSUME NEW c \in Client, SendToRoomStep(c)
          PROVE  KindInv' /\ WaitInv' /\ OwedInv' /\ OnceInv' /\ LastInv'
      BY <2>1, <2>2, <2>8, RoomTurnKeeps
    <2>9. ASSUME NEW c \in Client, SendToUserStep(c)
          PROVE  KindInv' /\ WaitInv' /\ OwedInv' /\ OnceInv' /\ LastInv'
      BY <2>1, <2>2, <2>9, UserTurnKeeps
    <2> QED
      BY <1>2, <2>4, <2>5, <2>6, <2>7, <2>8, <2>9, Kinds
  <1> QED
    BY <1>1, <1>2

LEMMA DInit == Init => DInv
  <1> SUFFICES ASSUME Init PROVE DInv
    OBVIOUS
  <1>1. \A c \in Client : Received(c) = <<>> /\ EventsOf(c) = {} /\ InHand(c) = {}
    BY DEF Init, Received, EventsOf, InHand
  <1>2. FrameInv /\ KindInv
    BY DEF Init, FrameInv, KindInv
  <1>3. WaitInv
    BY DEF Init, WaitInv
  <1>4. OwedInv /\ FreshInv
    BY <1>1 DEF Init, OwedInv, FreshInv
  <1>5. OnceInv /\ LastInv /\ RoomOrderAgreed
    BY <1>1 DEF Init, OnceInv, LastInv, RoomOrderAgreed
  <1> QED
    BY <1>2, <1>3, <1>4, <1>5 DEF DInv, StreamInv

\* The inductive invariant holds in every state.
THEOREM StreamInvariant == Spec => []DInv
  <1>1. IInv /\ DInv /\ [Next]_vars => DInv'
    BY DStep
  <1> QED
    BY <1>1, DInit, Inductive, PTL DEF Spec

\* A sequence that repeats nothing is as long as its set of entries is large.
LEMMA Injective ==
  ASSUME NEW s \in Seq(Event), \A i, j \in DOMAIN s : i # j => s[i] # s[j]
  PROVE  Len(s) = Cardinality({s[i] : i \in DOMAIN s})
  <1> DEFINE T == {s[i] : i \in DOMAIN s}
  <1>1. DOMAIN s = 1..Len(s) /\ Len(s) \in Nat
    OBVIOUS
  <1>2. s \in Surjection(1..Len(s), T) /\ s \in Injection(1..Len(s), T)
    BY <1>1 DEF Surjection, Injection, IsInjective
  <1>3. IsFiniteSet(1..Len(s)) /\ Cardinality(1..Len(s)) = Len(s)
    BY <1>1, FS_Interval
  <1> HIDE DEF T
  <1>4. Cardinality(T) = Cardinality(1..Len(s))
    BY <1>2, <1>3, FS_Surjection
  <1> QED
    BY <1>3, <1>4 DEF T

\* Every connection gets the events it is owed once, and any two connections get
\* the events of rooms in one order, for any number of connections and events
\* (hub.go 129-155, relay.go 94-107, client.go 140-178).
THEOREM StreamsAgreeAlways == Spec => []StreamsAgree
  <1>1. ASSUME IInv, DInv PROVE DeliveredOnce
    <2> SUFFICES ASSUME Alive, NEW c \in Client \ overflow
                 PROVE  /\ EventsOf(c) = owed[c] \ InHand(c)
                        /\ Len(Received(c)) = Cardinality(EventsOf(c))
      BY DEF DeliveredOnce
    <2>1. OnceInv
      BY <1>1 DEF DInv, StreamInv
    <2>2. EventsOf(c) = owed[c] \ InHand(c)
      BY <2>1 DEF OnceInv
    <2>3. Received(c) \in Seq(Event)
      BY <1>1, StreamType DEF IInv
    <2>4. Len(Received(c)) = Cardinality(EventsOf(c))
      BY <2>1, <2>3, Injective DEF OnceInv, EventsOf
    <2> QED
      BY <2>2, <2>4
  <1>2. IInv /\ DInv => StreamsAgree
    BY <1>1 DEF StreamsAgree, DInv
  <1> QED
    BY <1>2, Inductive, StreamInvariant, PTL

-----------------------------------------------------------------------------
(***************************************************************************)
(* The node implements Delivery: each step is one of Delivery or leaves    *)
(* its variables alone.                                                    *)
(***************************************************************************)

\* What is due to a connection is what is in hand for it.
LEMMA DueIsInHand ==
  IInv /\ DInv /\ Alive => due = [c \in Client |-> InHand(c)]
  <1> SUFFICES ASSUME IInv, DInv, Alive, NEW c \in Client PROVE Due(c) = InHand(c)
    BY DEF due
  <1>1. TypeOK /\ TodoInv /\ OwedInv
    BY DEF IInv, Inv, DInv, StreamInv
  <1>2. /\ hubPc = "send" => Range(hubEvent) = {hubEvent[1]}
        /\ relayPc = "user" => Range(relayEvent) = {relayEvent[1]}
    BY <1>1 DEF TypeOK, HubType, RelayType, Range
  <1>3. /\ c \in hubTodo => (hubEvent[1] \in owed[c] <=> ~Excluded(c, hubEvent[1]))
        /\ c \in relayTodo => relayEvent[1] \in owed[c]
    BY <1>1 DEF OwedInv
  <1>4. c \in hubTodo => hubPc = "send"
    BY <1>1 DEF TodoInv
  <1> QED
    BY <1>2, <1>3, <1>4 DEF Due, InHand

LEMMA DueIsInHandNext ==
  (IInv /\ DInv /\ Alive => due = [c \in Client |-> InHand(c)])'
  BY DueIsInHand, PTL

\* The four kinds of step in the variables of Delivery.
LEMMA CalmView ==
  ASSUME IInv, DInv, Alive, IInv', DInv', Alive', Calm
  PROVE  UNCHANGED <<due, stream, overflow, Alive>>
  <1>1. UNCHANGED due
    BY DueIsInHand, DueIsInHandNext DEF Calm
  <1>2. UNCHANGED stream
    BY DEF stream, Calm, SameStreams
  <1> QED
    BY <1>1, <1>2 DEF Calm

LEMMA TakenView ==
  ASSUME IInv, DInv, Alive, IInv', DInv', Alive', NEW e, NEW to, Taken(e, to),
         UNCHANGED <<rooms, users>>, D!Settled(e.kind), to \subseteq Client
  PROVE  D!Post(e, to) /\ (to # {} => e \in D!NewlyDue)
  <1>1. due' = [c \in Client |-> IF c \in to THEN due[c] \cup {e} ELSE due[c]]
    BY DueIsInHand, DueIsInHandNext DEF Taken
  <1>2. UNCHANGED <<stream, overflow, Alive>>
    BY DEF stream, Taken, SameStreams
  <1>3. ASSUME NEW c \in to PROVE e \notin Range(stream[c]) /\ e \notin due[c] /\ e \in due'[c]
    <2>1. c \in Client /\ stream[c] = Received(c)
      BY DEF stream
    <2>2. OnceInv
      BY DEF DInv, StreamInv
    <2>3. EventsOf(c) \subseteq owed[c] /\ InHand(c) \subseteq owed[c] /\ e \notin owed[c]
      BY <2>1, <2>2 DEF OnceInv, InHand, Taken
    <2>4. e \notin due[c]
      BY <2>1, <2>3, DueIsInHand
    <2> QED
      BY <1>1, <2>1, <2>3, <2>4 DEF Range, EventsOf
  <1>4. D!Post(e, to)
    BY <1>1, <1>2, <1>3 DEF D!Post, D!Range, Range
  <1>5. to # {} => e \in D!NewlyDue
    BY <1>3 DEF D!NewlyDue
  <1> QED
    BY <1>4, <1>5

LEMMA DeliveredView ==
  ASSUME IInv, DInv, Alive, IInv', DInv', Alive', NEW c \in Client, NEW e, Delivered(c, e),
         UNCHANGED <<rooms, users>>
  PROVE  e \in due[c] /\ D!Deliver(c, e)
  <1>1. e \in due[c] /\ due' = [due EXCEPT ![c] = @ \ {e}]
    BY DueIsInHand, DueIsInHandNext DEF Delivered
  <1>2. stream' = [stream EXCEPT ![c] = Append(@, e)]
    BY DEF stream, Delivered
  <1> QED
    BY <1>1, <1>2 DEF D!Deliver, Delivered

LEMMA MissedView ==
  ASSUME IInv, DInv, Alive, IInv', DInv', Alive', NEW c \in Client, NEW e, Missed(c, e),
         UNCHANGED rooms,
         users' = IF e.kind = "user" THEN [users EXCEPT ![UserOf[c]] = @ \ {c}] ELSE users
  PROVE  e \in due[c] /\ D!Miss(c, e)
  <1>1. e \in due[c] /\ due' = [due EXCEPT ![c] = @ \ {e}]
    BY DueIsInHand, DueIsInHandNext DEF Missed
  <1>2. UNCHANGED stream
    BY DEF stream, Missed, SameStreams
  <1> QED
    BY <1>1, <1>2 DEF D!Miss, Missed

\* The process ends for one of two reasons.
LEMMA AbortView ==
  ASSUME IInv, DInv, IInv', Alive, ~Alive', SameStreams, UNCHANGED <<overflow, hubPc>>
  PROVE  D!Abort
  <1>1. UNCHANGED stream
    BY DEF stream, SameStreams
  <1>2. CrashCause' /\ crash' \in {"close", "send"}
    BY DEF IInv, Inv, Alive, TypeOK, EnvType
  <1>3. overflow # {} \/ hubPc = "done"
    BY <1>2 DEF CrashCause
  <1>4. hubPc = "done" => \A r \in Room : rooms[r] = {}
    BY DEF DInv, StreamInv, KindInv
  <1> QED
    BY <1>1, <1>3, <1>4 DEF D!Abort

\* The hub alone joins and leaves, and only when it walks no targets.
LEMMA HubView ==
  ASSUME IInv, DInv, Alive, IInv', DInv', Next, addClient \/ removeClient \/ shutdown
  PROVE  D!Next
  <1>1. TypeOK /\ TodoInv /\ RegistryConsistent /\ FrameInv /\ FreshInv
    BY DEF IInv, Inv, DInv, StreamInv
  <1>2. Calm
    BY <1>1, QuietIsCalm DEF QuietStep
  <1>3. hubTodo = {} /\ relayTodo = {}
    BY <1>1 DEF addClient, removeClient, shutdown, WriteLockFree, TodoInv
  <1>4. Alive => \A c \in Client : due[c] = {}
    BY <1>3, DueIsInHand DEF InHand
  <1>5. D!Quiet
    BY <1>4 DEF D!Quiet
  <1>6. CASE ~Alive'
    <2>1. UNCHANGED <<overflow, hubPc>>
      BY <1>6 DEF addClient, removeClient, shutdown, auxVars, Alive
    <2> QED
      BY <1>2, <1>6, <2>1, AbortView DEF D!Next, Calm
  <1>7. CASE Alive' /\ addClient
    <2> DEFINE c == hubClient
    <2>1. hubPc = "add" /\ c \in Client
      BY <1>1, <1>7 DEF addClient, TypeOK, HubType
    <2>2. stream[c] = <<>>
      BY <1>1, <2>1 DEF FreshInv, stream
    <2>3. UNCHANGED <<due, stream, overflow, Alive>>
      BY <1>2, <1>7, CalmView
    <2>4. \A r \in Room : isMember(c, r) <=> r \in Range(RoomsOf[c])
      BY <2>1 DEF isMember, roomSet, Range
    <2>5. rooms' = [r \in Room |-> IF r \in Range(RoomsOf[c])
                                   THEN rooms[r] \cup {c} ELSE rooms[r]]
      BY <1>7, <2>4 DEF addClient
    <2>6. users' = [users EXCEPT ![UserOf[c]] = @ \cup {c}]
      BY <1>7 DEF addClient
    <2>7. D!Join(c)
      BY <1>5, <2>2, <2>3, <2>5, <2>6 DEF D!Join, D!Range, Range
    <2> QED
      BY <2>1, <2>7 DEF D!Next
  <1>8. CASE Alive' /\ removeClient
    <2> DEFINE c == hubClient
    <2>1. hubPc = "remove" /\ c \in Client
      BY <1>1, <1>8 DEF removeClient, TypeOK, HubType
    <2>2. UNCHANGED <<due, stream, overflow, Alive>>
      BY <1>2, <1>8, CalmView
    <2>3. \A r \in Room : ~isMember(c, r) => rooms[r] = rooms[r] \ {c}
      BY <1>1 DEF RegistryConsistent
    <2>4. rooms' = [r \in Room |-> rooms[r] \ {c}]
      BY <1>8, <2>3 DEF removeClient, LeaveRooms
    <2>5. users' = [users EXCEPT ![UserOf[c]] = @ \ {c}]
      BY <1>8 DEF removeClient
    <2>6. D!Leave(c)
      BY <1>5, <2>2, <2>4, <2>5 DEF D!Leave
    <2> QED
      BY <2>1, <2>6 DEF D!Next
  <1>9. CASE Alive' /\ shutdown
    <2>1. UNCHANGED <<due, stream, overflow, Alive>>
      BY <1>2, <1>9, CalmView
    <2>2. rooms' = [r \in Room |-> {}] /\ UNCHANGED users
      BY <1>9 DEF shutdown, Alive
    <2>3. D!Stop
      BY <1>5, <2>1, <2>2 DEF D!Stop
    <2> QED
      BY <2>3 DEF D!Next
  <1> QED
    BY <1>6, <1>7, <1>8, <1>9

\* Taking up an event for nobody changes nothing.
LEMMA PostedView ==
  ASSUME IInv, DInv, Alive, NEW e, NEW to, D!Post(e, to),
         to # {} => e \in D!NewlyDue,
         (e.kind = "room" /\ e.to \in Room /\ to = rooms[e.to] \ {e.exclude})
            \/ (e.kind = "user" /\ e.to \in User /\ to = users[e.to])
  PROVE  D!Next \/ UNCHANGED D!vars
  <1>1. CASE to = {}
    <2>1. \A c \in Client : due'[c] = due[c]
      BY <1>1 DEF D!Post
    <2>2. UNCHANGED due
      BY <2>1 DEF due
    <2> QED
      BY <2>2 DEF D!Post, D!vars
  <1>2. CASE to # {}
    BY <1>2 DEF D!Next, D!PostRoom, D!PostUser
  <1> QED
    BY <1>1, <1>2

LEMMA ViewStep ==
  ASSUME IInv, DInv, IInv', DInv', [Next]_vars
  PROVE  [D!Next]_D!vars
  <1>1. CASE UNCHANGED vars
    <2>1. UNCHANGED <<rooms, users, overflow, crash, got, frame, send, hubEvent, hubTodo,
                      relayEvent, relayPc, relayTodo>>
      BY <1>1 DEF vars, hubVars, chanVars, writeVars, relayVars, auxVars
    <2> QED
      BY <2>1 DEF D!vars, due, Due, Excluded, stream, Received, Alive, Range
  <1> SUFFICES ASSUME Next PROVE D!Next \/ UNCHANGED D!vars
    BY <1>1
  <1>2. Alive /\ TypeOK /\ TodoInv /\ FrameInv /\ KindInv /\ WaitInv /\ OwedInv /\ OnceInv
    BY DEF Next, IInv, Inv, DInv, StreamInv
  <1>3. CASE addClient \/ removeClient \/ shutdown
    BY <1>2, <1>3, HubView
  <1>4. CASE /\ QuietStep /\ ~(addClient \/ removeClient \/ shutdown)
    <2>1. UNCHANGED <<rooms, users, crash>>
      <3>1. ASSUME NEW c \in Client,
                   HubRecvRegister(c) \/ HubRecvUnregister(c) \/ HubRecvEvict(c)
            PROVE  UNCHANGED <<rooms, users, crash>>
        BY <3>1 DEF HubRecvRegister, HubRecvUnregister, HubRecvEvict
      <3>2. CASE RelaySubscribe \/ RelayRecvRoom \/ RelayStop \/ Cancel \/ PublishElsewhere
        BY <3>2 DEF RelaySubscribe, RelayRecvRoom, RelayStop, Cancel, PublishElsewhere,
           hubVars
      <3>3. ASSUME NEW c \in Client, ReadPump(c) \/ Peer(c)
            PROVE  UNCHANGED <<rooms, users, crash>>
        BY <3>3 DEF ReadPump, ReadFail, ReadPumpReturn, Peer, Connect, LoseConn,
           handleSendMessage, handleTypingEvent, hubVars
      <3>4. ASSUME NEW c \in Client, WritePump(c) PROVE UNCHANGED <<rooms, users, crash>>
        BY <3>4 DEF WritePump, WriteRecv, WriteCount, WriteFlush, WriteFrame, WriteFail,
           WriteClosed, WritePumpReturn, hubVars
      <3> QED
        BY <1>4, <3>1, <3>2, <3>3, <3>4 DEF QuietStep
    <2>2. Alive' /\ Calm
      BY <1>2, <1>4, <2>1, QuietIsCalm DEF Alive
    <2> QED
      BY <1>2, <2>1, <2>2, CalmView DEF D!vars
  <1>5. ASSUME NEW e \in Event, e.kind = "room", e.to \in Room, e.id < nextId, Waits(e),
               hubPc = "select", StartSendToRoom(e),
               UNCHANGED <<relayTodo, rooms, users, overflow, nextId, crash>>,
               relayTodo # {} \/ relayPc' = "user" => UNCHANGED <<relayPc, relayEvent>>,
               \A x : Waits(x)' => Waits(x) /\ x # e
        PROVE  D!Next \/ UNCHANGED D!vars
    <2> DEFINE to == rooms[e.to] \ {e.exclude}
    <2>1. Taken(e, to) /\ Alive'
      BY <1>2, <1>5, RoomPostKeeps DEF Alive
    <2>2. to \subseteq Client
      BY <1>2, <1>5 DEF TypeOK, HubType
    <2>3. D!Settled("room")
      <3>1. ASSUME NEW c \in Client, NEW x \in InHand(c) PROVE x.kind # "room"
        BY <1>2, <1>5, <3>1 DEF InHand, KindInv
      <3> QED
        BY <1>2, <3>1, DueIsInHand DEF D!Settled
    <2>4. D!Post(e, to) /\ (to # {} => e \in D!NewlyDue)
      BY <1>2, <1>5, <2>1, <2>2, <2>3, TakenView
    <2> QED
      BY <1>2, <1>5, <2>4, PostedView
  <1>6. CASE HubRecvRelayBroadcast
    BY <1>2, <1>5, <1>6, RelayBroadcastIs
  <1>7. ASSUME NEW c \in Client, HubRecvClientBroadcast(c)
        PROVE  D!Next \/ UNCHANGED D!vars
    BY <1>2, <1>5, <1>7, ClientBroadcastIs DEF relayVars
  <1>8. CASE RelayRecvUser
    <2> DEFINE e == Head(bus)
               to == users[e.to]
    <2>1. /\ e \in Event /\ e.kind = "user" /\ e.to \in User /\ relayTodo = {}
          /\ UNCHANGED <<rooms, users, overflow, crash>>
      BY <1>2, <1>8, RecvUserIs DEF hubVars
    <2>2. Taken(e, to) /\ Alive'
      BY <1>2, <1>8, <2>1, UserIsTaken DEF Alive
    <2>3. to \subseteq Client
      BY <1>2, <2>1 DEF TypeOK, HubType
    <2>4. D!Settled("user")
      <3>1. ASSUME NEW c \in Client, NEW x \in InHand(c) PROVE x.kind # "user"
        BY <1>2, <2>1, <3>1 DEF InHand, KindInv
      <3> QED
        BY <1>2, <3>1, DueIsInHand DEF D!Settled
    <2>5. D!Post(e, to) /\ (to # {} => e \in D!NewlyDue)
      BY <1>2, <2>1, <2>2, <2>3, <2>4, TakenView
    <2> QED
      BY <1>2, <2>1, <2>5, PostedView
  <1>9. ASSUME NEW c \in Client, SendToRoomStep(c) PROVE D!Next \/ UNCHANGED D!vars
    <2> DEFINE e == hubEvent[1]
    <2>1. /\ hubPc = "send" /\ e.kind = "room" /\ UNCHANGED <<rooms, users>>
      BY <1>2, <1>9 DEF SendToRoomStep, KindInv
    <2>2. CASE Alive' /\ Calm
      BY <1>2, <2>1, <2>2, CalmView DEF D!vars
    <2>3. CASE Alive' /\ Delivered(c, e)
      BY <1>2, <2>1, <2>3, DeliveredView DEF D!Next
    <2>4. CASE Alive' /\ Missed(c, e)
      BY <1>2, <2>1, <2>4, MissedView DEF D!Next
    <2>5. CASE ~Alive'
      <3>1. ~Excluded(c, e) /\ c \in closed /\ UNCHANGED <<send, overflow>>
        BY <1>2, <1>9, <2>5 DEF SendToRoomStep, Alive
      <3>2. SameStreams
        BY <1>9, <3>1 DEF SendToRoomStep, writeVars, SameStreams, Received
      <3>3. overflow # {} \/ hubPc' = "done"
        BY <1>9, <2>5, <3>1 DEF IInv, Inv, CrashCause, SendToRoomStep, Alive
      <3>4. hubPc' # "done"
        BY <1>9 DEF SendToRoomStep, SendToRoomRest
      <3>5. D!Abort
        BY <2>5, <3>1, <3>2, <3>3, <3>4 DEF D!Abort, stream, SameStreams
      <3> QED
        BY <1>2, <3>5 DEF D!Next
    <2> QED
      BY <1>2, <1>9, <2>2, <2>3, <2>4, <2>5, RoomTurn
  <1>10. ASSUME NEW c \in Client, SendToUserStep(c) PROVE D!Next \/ UNCHANGED D!vars
    <2> DEFINE e == relayEvent[1]
    <2>1. /\ relayPc = "user" /\ e.kind = "user" /\ UNCHANGED <<rooms, hubPc>>
      BY <1>2, <1>10 DEF SendToUserStep, KindInv
    <2>2. CASE Alive' /\ Delivered(c, e) /\ UNCHANGED users
      BY <1>2, <2>1, <2>2, DeliveredView DEF D!Next
    <2>3. CASE Alive' /\ Missed(c, e) /\ users' = [users EXCEPT ![UserOf[c]] = @ \ {c}]
      BY <1>2, <2>1, <2>3, MissedView DEF D!Next
    <2>4. CASE ~Alive'
      <3>1. UNCHANGED <<send, overflow>>
        BY <1>2, <1>10, <2>4 DEF SendToUserStep, Alive
      <3>2. SameStreams
        BY <1>10, <3>1 DEF SendToUserStep, writeVars, SameStreams, Received
      <3> QED
        BY <1>2, <2>1, <2>4, <3>1, <3>2, AbortView DEF D!Next
    <2> QED
      BY <1>2, <1>10, <2>2, <2>3, <2>4, UserTurn
  <1> QED
    BY <1>3, <1>4, <1>6, <1>7, <1>8, <1>9, <1>10, Kinds

\* The node implements its abstract specification: rooms in one order, each event
\* once, to whoever was there when it was taken up (HubDelivery.ImplementsDelivery).
THEOREM NodeImplementsDelivery == Spec => ImplementsDelivery
  <1>1. Init => D!Init
    <2> SUFFICES ASSUME Init PROVE D!Init
      OBVIOUS
    <2>1. \A c \in Client : Due(c) = {} /\ Received(c) = <<>>
      BY DEF Init, Due, Received, Range
    <2> QED
      BY <2>1 DEF Init, D!Init, due, stream, Alive
  <1>2. IInv /\ DInv /\ IInv' /\ DInv' /\ [Next]_vars => [D!Next]_D!vars
    BY ViewStep
  <1> QED
    BY <1>1, <1>2, Inductive, StreamInvariant, PTL DEF Spec, ImplementsDelivery, D!Spec
=============================================================================
