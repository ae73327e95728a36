--------------------------- MODULE GatewayProofs ---------------------------
(***************************************************************************)
(* Theorems about Gateway, for every set of rooms, users, connections and  *)
(* requested rooms, and any number of calls that fail.                     *)
(***************************************************************************)
EXTENDS Gateway, SequenceTheorems, TLAPS

(***************************************************************************)
(* What the handler of c has established.  While the handshake is under    *)
(* way, the rooms of "always" are rooms of the user now: the query that is *)
(* next will list the user there.                                          *)
(***************************************************************************)
HandlerInv(c) ==
    /\ gate[c].pc = "none" => gate[c].user = Nobody
    /\ gate[c].pc # "none" =>
          /\ gate[c].user \in User
          /\ Range(gate[c].todo) \subseteq Range(gate[c].raw)
          /\ Range(gate[c].allowed) \subseteq Range(gate[c].raw) \cap ever[c]
    /\ gate[c].pc \in {"profile", "register", "served", "orphan"} => gate[c].allowed # <<>>
    /\ gate[c].pc \notin {"none", "filter"} => gate[c].todo = <<>>

WindowInv(c) ==
    Underway(c) => always[c] \subseteq MemberOf(c) /\ MemberOf(c) \subseteq ever[c]

\* No room of "always" is lost: it is allowed or still to be looked at.
NoneLost(c) ==
    c \notin hurt =>
        /\ gate[c].pc \in {"filter", "profile", "register", "served"} =>
              Range(gate[c].raw) \cap always[c]
                  \subseteq Range(gate[c].allowed) \cup Range(gate[c].todo)
        /\ gate[c].pc \in {"refused", "orphan"} => Range(gate[c].raw) \cap always[c] = {}

\* Only live rooms have members.
LiveInv == \A d \in Room : state[d] # "live" => members[d] = {}

\* Of a room its user came into, a connection was told, or the announcement is
\* on its way, or owed.
NewsInv(c) ==
    /\ joined[c] \subseteq MemberOf(c)
    /\ faults = 0 /\ gate[c].pc = "served" => \A d \in joined[c] :
          d \in inbox[c] \/ <<d, gate[c].user>> \in bus \cup due

IInv ==
    /\ TypeOK
    /\ LiveInv
    /\ \A c \in Conn : HandlerInv(c) /\ WindowInv(c) /\ NoneLost(c) /\ NewsInv(c)

-----------------------------------------------------------------------------
(***************************************************************************)
(* Sequences of rooms.                                                     *)
(***************************************************************************)
LEMMA RangeOfAppend ==
  ASSUME NEW s \in Seq(Room), NEW d \in Room
  PROVE  Append(s, d) \in Seq(Room) /\ Append(s, d) # <<>>
         /\ Range(Append(s, d)) = Range(s) \cup {d}
  <1>1. /\ Append(s, d) \in Seq(Room) /\ Append(s, d) # <<>>
        /\ Len(Append(s, d)) = Len(s) + 1
        /\ \A i \in 1..Len(s) : Append(s, d)[i] = s[i]
        /\ Append(s, d)[Len(s) + 1] = d
    BY AppendProperties
  <1>2. Range(s) = {s[i] : i \in 1..Len(s)}
    BY RangeEquality
  <1>3. Range(Append(s, d)) = {Append(s, d)[i] : i \in 1..(Len(s) + 1)}
    BY <1>1, RangeEquality
  <1>4. 1..(Len(s) + 1) = (1..Len(s)) \cup {Len(s) + 1}
    OBVIOUS
  <1> QED
    BY <1>1, <1>2, <1>3, <1>4

LEMMA RangeOfTail ==
  ASSUME NEW s \in Seq(Room), s # <<>>
  PROVE  /\ Head(s) \in Room /\ Tail(s) \in Seq(Room)
         /\ Range(s) = {Head(s)} \cup Range(Tail(s))
  <1>1. /\ Head(s) \in Room /\ Tail(s) \in Seq(Room)
        /\ Len(Tail(s)) = Len(s) - 1
        /\ \A i \in 1..Len(Tail(s)) : Tail(s)[i] = s[i + 1]
    BY HeadTailProperties
  <1>2. Range(s) = {s[i] : i \in 1..Len(s)}
    BY RangeEquality
  <1>3. Range(Tail(s)) = {Tail(s)[i] : i \in 1..Len(Tail(s))}
    BY <1>1, RangeEquality
  <1>4. Len(s) \in Nat /\ Len(s) >= 1 /\ Head(s) = s[1]
    OBVIOUS
  <1>5. ASSUME NEW d \in Range(s) PROVE d = Head(s) \/ d \in Range(Tail(s))
    <2>1. PICK i \in 1..Len(s) : d = s[i]
      BY <1>2, <1>5
    <2>2. CASE i = 1
      BY <2>1, <2>2, <1>4
    <2>3. CASE i # 1
      <3>1. i - 1 \in 1..Len(Tail(s)) /\ (i - 1) + 1 = i
        BY <2>1, <2>3, <1>1, <1>4
      <3>2. Tail(s)[i - 1] = d
        BY <3>1, <2>1, <1>1
      <3> QED
        BY <3>1, <3>2, <1>3
    <2> QED
      BY <2>2, <2>3
  <1>6. ASSUME NEW d \in Range(Tail(s)) PROVE d \in Range(s)
    <2>1. PICK i \in 1..Len(Tail(s)) : d = Tail(s)[i]
      BY <1>3, <1>6
    <2>2. i + 1 \in 1..Len(s)
      BY <2>1, <1>1, <1>4
    <2> QED
      BY <2>1, <2>2, <1>1, <1>2
  <1>7. Head(s) \in Range(s)
    BY <1>2, <1>4
  <1> QED
    BY <1>1, <1>5, <1>6, <1>7

LEMMA RangeOfEmpty == Range(<<>>) = {}
  BY DEF Range

\* A sequence of rooms has rooms.
LEMMA RangeInRoom ==
  ASSUME NEW s \in Seq(Room)
  PROVE  Range(s) \subseteq Room
  BY RangeOfSeq

-----------------------------------------------------------------------------
(***************************************************************************)
(* The history variables.                                                  *)
(***************************************************************************)

\* The types that Record relies on and those it keeps.
LEMMA RecordTypes ==
  ASSUME IInv, Record, members' \in [Room -> SUBSET User]
  PROVE  /\ ever' \in [Conn -> SUBSET Room] /\ always' \in [Conn -> SUBSET Room]
         /\ joined' \in [Conn -> SUBSET Room]
  <1>1. \A c \in Conn : MemberOf(c)' \subseteq Room
    BY DEF MemberOf
  <1> QED
    BY <1>1 DEF IInv, TypeOK, Record

\* What Record does to one connection.
LEMMA RecordOne ==
  ASSUME Record, NEW c \in Conn
  PROVE  /\ ever'[c] = IF gate[c].pc = "none" \/ Underway(c) THEN ever[c] \cup MemberOf(c)'
                       ELSE ever[c]
         /\ always'[c] = IF gate[c].pc = "none" THEN MemberOf(c)'
                         ELSE IF Underway(c) THEN always[c] \cap MemberOf(c)' ELSE always[c]
         /\ joined'[c] = IF gate[c].pc # "served" THEN {}
                         ELSE (joined[c] \cup (MemberOf(c)' \ MemberOf(c))) \cap MemberOf(c)'
  BY DEF Record

\* A step that is not a step of c's handler leaves it as it was, whatever
\* happens to the rooms meanwhile.
LEMMA HandlerRests ==
  ASSUME IInv, Record, NEW c \in Conn, gate'[c] = gate[c], c \in hurt <=> c \in hurt'
  PROVE  (HandlerInv(c) /\ WindowInv(c) /\ NoneLost(c))'
  <1>1. HandlerInv(c) /\ WindowInv(c) /\ NoneLost(c)
    BY DEF IInv
  <1>2. ever[c] \subseteq ever'[c]
    BY RecordOne
  <1>3. gate[c].pc # "none" => always'[c] \subseteq always[c]
    BY RecordOne
  <1>4. HandlerInv(c)'
    BY <1>1, <1>2 DEF HandlerInv
  <1>5. WindowInv(c)'
    BY <1>1, RecordOne DEF WindowInv, Underway
  <1>6. NoneLost(c)'
    BY <1>1, <1>3 DEF NoneLost
  <1> QED
    BY <1>4, <1>5, <1>6

-----------------------------------------------------------------------------
(***************************************************************************)
(* Steps of the room service.                                              *)
(***************************************************************************)

\* Types of the memberships, and who is owed an announcement: whoever comes in,
\* and nobody is forgotten but for a room that is gone or a call that failed.
RoomTypes ==
    /\ state \in [Room -> {"new", "live", "gone"}]
    /\ members \in [Room -> SUBSET User]
    /\ due \subseteq Room \X User /\ told \subseteq Room \X User
    /\ faults \in Nat

LEMMA MemberChangeOK ==
  ASSUME RoomTypes, LiveInv, MemberChange
  PROVE  /\ RoomTypes' /\ LiveInv'
         /\ faults' = 0 =>
               /\ faults = 0
               /\ \A d \in Room, u \in User :
                     /\ u \in members'[d] /\ u \notin members[d] => <<d, u>> \in due'
                     /\ u \in members'[d] /\ <<d, u>> \in due => <<d, u>> \in due'
  <1> DEFINE Owed == \A d \in Room, u \in User :
                        /\ u \in members'[d] /\ u \notin members[d] => <<d, u>> \in due'
                        /\ u \in members'[d] /\ <<d, u>> \in due => <<d, u>> \in due'
  <1>1. ASSUME NEW d \in Room, NEW us \in SUBSET User, CreateRoom(d, us)
        PROVE  RoomTypes' /\ LiveInv' /\ faults' = faults /\ Owed
    BY <1>1 DEF CreateRoom, RoomTypes, LiveInv
  <1>2. ASSUME NEW d \in Room, NEW u \in User, AddToRoom(d, u)
        PROVE  RoomTypes' /\ LiveInv' /\ faults' = faults /\ Owed
    BY <1>2 DEF AddToRoom, RoomTypes, LiveInv
  <1>3. ASSUME NEW d \in Room, NEW u \in User, RemoveFromRoom(d, u)
        PROVE  RoomTypes' /\ LiveInv' /\ faults' = faults /\ Owed
    BY <1>3 DEF RemoveFromRoom, RoomTypes, LiveInv
  <1>4. ASSUME NEW d \in Room, DropRoom(d)
        PROVE  RoomTypes' /\ LiveInv' /\ faults' = faults /\ Owed
    BY <1>4 DEF DropRoom, RoomTypes, LiveInv
  <1>5. ASSUME NEW e \in due, Lapse(e)
        PROVE  RoomTypes' /\ LiveInv' /\ faults' = faults /\ Owed
    <2>1. RoomTypes' /\ LiveInv' /\ faults' = faults
      BY <1>5 DEF Lapse, RoomTypes, LiveInv
    <2>2. members' = members /\ due' = due \ {e} /\ state[e[1]] = "gone"
      BY <1>5 DEF Lapse
    <2>3. e[1] \in Room
      BY <1>5 DEF RoomTypes
    <2>4. members[e[1]] = {}
      BY <2>2, <2>3 DEF LiveInv
    <2>5. \A d \in Room, u \in User : e = <<d, u>> => u \notin members[d]
      BY <2>4
    <2> QED
      BY <2>1, <2>2, <2>5
  <1>6. ASSUME NEW es \in {{}} \cup {{e} : e \in due}, Fault(es)
        PROVE  RoomTypes' /\ LiveInv' /\ faults' # 0
    BY <1>6 DEF Fault, RoomTypes, LiveInv
  <1> QED
    BY <1>1, <1>2, <1>3, <1>4, <1>5, <1>6 DEF MemberChange

LEMMA RoomStepOK ==
  ASSUME IInv, RoomStep, Record
  PROVE  IInv'
  <1> USE GatewayAssumption DEF GatewayAssumption
  <1>1. RoomTypes /\ LiveInv /\ faults <= MaxFaults
    BY DEF IInv, TypeOK, RoomTypes
  <1>2. RoomTypes' /\ LiveInv' /\ faults' <= MaxFaults
    <2>1. CASE \E e \in due : Announce(e)
      BY <2>1, <1>1 DEF Announce, RoomTypes, LiveInv
    <2>2. CASE MemberChange /\ faults' <= MaxFaults
      BY <2>2, <1>1, MemberChangeOK
    <2> QED
      BY <2>1, <2>2 DEF RoomStep
  <1>3. UNCHANGED <<gate, inbox, hurt>>
    BY DEF RoomStep
  <1>4. \A c \in Conn : (HandlerInv(c) /\ WindowInv(c) /\ NoneLost(c))'
    BY <1>3, HandlerRests
  <1>5. bus' \subseteq Room \X User
    BY DEF RoomStep, IInv, TypeOK
  <1>6. TypeOK'
    <2>1. members' \in [Room -> SUBSET User]
      BY <1>2 DEF RoomTypes
    <2>2. /\ ever' \in [Conn -> SUBSET Room] /\ always' \in [Conn -> SUBSET Room]
          /\ joined' \in [Conn -> SUBSET Room]
      BY <2>1, RecordTypes
    <2> QED
      BY <1>2, <1>3, <1>5, <2>2 DEF IInv, TypeOK, RoomTypes
  <1>7. ASSUME NEW c \in Conn PROVE NewsInv(c)'
    <2>1. joined'[c] \subseteq MemberOf(c)'
      BY RecordOne
    <2> SUFFICES ASSUME faults' = 0, gate[c].pc = "served", NEW d \in joined'[c]
                 PROVE  d \in inbox[c] \/ <<d, gate[c].user>> \in bus' \cup due'
      BY <2>1, <1>3 DEF NewsInv
    <2> DEFINE u == gate[c].user
    <2>2. u \in User /\ d \in Room /\ u \in members'[d]
      BY <2>1, <1>3, <1>6 DEF MemberOf, TypeOK, IInv, HandlerInv
    <2>3. d \in joined[c] \/ u \notin members[d]
      BY <2>2, RecordOne DEF MemberOf
    <2>4. NewsInv(c)
      BY DEF IInv
    <2>5. CASE \E e \in due : Announce(e) /\ bus' = bus \cup {e}
      <3>1. PICK e \in due : Announce(e) /\ bus' = bus \cup {e}
        BY <2>5
      <3>2. members' = members /\ faults' = faults /\ due \ {e} \subseteq due'
        BY <3>1 DEF Announce
      <3>3. d \in joined[c]
        BY <2>2, <2>3, <3>2
      <3>4. d \in inbox[c] \/ <<d, u>> \in bus \cup due
        BY <2>4, <3>2, <3>3 DEF NewsInv
      <3> QED
        BY <3>1, <3>2, <3>4
    <2>6. CASE MemberChange /\ UNCHANGED bus
      <3>1. /\ faults = 0
            /\ u \notin members[d] => <<d, u>> \in due'
            /\ <<d, u>> \in due => <<d, u>> \in due'
        BY <2>6, <1>1, <2>2, MemberChangeOK
      <3>2. CASE d \in joined[c]
        BY <3>1, <3>2, <2>4, <2>6 DEF NewsInv
      <3> QED
        BY <3>1, <3>2, <2>3
    <2> QED
      BY <2>5, <2>6 DEF RoomStep
  <1> QED
    BY <1>2, <1>4, <1>6, <1>7 DEF IInv

-----------------------------------------------------------------------------
(***************************************************************************)
(* Steps of a handler.  Memberships stand still; the other handlers, too.  *)
(***************************************************************************)
\* The handler's record after a step of its own.
LEMMA GateMoves ==
  ASSUME IInv, NEW c \in Conn, GateStep(c)
  PROVE  /\ \E h \in Handler : gate' = [gate EXCEPT ![c] = h] /\ h.pc # "none"
         /\ gate[c].pc # "served"
  <1> DEFINE g == gate[c]
  <1>1. g \in Handler
    BY DEF IInv, TypeOK
  <1>2. ASSUME NEW pc \in {"profile", "register", "served", "refused", "orphan"}, Goto(c, pc)
        PROVE  \E h \in Handler : gate' = [gate EXCEPT ![c] = h] /\ h.pc # "none"
    <2>1. [g EXCEPT !.pc = pc] \in Handler /\ [g EXCEPT !.pc = pc].pc # "none"
      BY <1>1, <1>2 DEF Handler
    <2>2. gate' = [gate EXCEPT ![c] = [g EXCEPT !.pc = pc]]
      BY <1>2 DEF Goto
    <2> QED
      BY <2>1, <2>2
  <1>3. ASSUME NEW u \in User, NEW raw \in Requested, Handshake(c, u, raw)
        PROVE  (\E h \in Handler : gate' = [gate EXCEPT ![c] = h] /\ h.pc # "none") /\ g.pc # "served"
    <2>1. raw \in Seq(Room)
      BY GatewayAssumption DEF GatewayAssumption
    <2> DEFINE h == [pc |-> "filter", user |-> u, raw |-> raw, todo |-> raw, allowed |-> <<>>]
    <2>2. h \in Handler /\ h.pc # "none"
      BY <2>1 DEF Handler
    <2> QED
      BY <1>3, <2>2 DEF Handshake
  <1>4. CASE FilterAuthorizedRooms(c)
    <2>1. g.todo \in Seq(Room) /\ g.todo # <<>> /\ g.pc = "filter"
      BY <1>1, <1>4 DEF FilterAuthorizedRooms, Handler
    <2>2. Head(g.todo) \in Room /\ Tail(g.todo) \in Seq(Room)
      BY <2>1, RangeOfTail
    <2> DEFINE h(s) == [g EXCEPT !.todo = Tail(g.todo), !.allowed = s]
    <2>3. \A s \in Seq(Room) : h(s) \in Handler /\ h(s).pc # "none"
      BY <1>1, <2>1, <2>2 DEF Handler
    <2>4. g.allowed \in Seq(Room) /\ Append(g.allowed, Head(g.todo)) \in Seq(Room)
      BY <1>1, <2>2, RangeOfAppend DEF Handler
    <2>5. \E s \in Seq(Room) : gate' = [gate EXCEPT ![c] = h(s)]
      <3>1. CASE gate' = [gate EXCEPT ![c].todo = RestOf(c),
                              ![c].allowed = IF IsListed(c, Head(g.todo))
                                             THEN Append(@, Head(g.todo)) ELSE @]
        BY <3>1, <1>1, <2>4 DEF RestOf, IInv, TypeOK, Handler
      <3>2. CASE gate' = [gate EXCEPT ![c].todo = RestOf(c)]
        BY <3>2, <1>1, <2>4 DEF RestOf, IInv, TypeOK, Handler
      <3> QED
        BY <1>4, <3>1, <3>2 DEF FilterAuthorizedRooms
    <2> QED
      BY <2>1, <2>3, <2>5
  <1>5. CASE Upgrade(c)
    BY <1>5, <1>2 DEF Upgrade
  <1>6. CASE GetProfile(c)
    BY <1>6, <1>2 DEF GetProfile
  <1>7. CASE Register(c)
    BY <1>7, <1>2 DEF Register
  <1> QED
    BY <1>3, <1>4, <1>5, <1>6, <1>7 DEF GateStep

\* What the history says after a step of the handler within the handshake.
LEMMA WindowKept ==
  ASSUME IInv, Record, NEW c \in Conn, members' = members, Underway(c),
         gate'[c].user = gate[c].user
  PROVE  /\ ever[c] \subseteq ever'[c] /\ always'[c] \subseteq always[c]
         /\ MemberOf(c) \subseteq ever[c] /\ always[c] \subseteq MemberOf(c)
         /\ WindowInv(c)'
  <1>1. MemberOf(c)' = MemberOf(c)
    BY DEF MemberOf
  <1>2. always[c] \subseteq MemberOf(c) /\ MemberOf(c) \subseteq ever[c]
    BY DEF IInv, WindowInv
  <1>3. ever'[c] = ever[c] \cup MemberOf(c) /\ always'[c] = always[c] \cap MemberOf(c)
    BY <1>1, RecordOne DEF Underway
  <1> QED
    BY <1>1, <1>2, <1>3 DEF WindowInv

\* A step of the handler that only moves on.
LEMMA GotoOK ==
  ASSUME IInv, Record, NEW c \in Conn, members' = members, Underway(c), gate[c].todo = <<>>,
         hurt \subseteq hurt',
         NEW pc \in {"profile", "register", "served", "refused", "orphan"}, Goto(c, pc),
         pc # "refused" => gate[c].allowed # <<>>,
         pc = "orphan" => c \in hurt',
         pc = "refused" => gate[c].allowed = <<>> \/ c \in hurt'
  PROVE  (HandlerInv(c) /\ WindowInv(c) /\ NoneLost(c))'
  <1>1. PICK g \in Handler : g = gate[c]
    BY DEF IInv, TypeOK
  <1>2. PICK h : h = [g EXCEPT !.pc = pc]
    OBVIOUS
  <1>3. /\ h.pc = pc /\ h.user = g.user /\ h.raw = g.raw /\ h.todo = g.todo
        /\ h.allowed = g.allowed
    BY <1>1, <1>2 DEF Handler
  <1>4. gate'[c] = h
    BY <1>1, <1>2 DEF Goto, IInv, TypeOK
  <1>5. HandlerInv(c) /\ NoneLost(c)
    BY DEF IInv
  <1>6. /\ ever[c] \subseteq ever'[c] /\ always'[c] \subseteq always[c] /\ WindowInv(c)'
    BY <1>1, <1>3, <1>4, WindowKept
  <1>7. HandlerInv(c)'
    BY <1>1, <1>3, <1>4, <1>5, <1>6 DEF HandlerInv, Underway
  <1>8. NoneLost(c)'
    <2>1. Range(g.todo) = {} /\ Range(<<>>) = {}
      BY <1>1, RangeOfEmpty
    <2>2. c \notin hurt' => Range(g.raw) \cap always[c] \subseteq Range(g.allowed)
      BY <1>1, <1>5, <2>1 DEF NoneLost, Underway
    <2> QED
      BY <1>1, <1>3, <1>4, <1>6, <2>1, <2>2 DEF NoneLost
  <1> QED
    BY <1>6, <1>7, <1>8

LEMMA HandshakeOK ==
  ASSUME IInv, Record, NEW c \in Conn, members' = members, NEW u \in User,
         NEW raw \in Requested, Handshake(c, u, raw)
  PROVE  (HandlerInv(c) /\ WindowInv(c) /\ NoneLost(c))'
  <1>1. /\ gate'[c] = [pc |-> "filter", user |-> u, raw |-> raw, todo |-> raw, allowed |-> <<>>]
        /\ gate[c].pc = "none"
    BY DEF Handshake, IInv, TypeOK
  <1>2. /\ gate'[c].pc = "filter" /\ gate'[c].user = u /\ gate'[c].raw = raw
        /\ gate'[c].todo = raw /\ gate'[c].allowed = <<>>
    BY <1>1
  <1>3. HandlerInv(c)'
    BY <1>2, RangeOfEmpty DEF HandlerInv
  <1>4. WindowInv(c)'
    BY <1>1, RecordOne DEF WindowInv
  <1>5. NoneLost(c)'
    BY <1>2 DEF NoneLost
  <1> QED
    BY <1>3, <1>4, <1>5

\* The query lists the user of every room of "always", and only of rooms that
\* the user is in.
LEMMA FilterOK ==
  ASSUME IInv, Record, NEW c \in Conn, members' = members, hurt \subseteq hurt',
         FilterAuthorizedRooms(c)
  PROVE  (HandlerInv(c) /\ WindowInv(c) /\ NoneLost(c))'
  <1>1. PICK g \in Handler : g = gate[c]
    BY DEF IInv, TypeOK
  <1>2. PICK d : d = Head(g.todo)
    OBVIOUS
  <1>3. g.pc = "filter" /\ g.todo # <<>> /\ g.todo \in Seq(Room) /\ g.allowed \in Seq(Room)
    BY <1>1 DEF FilterAuthorizedRooms, Handler
  <1>4. d \in Room /\ Range(g.todo) = {d} \cup Range(Tail(g.todo))
    BY <1>2, <1>3, RangeOfTail
  <1>5. HandlerInv(c) /\ NoneLost(c)
    BY DEF IInv
  <1>6. \E s \in {g.allowed, Append(g.allowed, d)} :
           /\ gate'[c] = [g EXCEPT !.todo = Tail(g.todo), !.allowed = s]
           /\ s # g.allowed => d \in MemberOf(c)
           /\ s = g.allowed => c \in hurt' \/ d \notin MemberOf(c)
    <2>1. Append(g.allowed, d) # g.allowed
      BY <1>3, <1>4, AppendProperties
    <2>2. IsListed(c, d) <=> d \in MemberOf(c)
      BY <1>4 DEF IsListed, MemberOf
    <2>3. RestOf(c) = Tail(g.todo) /\ Head(gate[c].todo) = d
      BY <1>1, <1>2 DEF RestOf
    <2>4. CASE gate' = [gate EXCEPT ![c].todo = RestOf(c),
                            ![c].allowed = IF IsListed(c, d) THEN Append(@, d) ELSE @]
      <3>1. gate'[c] = [g EXCEPT !.todo = Tail(g.todo),
                                 !.allowed = IF IsListed(c, d) THEN Append(g.allowed, d)
                                             ELSE g.allowed]
        BY <1>1, <2>3, <2>4 DEF IInv, TypeOK, Handler
      <3> QED
        BY <2>1, <2>2, <3>1
    <2>5. CASE Fails(c) /\ gate' = [gate EXCEPT ![c].todo = RestOf(c)]
      <3>1. gate'[c] = [g EXCEPT !.todo = Tail(g.todo), !.allowed = g.allowed]
        BY <1>1, <2>3, <2>5 DEF IInv, TypeOK, Handler
      <3>2. c \in hurt'
        BY <2>5 DEF Fails
      <3> QED
        BY <3>1, <3>2
    <2> QED
      BY <2>3, <2>4, <2>5 DEF FilterAuthorizedRooms
  <1>7. PICK s \in {g.allowed, Append(g.allowed, d)} :
           /\ gate'[c] = [g EXCEPT !.todo = Tail(g.todo), !.allowed = s]
           /\ s # g.allowed => d \in MemberOf(c)
           /\ s = g.allowed => c \in hurt' \/ d \notin MemberOf(c)
    BY <1>6
  <1>8. /\ gate'[c].pc = "filter" /\ gate'[c].user = g.user /\ gate'[c].raw = g.raw
        /\ gate'[c].todo = Tail(g.todo) /\ gate'[c].allowed = s
    BY <1>1, <1>3, <1>7 DEF Handler
  <1>9. /\ ever[c] \subseteq ever'[c] /\ always'[c] \subseteq always[c] /\ WindowInv(c)'
        /\ MemberOf(c) \subseteq ever[c] /\ always[c] \subseteq MemberOf(c)
    BY <1>1, <1>3, <1>8, WindowKept DEF Underway
  <1>10. s = g.allowed \/ Range(s) = Range(g.allowed) \cup {d}
    BY <1>3, <1>4, RangeOfAppend
  <1>11. HandlerInv(c)'
    <2>1. /\ g.user \in User /\ Range(g.todo) \subseteq Range(g.raw)
          /\ Range(g.allowed) \subseteq Range(g.raw) \cap ever[c]
      BY <1>1, <1>3, <1>5 DEF HandlerInv
    <2>2. Range(s) \subseteq Range(g.raw) \cap ever'[c]
      BY <2>1, <1>4, <1>7, <1>9, <1>10
    <2> QED
      BY <1>4, <1>8, <2>1, <2>2 DEF HandlerInv
  <1>12. NoneLost(c)'
    <2> SUFFICES ASSUME c \notin hurt', NEW x \in Range(g.raw) \cap always'[c]
                 PROVE  x \in Range(s) \cup Range(Tail(g.todo))
      BY <1>8 DEF NoneLost
    <2>1. x \in Range(g.allowed) \cup Range(g.todo) /\ x \in MemberOf(c)
      BY <1>1, <1>3, <1>5, <1>9 DEF NoneLost
    <2>2. Range(s) = Range(g.allowed) \cup {d} \/ (s = g.allowed /\ d \notin MemberOf(c))
      BY <1>7, <1>10
    <2> QED
      BY <2>1, <2>2, <1>4
  <1> QED
    BY <1>9, <1>11, <1>12

LEMMA GateStepOK ==
  ASSUME IInv, Record, NEW c \in Conn, GateStep(c)
  PROVE  IInv'
  <1> USE GatewayAssumption DEF GatewayAssumption
  <1>1. /\ UNCHANGED <<state, members, due, told, bus, inbox>>
        /\ faults' = 0 => faults = 0
        /\ faults' \in 0..MaxFaults
        /\ hurt \subseteq hurt' /\ hurt' \subseteq hurt \cup {c}
    BY DEF GateStep, Handshake, FilterAuthorizedRooms, Upgrade, GetProfile, Register,
           Works, Fails, IInv, TypeOK
  <1>2. \E h \in Handler : gate' = [gate EXCEPT ![c] = h] /\ h.pc # "none"
    BY GateMoves
  <1>3. \A o \in Conn \ {c} : gate'[o] = gate[o] /\ (o \in hurt' <=> o \in hurt)
    BY <1>1, <1>2 DEF IInv, TypeOK
  <1>4. \A o \in Conn \ {c} : (HandlerInv(o) /\ WindowInv(o) /\ NoneLost(o))'
    BY <1>3, HandlerRests
  <1>5. gate[c].pc # "served"
    BY GateMoves
  <1>6. (HandlerInv(c) /\ WindowInv(c) /\ NoneLost(c))'
    <2>1. ASSUME NEW u \in User, NEW raw \in Requested, Handshake(c, u, raw)
          PROVE  (HandlerInv(c) /\ WindowInv(c) /\ NoneLost(c))'
      BY <1>1, <2>1, HandshakeOK
    <2>2. CASE FilterAuthorizedRooms(c)
      BY <1>1, <2>2, FilterOK
    <2>3. HandlerInv(c)
      BY DEF IInv
    <2>4. CASE Upgrade(c)
      BY <1>1, <2>4, GotoOK DEF Upgrade, HasRooms, Works, Fails, Underway
    <2>5. CASE GetProfile(c)
      BY <1>1, <2>3, <2>5, GotoOK DEF GetProfile, Works, Fails, Underway, HandlerInv
    <2>6. CASE Register(c)
      BY <1>1, <2>3, <2>6, GotoOK DEF Register, Works, Underway, HandlerInv
    <2> QED
      BY <2>1, <2>2, <2>4, <2>5, <2>6 DEF GateStep
  <1>7. TypeOK'
    <2>1. /\ ever' \in [Conn -> SUBSET Room] /\ always' \in [Conn -> SUBSET Room]
          /\ joined' \in [Conn -> SUBSET Room]
      BY <1>1, RecordTypes DEF IInv, TypeOK
    <2>2. gate' \in [Conn -> Handler]
      BY <1>2 DEF IInv, TypeOK
    <2>3. \A o \in Conn : gate'[o].pc # "none" => gate'[o].user \in User
      BY <1>4, <1>6 DEF HandlerInv
    <2>4. \A o \in Conn : gate'[o].pc \in {"profile", "register", "served", "orphan"} =>
             gate'[o].allowed # <<>>
      BY <1>4, <1>6 DEF HandlerInv
    <2> QED
      BY <1>1, <2>1, <2>2, <2>3, <2>4 DEF IInv, TypeOK
  <1>8. ASSUME NEW o \in Conn PROVE NewsInv(o)'
    <2>1. joined'[o] \subseteq MemberOf(o)'
      BY RecordOne
    <2>2. CASE gate[o].pc # "served"
      BY <2>1, <2>2, RecordOne DEF NewsInv
    <2>3. CASE gate[o].pc = "served"
      <3>1. gate'[o] = gate[o]
        BY <2>3, <1>3, <1>5
      <3>2. joined'[o] \subseteq joined[o]
        BY <3>1, <1>1, <2>3, RecordOne DEF MemberOf
      <3>3. NewsInv(o)
        BY DEF IInv
      <3> QED
        BY <2>1, <3>1, <3>2, <3>3, <1>1 DEF NewsInv
    <2> QED
      BY <2>2, <2>3
  <1> QED
    BY <1>1, <1>4, <1>6, <1>7, <1>8 DEF IInv, LiveInv

-----------------------------------------------------------------------------
(***************************************************************************)
(* The relay, and the theorems.                                            *)
(***************************************************************************)
LEMMA RelayOK ==
  ASSUME IInv, Record, NEW e \in bus, RelayUserEvent(e)
  PROVE  IInv'
  <1>1. /\ UNCHANGED <<memberVars, gate, hurt>> /\ bus' = bus \ {e}
        /\ inbox' = [c \in Conn |-> IF c \in ConnsOf(e) THEN inbox[c] \cup {e[1]} ELSE inbox[c]]
    BY DEF RelayUserEvent
  <1>2. e[1] \in Room
    BY DEF IInv, TypeOK
  <1>3. \A c \in Conn : (HandlerInv(c) /\ WindowInv(c) /\ NoneLost(c))'
    BY <1>1, HandlerRests
  <1>4. TypeOK'
    <2>1. /\ ever' \in [Conn -> SUBSET Room] /\ always' \in [Conn -> SUBSET Room]
          /\ joined' \in [Conn -> SUBSET Room]
      BY <1>1, RecordTypes DEF memberVars, IInv, TypeOK
    <2>2. inbox' \in [Conn -> SUBSET Room] /\ bus' \subseteq Room \X User
      BY <1>1, <1>2 DEF IInv, TypeOK
    <2> QED
      BY <1>1, <2>1, <2>2 DEF memberVars, IInv, TypeOK
  <1>5. ASSUME NEW c \in Conn PROVE NewsInv(c)'
    <2>1. joined'[c] \subseteq MemberOf(c)'
      BY RecordOne
    <2> SUFFICES ASSUME faults = 0, gate[c].pc = "served", NEW d \in joined'[c]
                 PROVE  d \in inbox'[c] \/ <<d, gate[c].user>> \in bus' \cup due
      BY <1>1, <2>1 DEF NewsInv, memberVars
    <2>2. d \in joined[c]
      BY <1>1, RecordOne DEF MemberOf, memberVars
    <2>3. d \in inbox[c] \/ <<d, gate[c].user>> \in bus \cup due
      BY <2>2 DEF IInv, NewsInv
    <2>4. <<d, gate[c].user>> = e => d = e[1] /\ c \in ConnsOf(e)
      BY DEF ConnsOf
    <2> QED
      BY <1>1, <2>3, <2>4
  <1> QED
    BY <1>1, <1>3, <1>4, <1>5 DEF IInv, LiveInv, memberVars

LEMMA InitOK == Init => IInv
  <1> SUFFICES ASSUME Init PROVE IInv
    OBVIOUS
  <1> USE GatewayAssumption DEF GatewayAssumption
  <1>1. \A c \in Conn : gate[c] = [pc |-> "none", user |-> Nobody, raw |-> <<>>,
                                   todo |-> <<>>, allowed |-> <<>>]
    BY DEF Init
  <1>2. TypeOK
    BY DEF Init, MemberInit, TypeOK, Handler
  <1>3. LiveInv
    BY DEF Init, MemberInit, LiveInv
  <1>4. \A c \in Conn : HandlerInv(c) /\ WindowInv(c) /\ NoneLost(c)
    BY <1>1 DEF HandlerInv, WindowInv, NoneLost, Underway
  <1>5. \A c \in Conn : NewsInv(c)
    BY <1>1 DEF Init, NewsInv
  <1> QED
    BY <1>2, <1>3, <1>4, <1>5 DEF IInv

LEMMA StutterOK == IInv /\ UNCHANGED vars => IInv'
  BY DEF IInv, vars, memberVars, gateHist, TypeOK, LiveInv, HandlerInv, WindowInv, NoneLost,
         NewsInv, MemberOf, Underway

\* The inductive invariant.
THEOREM Invariant == Spec => []IInv
  <1>1. Init => IInv
    BY InitOK
  <1>2. IInv /\ [Next]_vars => IInv'
    BY RoomStepOK, GateStepOK, RelayOK, StutterOK DEF Next
  <1> QED
    BY <1>1, <1>2, PTL DEF Spec

\* Rooms may change between any two queries of a handshake, and calls may fail:
\* a connection is served only rooms it asked for and was in, and every room it
\* was in all the time, or it is one of whose own calls failed.
THEOREM HandshakeIsRight == Spec => []HandshakeInv
  <1>1. IInv => HandshakeInv
    <2> SUFFICES ASSUME IInv PROVE ServedWereMembers /\ MembersAreServed
      BY DEF IInv, HandshakeInv
    <2>1. ServedWereMembers
      BY DEF IInv, HandlerInv, ServedWereMembers
    <2>2. MembersAreServed
      <3> SUFFICES ASSUME NEW c \in Conn \ hurt
                   PROVE  /\ gate[c].pc = "served" =>
                                Range(gate[c].raw) \cap always[c] \subseteq Range(gate[c].allowed)
                          /\ gate[c].pc \in {"refused", "orphan"} =>
                                Range(gate[c].raw) \cap always[c] = {}
        BY DEF MembersAreServed
      <3>1. HandlerInv(c) /\ NoneLost(c)
        BY DEF IInv
      <3>2. gate[c].pc = "served" => Range(gate[c].todo) = {}
        BY <3>1, RangeOfEmpty DEF HandlerInv
      <3> QED
        BY <3>1, <3>2 DEF NoneLost
    <2> QED
      BY <2>1, <2>2
  <1> QED
    BY <1>1, Invariant, PTL

\* When all is quiet and no call has failed, every connection was told of every
\* room its user came into since it was registered.
THEOREM AddedIsTold == Spec => []AddedWhileConnected
  <1>1. IInv => AddedWhileConnected
    BY DEF IInv, NewsInv, AddedWhileConnected
  <1> QED
    BY <1>1, Invariant, PTL
=============================================================================
