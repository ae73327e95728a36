--------------------------- MODULE MessageProofs ---------------------------
(***************************************************************************)
(* Theorems about MessageService, for every set of users and rooms, any    *)
(* number of requests in flight, of messages, texts and calls that fail.   *)
(***************************************************************************)
EXTENDS MessageService, TLAPS

(***************************************************************************)
(* The inductive invariant.                                                *)
(***************************************************************************)
Sends   == {"Send", "WsSend"}
Changes == Sends \cup {"Edit", "Delete"}
Marks   == {"MarkDelivered", "MarkRead"}

\* The calls of each kind of request.
CallInv(q) ==
    /\ q.op = "none"   => q.pc = "idle"
    /\ q.op = "Send"   => q.pc \in {"create", "publish"}
    /\ q.op = "WsSend" => q.pc \in {"create", "publish", "local"}
    /\ q.op = "Edit"   => q.pc \in {"get", "update", "publish"}
    /\ q.op = "Delete" => q.pc \in {"get", "delete", "publish"}
    /\ q.op \in Marks  => q.pc \in {"upsert", "status"}

\* What a request at each call has established.
RequestInv(q) ==
    /\ CallInv(q)
    /\ q.pc # "idle" => q.user \in User
    /\ q.op \in Changes => q.room \in Room
    /\ q.pc \notin {"idle", "create"} => q.id \in Msg /\ q.id < nextMsg
    /\ q.pc \in {"idle", "create"} => q.id = 0
    /\ q.op \in {"Send", "WsSend", "Edit"} => q.text \in Text
    /\ q.op \in {"none", "Delete"} => q.text = 0
    /\ q.pc \in {"idle", "create", "get", "upsert", "status"} => q.found = None
    /\ q.pc \in {"update", "delete", "publish", "local"} => q.found \in Room
    /\ q.op \in Sends /\ q.pc # "create" => q.found = q.room
    /\ q.wrote => q.pc \in {"publish", "local", "status"}
    /\ q.pc \in {"update", "delete"} => msg[q.id] = None \/ msg[q.id].sender = q.user
    /\ q.pc = "publish" /\ q.op = "Delete" => msg[q.id] = None
    /\ q.pc = "status" => msg[q.id] = None \/ receipt[q.id][q.user] # "none"

\* A message without a row has no receipts; one not sent yet has left no trace.
RowInv ==
    \A m \in Msg :
        /\ msg[m] = None => \A u \in User : receipt[m][u] = "none"
        /\ m >= nextMsg => /\ msg[m] = None /\ shown[m] = 0 /\ m \notin announced
                           /\ \A i \in 1..Len(bus) : bus[i].id # m

\* One request at a time changes a message that is not raced.
OneChanger ==
    \A r, s \in Req : /\ req[r].op \in Changes /\ req[s].op \in Changes
                      /\ req[r].id = req[s].id /\ req[r].id \in Msg \ raced
                      => r = s

\* The text that is stored of m, and what will be shown of it when all that is
\* on the bus has been delivered.
Stored(m) == IF msg[m] = None THEN 0 ELSE msg[m].text

Shows(display, events, m, x) ==
    \/ display[m] = x /\ \A i \in 1..Len(events) : events[i].id # m
    \/ \E i \in 1..Len(events) :
          /\ events[i].id = m /\ events[i].text = x
          /\ \A j \in (i + 1)..Len(events) : events[j].id # m

WillShow(m, x) == Shows(shown, bus, m, x)

\* Of m: the request that publishes what is stored is on its way, or it will be
\* shown as it is stored.
SyncAt(m) ==
    /\ \A r \in Req : req[r].id = m /\ req[r].pc \in {"publish", "local"} =>
                         req[r].text = Stored(m)
    /\ (\A r \in Req : req[r].id = m => req[r].pc # "publish") => WillShow(m, Stored(m))

\* So it is until a call fails, for every message that is not raced.
SyncInv == faults = 0 => \A m \in Msg \ raced : SyncAt(m)

IInv ==
    /\ TypeOK
    /\ \A r \in Req : RequestInv(req[r])
    /\ RowInv
    /\ OneChanger
    /\ SyncInv
    /\ DeletionsAreTrue
    /\ StatusHasReceipt
    /\ ErrorMeansUnchanged

-----------------------------------------------------------------------------
(***************************************************************************)
(* What is on the bus and what is shown.                                   *)
(***************************************************************************)
LEMMA ShowsPublished ==
  ASSUME NEW display, NEW events \in Seq(Event), NEW e \in Event, NEW m, NEW x
  PROVE  /\ e.id = m => Shows(display, Append(events, e), m, e.text)
         /\ e.id # m /\ Shows(display, events, m, x) =>
               Shows(display, Append(events, e), m, x)
  <1> DEFINE b == Append(events, e)
  <1>1. /\ Len(events) \in Nat /\ Len(b) = Len(events) + 1
        /\ b[Len(events) + 1] = e
        /\ \A i \in 1..Len(events) : b[i] = events[i]
    OBVIOUS
  <1> HIDE DEF b
  <1>2. e.id = m => Shows(display, b, m, e.text)
    BY <1>1 DEF Shows
  <1>3. ASSUME e.id # m, Shows(display, events, m, x)
        PROVE  Shows(display, b, m, x)
    <2>1. CASE display[m] = x /\ \A i \in 1..Len(events) : events[i].id # m
      <3>1. \A i \in 1..Len(b) : b[i].id # m
        BY <1>1, <1>3, <2>1
      <3> QED
        BY <2>1, <3>1 DEF Shows
    <2>2. ASSUME NEW i \in 1..Len(events), events[i].id = m, events[i].text = x,
                 \A j \in (i + 1)..Len(events) : events[j].id # m
          PROVE  Shows(display, b, m, x)
      <3>1. i \in 1..Len(b) /\ b[i] = events[i]
        BY <1>1
      <3>2. \A j \in (i + 1)..Len(b) : b[j].id # m
        BY <1>1, <1>3, <2>2
      <3> QED
        BY <2>2, <3>1, <3>2 DEF Shows
    <2> QED
      BY <1>3, <2>1, <2>2 DEF Shows
  <1> QED
    BY <1>2, <1>3 DEF b

LEMMA AppendElements ==
  ASSUME NEW events \in Seq(Event), NEW e \in Event
  PROVE  \A i \in 1..Len(Append(events, e)) :
            \/ Append(events, e)[i] = e
            \/ i \in 1..Len(events) /\ Append(events, e)[i] = events[i]
  OBVIOUS

LEMMA ShowsDelivered ==
  ASSUME NEW display \in [Msg -> Text \cup {0}], NEW events \in Seq(Event), events # <<>>,
         NEW m \in Msg, NEW x, Shows(display, events, m, x)
  PROVE  Shows([display EXCEPT ![Head(events).id] = Head(events).text],
               Tail(events), m, x)
  <1> DEFINE b == Tail(events)
             d == [display EXCEPT ![Head(events).id] = Head(events).text]
  <1>1. /\ Len(events) \in Nat /\ Len(events) > 0 /\ Len(b) = Len(events) - 1
        /\ \A i \in 1..Len(b) : b[i] = events[i + 1]
        /\ Head(events) = events[1] /\ events[1] \in Event
    OBVIOUS
  <1>2. d[m] = IF events[1].id = m THEN events[1].text ELSE display[m]
    BY <1>1
  <1> HIDE DEF b, d
  <1>3. CASE display[m] = x /\ \A i \in 1..Len(events) : events[i].id # m
    <2>1. d[m] = x
      BY <1>1, <1>2, <1>3
    <2>2. \A i \in 1..Len(b) : b[i].id # m
      BY <1>1, <1>3
    <2> QED
      BY <2>1, <2>2 DEF Shows, b, d
  <1>4. ASSUME NEW i \in 1..Len(events), events[i].id = m, events[i].text = x,
               \A j \in (i + 1)..Len(events) : events[j].id # m
        PROVE  Shows(d, b, m, x)
    <2>1. CASE i = 1
      <3>1. d[m] = x
        BY <1>2, <1>4, <2>1
      <3>2. \A j \in 1..Len(b) : b[j].id # m
        BY <1>1, <1>4, <2>1
      <3> QED
        BY <3>1, <3>2 DEF Shows
    <2>2. CASE i # 1
      <3> DEFINE k == i - 1
      <3>1. k \in 1..Len(b) /\ b[k] = events[i]
        BY <1>1, <2>2
      <3>2. \A j \in (k + 1)..Len(b) : b[j].id # m
        BY <1>1, <1>4, <2>2
      <3> QED
        BY <1>4, <3>1, <3>2 DEF Shows
    <2> QED
      BY <2>1, <2>2
  <1> QED
    BY <1>3, <1>4 DEF Shows, b, d

\* A local broadcast of a text that will be shown anyway.
LEMMA ShowsLocally ==
  ASSUME NEW display \in [Msg -> Text \cup {0}], NEW events, NEW e \in Event,
         NEW m \in Msg, NEW x, Shows(display, events, m, x), e.id = m => e.text = x
  PROVE  Shows([display EXCEPT ![e.id] = e.text], events, m, x)
  BY DEF Shows

-----------------------------------------------------------------------------
(***************************************************************************)
(* Requests.                                                               *)
(***************************************************************************)

\* The request in one slot changes.
LEMMA SlotType ==
  ASSUME TypeOK, NEW r \in Req, NEW q \in Request, req' = [req EXCEPT ![r] = q]
  PROVE  /\ req' \in [Req -> Request]
         /\ \A s \in Req : req'[s] = IF s = r THEN q ELSE req[s]
  BY DEF TypeOK

\* What a slot holds before a request and after it.
LEMMA IdleInv ==
  /\ Idle \in Request /\ RequestInv(Idle) /\ RequestInv(Idle)'
  /\ Idle.op \notin Changes /\ Idle.pc \notin {"publish", "local", "status"}
  BY DEF Idle, Request, RequestInv, CallInv, Op, Pc, Changes, Sends, Marks

\* What a slot holds when a request has arrived, and nothing else changes but
\* the texts given out and the messages known to race.
LEMMA ArriveStep ==
  ASSUME MessageAssumption, TypeOK, NEW r \in Req, Arrive(r)
  PROVE  /\ UNCHANGED <<tables, bus, shown, nextMsg, faults, reply, announced>>
         /\ nextText' \in 1..(MaxText + 1)
         /\ req[r] = Idle
         /\ \E q \in Request :
               /\ RequestInv(q) /\ q.pc \in {"create", "get", "upsert"} /\ ~q.wrote
               /\ req' = [req EXCEPT ![r] = q]
               /\ IF q.op \in {"Edit", "Delete"} THEN Race(q.id) ELSE UNCHANGED raced
  <1> DEFINE Held(q) ==
               /\ UNCHANGED <<tables, bus, shown, nextMsg, faults, reply, announced>>
               /\ nextText' \in 1..(MaxText + 1)
               /\ req[r] = Idle
               /\ q \in Request /\ RequestInv(q)
               /\ q.pc \in {"create", "get", "upsert"} /\ ~q.wrote
               /\ req' = [req EXCEPT ![r] = q]
               /\ IF q.op \in {"Edit", "Delete"} THEN Race(q.id) ELSE UNCHANGED raced
  <1>1. SUFFICES \E q : Held(q)
    OBVIOUS
  <1>2. PICK u \in User :
          \/ \E rm \in Room :
                \/ \E o \in {"Send", "WsSend"} : StartSend(r, o, u, rm)
                \/ \E m \in Msg : StartEdit(r, u, rm, m) \/ StartDelete(r, u, rm, m)
          \/ \E o \in {"MarkDelivered", "MarkRead"}, m \in Msg : StartMark(r, o, u, m)
    BY DEF Arrive
  <1>3. NewText => nextText \in Text /\ nextText' \in 1..(MaxText + 1)
    BY MessageAssumption DEF NewText, Text
  <1>4. UNCHANGED nextText => nextText' \in 1..(MaxText + 1)
    BY DEF TypeOK
  <1>5. ASSUME NEW rm \in Room, NEW o \in {"Send", "WsSend"}, StartSend(r, o, u, rm)
        PROVE  \E q : Held(q)
    <2> PICK q : q = [Idle EXCEPT !.op = o, !.pc = "create", !.user = u, !.room = rm,
                                  !.text = nextText]
      OBVIOUS
    <2>1. Start(r, q) /\ NewText /\ UNCHANGED raced
      BY <1>5 DEF StartSend
    <2>2. q.op = o /\ q.pc = "create" /\ q.user = u /\ q.room = rm /\ q.id = 0
      BY DEF Idle
    <2>3. q.text = nextText /\ q.found = None /\ ~q.wrote
      BY DEF Idle
    <2>4. q \in Request
      BY <1>3, <2>1, IdleInv DEF Request, Op, Pc
    <2>5. RequestInv(q)
      BY <1>3, <2>1, <2>2, <2>3 DEF RequestInv, CallInv, Changes, Sends, Marks
    <2>6. Held(q)
      BY <1>3, <2>1, <2>2, <2>3, <2>4, <2>5 DEF Start
    <2> QED
      BY <2>6
  <1>6. ASSUME NEW rm \in Room, NEW m \in Msg, StartEdit(r, u, rm, m)
        PROVE  \E q : Held(q)
    <2> PICK q : q = [Idle EXCEPT !.op = "Edit", !.pc = "get", !.user = u, !.room = rm,
                                  !.id = m, !.text = nextText]
      OBVIOUS
    <2>1. Start(r, q) /\ NewText /\ m < nextMsg /\ Race(m)
      BY <1>6 DEF StartEdit
    <2>2. q.op = "Edit" /\ q.pc = "get" /\ q.user = u /\ q.room = rm /\ q.id = m
      BY DEF Idle
    <2>3. q.text = nextText /\ q.found = None /\ ~q.wrote
      BY DEF Idle
    <2>4. q \in Request
      BY <1>3, <2>1, IdleInv DEF Request, Op, Pc
    <2>5. RequestInv(q)
      BY <1>3, <2>1, <2>2, <2>3 DEF RequestInv, CallInv, Changes, Sends, Marks
    <2>6. Held(q)
      BY <1>3, <2>1, <2>2, <2>3, <2>4, <2>5 DEF Start
    <2> QED
      BY <2>6
  <1>7. ASSUME NEW rm \in Room, NEW m \in Msg, StartDelete(r, u, rm, m)
        PROVE  \E q : Held(q)
    <2> PICK q : q = [Idle EXCEPT !.op = "Delete", !.pc = "get", !.user = u,
                                  !.room = rm, !.id = m]
      OBVIOUS
    <2>1. Start(r, q) /\ UNCHANGED nextText /\ m < nextMsg /\ Race(m)
      BY <1>7 DEF StartDelete
    <2>2. q.op = "Delete" /\ q.pc = "get" /\ q.user = u /\ q.room = rm /\ q.id = m
      BY DEF Idle
    <2>3. q.text = 0 /\ q.found = None /\ ~q.wrote
      BY DEF Idle
    <2>4. q \in Request
      BY <1>4, <2>1, IdleInv DEF Request, Op, Pc
    <2>5. RequestInv(q)
      BY <1>4, <2>1, <2>2, <2>3 DEF RequestInv, CallInv, Changes, Sends, Marks
    <2>6. Held(q)
      BY <1>4, <2>1, <2>2, <2>3, <2>4, <2>5 DEF Start
    <2> QED
      BY <2>6
  <1>8. ASSUME NEW o \in {"MarkDelivered", "MarkRead"}, NEW m \in Msg,
               StartMark(r, o, u, m)
        PROVE  \E q : Held(q)
    <2> PICK q : q = [Idle EXCEPT !.op = o, !.pc = "upsert", !.user = u, !.id = m]
      OBVIOUS
    <2>1. Start(r, q) /\ UNCHANGED <<nextText, raced>> /\ m < nextMsg
      BY <1>8 DEF StartMark
    <2>2. q.op = o /\ q.pc = "upsert" /\ q.user = u /\ q.room = None /\ q.id = m
      BY DEF Idle
    <2>3. q.text = 0 /\ q.found = None /\ ~q.wrote
      BY DEF Idle
    <2>4. q \in Request
      BY <1>4, <2>1, IdleInv DEF Request, Op, Pc
    <2>5. RequestInv(q)
      BY <1>4, <2>1, <2>2, <2>3 DEF RequestInv, CallInv, Changes, Sends, Marks
    <2>6. Held(q)
      BY <1>4, <2>1, <2>2, <2>3, <2>4, <2>5 DEF Start
    <2> QED
      BY <2>6
  <1> QED
    BY <1>2, <1>5, <1>6, <1>7, <1>8

\* What the last request was told.
Told == [code : {0, 200, 403, 404, 500}, wrote : BOOLEAN, failed : BOOLEAN,
         elsewhere : BOOLEAN]

-----------------------------------------------------------------------------
(***************************************************************************)
(* Steps of a request that leave the tables and the bus alone.             *)
(***************************************************************************)

\* A slot takes on another request, or another call of the same.
LEMMA OneChangerStep ==
  ASSUME TypeOK, OneChanger, NEW r \in Req, NEW q \in Request,
         req' = [req EXCEPT ![r] = q], raced \subseteq raced',
         q.op \in Changes /\ q.id \in Msg \ raced' =>
            \/ req[r].op \in Changes /\ req[r].id = q.id
            \/ \A s \in Req \ {r} : ~(req[s].op \in Changes /\ req[s].id = q.id)
  PROVE  OneChanger'
  <1> SUFFICES ASSUME NEW s \in Req, NEW t \in Req,
                      req'[s].op \in Changes, req'[t].op \in Changes,
                      req'[s].id = req'[t].id, req'[s].id \in Msg \ raced'
               PROVE  s = t
    BY DEF OneChanger
  <1>1. \A p \in Req : req'[p] = IF p = r THEN q ELSE req[p]
    BY SlotType
  <1>2. CASE s # r /\ t # r
    BY <1>1, <1>2 DEF OneChanger
  <1>3. CASE s = r /\ t # r
    BY <1>1, <1>3 DEF OneChanger
  <1>4. CASE s # r /\ t = r
    BY <1>1, <1>4 DEF OneChanger
  <1> QED
    BY <1>2, <1>3, <1>4

\* What the request in r does has nothing to do with m.
LEMMA SyncOther ==
  ASSUME TypeOK, NEW r \in Req, NEW q \in Request, req' = [req EXCEPT ![r] = q],
         NEW m \in Msg, SyncAt(m), Stored(m)' = Stored(m),
         Shows(shown, bus, m, Stored(m)) => Shows(shown', bus', m, Stored(m)),
         req[r].id = m => req[r].pc # "publish",
         q.id = m => q.pc \notin {"publish", "local"}
  PROVE  SyncAt(m)'
  <1>1. \A s \in Req : req'[s] = IF s = r THEN q ELSE req[s]
    BY SlotType
  <1>2. \A s \in Req : req'[s].id = m /\ req'[s].pc \in {"publish", "local"} =>
                          req'[s].text = Stored(m)
    BY <1>1 DEF SyncAt
  <1>3. ASSUME \A s \in Req : req'[s].id = m => req'[s].pc # "publish"
        PROVE  Shows(shown', bus', m, Stored(m))
    <2>1. \A s \in Req : req[s].id = m => req[s].pc # "publish"
      BY <1>1, <1>3
    <2> QED
      BY <2>1 DEF SyncAt, WillShow
  <1> QED
    BY <1>2, <1>3 DEF SyncAt, WillShow

\* The request in r is about to publish m as it is stored.
LEMMA SyncPublisher ==
  ASSUME TypeOK, NEW r \in Req, NEW q \in Request, req' = [req EXCEPT ![r] = q],
         NEW m \in Msg, q.id = m, q.pc = "publish", q.text = Stored(m)',
         \A s \in Req \ {r} : req[s].id = m => req[s].pc \notin {"publish", "local"}
  PROVE  SyncAt(m)'
  <1>1. \A s \in Req : req'[s] = IF s = r THEN q ELSE req[s]
    BY SlotType
  <1> QED
    BY <1>1 DEF SyncAt

LEMMA RequestStep ==
  ASSUME IInv, NEW r \in Req, NEW q \in Request, req' = [req EXCEPT ![r] = q],
         RequestInv(q)', UNCHANGED <<tables, bus, shown, nextMsg, announced>>,
         nextText' \in 1..(MaxText + 1), faults' \in 0..MaxFaults,
         faults' = 0 => /\ faults = 0
                        /\ req[r].pc \notin {"publish", "status"}
                        /\ q.pc \notin {"publish", "local"},
         reply' \in Told, ErrorMeansUnchanged',
         raced \subseteq raced', raced' \subseteq Msg, OneChanger'
  PROVE  IInv'
  <1>1. \A s \in Req : req'[s] = IF s = r THEN q ELSE req[s]
    BY SlotType DEF IInv
  <1>2. TypeOK'
    BY SlotType DEF IInv, TypeOK, tables, Told
  <1>3. (\A s \in Req : RequestInv(req[s]))'
    BY <1>1 DEF IInv, RequestInv, CallInv, tables
  <1>4. RowInv' /\ DeletionsAreTrue'
    BY DEF IInv, RowInv, DeletionsAreTrue, tables
  <1>5. SyncInv'
    <2> SUFFICES ASSUME faults' = 0, NEW m \in Msg \ raced' PROVE SyncAt(m)'
      BY DEF SyncInv
    <2>1. SyncAt(m)
      BY DEF IInv, SyncInv
    <2>2. Stored(m)' = Stored(m)
      BY DEF Stored, tables
    <2> QED
      BY <2>1, <2>2, SyncOther DEF IInv
  <1>6. StatusHasReceipt'
    <2>1. \A s \in Req : req[s].pc = "status" =>
            faults' > 0 \/ (req'[s].pc = "status" /\ req'[s].id = req[s].id)
      BY <1>1
    <2>2. faults > 0 => faults' > 0
      BY DEF IInv, TypeOK
    <2> QED
      BY <2>1, <2>2 DEF IInv, StatusHasReceipt, tables
  <1> QED
    BY <1>2, <1>3, <1>4, <1>5, <1>6 DEF IInv

\* What an answer says.
LEMMA ReplyTells ==
  ASSUME NEW r \in Req, NEW code \in {200, 403, 404, 500}, NEW wrote \in BOOLEAN,
         Reply(r, code, wrote),
         code # 200 /\ wrote => \/ faults' # faults
                                \/ req[r].found \notin {None, req[r].room}
  PROVE  /\ req' = [req EXCEPT ![r] = Idle]
         /\ reply' \in Told /\ ErrorMeansUnchanged'
  BY DEF Reply, Told, ErrorMeansUnchanged

\* A request ends without having left anything unpublished.
LEMMA ReplyStep ==
  ASSUME IInv, NEW r \in Req, req' = [req EXCEPT ![r] = Idle],
         reply' \in Told, ErrorMeansUnchanged',
         UNCHANGED <<tables, bus, shown, ids, announced, raced>>,
         faults' \in 0..MaxFaults,
         faults' = 0 => faults = 0 /\ req[r].pc \notin {"publish", "status"}
  PROVE  IInv'
  <1> PICK q \in Request : q = Idle
    BY IdleInv
  <1>1. /\ req' = [req EXCEPT ![r] = q] /\ q.op \notin Changes /\ RequestInv(q)'
        /\ q.pc \notin {"publish", "local"}
    BY IdleInv
  <1>2. /\ TypeOK /\ OneChanger /\ raced \subseteq raced' /\ raced' \subseteq Msg
        /\ UNCHANGED <<tables, bus, shown, nextMsg, announced>>
        /\ nextText' \in 1..(MaxText + 1)
    BY DEF IInv, TypeOK, ids
  <1>3. OneChanger'
    BY <1>1, <1>2, OneChangerStep
  <1> QED
    BY <1>1, <1>2, <1>3, RequestStep

\* A call that fails.
LEMMA FailStep ==
  ASSUME MessageAssumption, IInv, NEW r \in Req, FailAndReply(r)
  PROVE  IInv'
  <1>1. Reply(r, 500, req[r].wrote) /\ faults' = faults + 1
    BY DEF FailAndReply, Fails
  <1>2. faults \in Nat /\ faults' \in 0..MaxFaults
    BY DEF FailAndReply, Fails, IInv, TypeOK, MessageAssumption
  <1>3. req[r].wrote \in BOOLEAN
    BY DEF IInv, TypeOK, Request
  <1>4. /\ req' = [req EXCEPT ![r] = Idle]
        /\ reply' \in Told /\ ErrorMeansUnchanged'
    BY <1>1, <1>2, <1>3, ReplyTells
  <1>5. /\ UNCHANGED <<tables, bus, shown, ids, announced, raced>>
        /\ faults' \in 0..MaxFaults /\ faults' # 0
    BY <1>1, <1>2 DEF FailAndReply
  <1> QED
    BY <1>4, <1>5, ReplyStep

\* No row is a row.
LEMMA RowIsNotNone == ASSUME MessageAssumption PROVE None \notin Row
  BY DEF MessageAssumption, Row, Text

LEMMA InvInit == Init => IInv
  <1> SUFFICES ASSUME Init PROVE IInv
    OBVIOUS
  <1> USE MessageAssumption DEF Init
  <1>1. reply \in Told /\ ErrorMeansUnchanged
    BY DEF Told, ErrorMeansUnchanged
  <1>2. TypeOK
    BY <1>1, IdleInv DEF TypeOK, Told
  <1>3. (\A r \in Req : RequestInv(req[r])) /\ OneChanger
    BY IdleInv DEF OneChanger
  <1>4. RowInv /\ DeletionsAreTrue /\ StatusHasReceipt
    BY DEF RowInv, DeletionsAreTrue, StatusHasReceipt
  <1>5. SyncInv
    BY IdleInv DEF SyncInv, SyncAt, WillShow, Shows, Stored
  <1> QED
    BY <1>1, <1>2, <1>3, <1>4, <1>5 DEF IInv

-----------------------------------------------------------------------------
(***************************************************************************)
(* Requests arrive, and read.                                              *)
(***************************************************************************)
LEMMA ArriveInv ==
  ASSUME IInv, NEW r \in Req, Arrive(r)
  PROVE  IInv'
  <1>1. /\ UNCHANGED <<tables, bus, shown, nextMsg, faults, reply, announced>>
        /\ nextText' \in 1..(MaxText + 1)
        /\ req[r] = Idle
    BY MessageAssumption, ArriveStep DEF IInv
  <1>2. PICK q \in Request :
          /\ RequestInv(q) /\ q.pc \in {"create", "get", "upsert"}
          /\ req' = [req EXCEPT ![r] = q]
          /\ IF q.op \in {"Edit", "Delete"} THEN Race(q.id) ELSE UNCHANGED raced
    BY MessageAssumption, ArriveStep DEF IInv
  <1>3. RequestInv(q)'
    BY <1>1, <1>2 DEF RequestInv, tables
  <1>4. q.op \in Changes => q.op \in {"Edit", "Delete"} \/ q.id = 0
    BY <1>2 DEF RequestInv, CallInv, Changes, Sends
  <1>5. q.op \in {"Edit", "Delete"} => q.id \in Msg
    BY <1>2 DEF RequestInv, CallInv
  <1>6. raced \subseteq raced' /\ raced' \subseteq Msg
    BY <1>2, <1>5 DEF Race, IInv, TypeOK
  <1>7. OneChanger'
    <2>1. q.op \in Changes /\ q.id \in Msg \ raced' =>
             \A s \in Req \ {r} : ~(req[s].op \in Changes /\ req[s].id = q.id)
      BY <1>2, <1>4 DEF Race, Changing, Changes, Sends, Msg
    <2> QED
      BY <1>2, <1>6, <2>1, OneChangerStep DEF IInv
  <1>8. reply' \in Told /\ ErrorMeansUnchanged'
    BY <1>1 DEF IInv, TypeOK, Told, ErrorMeansUnchanged
  <1>9. /\ faults' \in 0..MaxFaults /\ faults' = faults
        /\ req[r].pc \notin {"publish", "status"} /\ q.pc \notin {"publish", "local"}
    BY <1>1, <1>2, IdleInv DEF IInv, TypeOK
  <1> QED
    BY <1>1, <1>2, <1>3, <1>6, <1>7, <1>8, <1>9, RequestStep

LEMMA GetByIDInv ==
  ASSUME IInv, NEW r \in Req, GetByID(r)
  PROVE  IInv'
  <1>1. req[r].pc = "get" /\ req[r] \in Request /\ RequestInv(req[r])
    BY DEF GetByID, IInv, TypeOK
  <1>2. CASE FailAndReply(r)
    BY <1>2, MessageAssumption, FailStep
  <1>3. ASSUME NEW code \in {403, 404}, Reply(r, code, FALSE), Works,
               UNCHANGED <<tables, bus, shown, ids, announced, raced>>
        PROVE  IInv'
    <2>1. /\ req' = [req EXCEPT ![r] = Idle]
          /\ reply' \in Told /\ ErrorMeansUnchanged'
      BY <1>3 DEF Reply, Told, ErrorMeansUnchanged
    <2>2. faults' \in 0..MaxFaults /\ faults' = faults
      BY <1>3 DEF Works, IInv, TypeOK
    <2>3. UNCHANGED <<tables, bus, shown, ids, announced, raced>>
      BY <1>3
    <2> QED
      BY <1>1, <2>1, <2>2, <2>3, ReplyStep
  <1>4. CASE /\ Works /\ msg[req[r].id] # None /\ MayChange(r)
             /\ req' = [req EXCEPT
                          ![r].pc = IF req[r].op = "Edit" THEN "update" ELSE "delete",
                          ![r].found = msg[req[r].id].room]
             /\ UNCHANGED <<tables, bus, shown, ids, hist>>
    <2> PICK q : q = [req[r] EXCEPT
                        !.pc = IF req[r].op = "Edit" THEN "update" ELSE "delete",
                        !.found = msg[req[r].id].room]
      OBVIOUS
    <2>1. /\ req[r].id \in Msg /\ req[r].op \in {"Edit", "Delete"}
          /\ msg[req[r].id] \in Row /\ msg[req[r].id].room \in Room
      BY <1>1, <1>4 DEF RequestInv, CallInv, IInv, TypeOK, Marks, Request, Op, Row
    <2>2. /\ q \in Request /\ q.op = req[r].op /\ q.id = req[r].id
          /\ q.pc \in {"update", "delete"}
      BY <1>1, <2>1 DEF Request, Pc
    <2>3. RequestInv(q)
      BY <1>1, <1>4, <2>1 DEF RequestInv, CallInv, MayChange, Changes, Sends, Marks,
         Request
    <2>4. RequestInv(q)'
      BY <1>4, <2>2, <2>3 DEF RequestInv, tables, ids
    <2>5. /\ req' = [req EXCEPT ![r] = q] /\ faults' = faults
          /\ UNCHANGED <<tables, bus, shown, ids, reply, announced, raced>>
      BY <1>4 DEF Works, hist
    <2>6. OneChanger'
      BY <2>2, <2>5, OneChangerStep DEF IInv, Changes
    <2>7. /\ reply' \in Told /\ ErrorMeansUnchanged'
          /\ raced \subseteq raced' /\ raced' \subseteq Msg
          /\ nextText' \in 1..(MaxText + 1) /\ nextMsg' = nextMsg
          /\ faults' \in 0..MaxFaults
      BY <2>5 DEF IInv, TypeOK, Told, ErrorMeansUnchanged, ids
    <2> QED
      BY <1>1, <2>2, <2>4, <2>5, <2>6, <2>7, RequestStep
  <1> QED
    BY <1>2, <1>3, <1>4 DEF GetByID

-----------------------------------------------------------------------------
(***************************************************************************)
(* Requests write.                                                         *)
(***************************************************************************)

\* The tables move forward: what is gone stays gone, a row keeps its sender,
\* and a receipt is not withdrawn.
Forward ==
    /\ nextMsg \in Nat /\ nextMsg' \in Nat /\ nextMsg <= nextMsg'
    /\ \A m \in Msg : m < nextMsg =>
          /\ msg[m] = None => msg'[m] = None
          /\ msg'[m] # None =>
                /\ msg'[m].sender = msg[m].sender
                /\ \A u \in User : receipt[m][u] # "none" => receipt'[m][u] # "none"

\* What a request has established is not undone by the others.
LEMMA RequestKept ==
  ASSUME Forward, NEW p \in Request, RequestInv(p)
  PROVE  RequestInv(p)'
  <1>1. p.id \in Msg => p.id \in Nat
    BY DEF Msg
  <1>2. p.id \in Msg /\ p.id < nextMsg => p.id < nextMsg'
    BY <1>1 DEF Forward
  <1>3. /\ CallInv(p)
        /\ p.pc # "idle" => p.user \in User
        /\ p.pc \notin {"idle", "create"} => p.id \in Msg /\ p.id < nextMsg'
    BY <1>2 DEF RequestInv
  <1>4. p.pc \in {"update", "delete"} => msg'[p.id] = None \/ msg'[p.id].sender = p.user
    BY DEF RequestInv, Forward
  <1>5. p.pc = "publish" /\ p.op = "Delete" => msg'[p.id] = None
    BY DEF RequestInv, Forward
  <1>6. p.pc = "status" => msg'[p.id] = None \/ receipt'[p.id][p.user] # "none"
    BY DEF RequestInv, Forward
  <1> QED
    BY <1>3, <1>4, <1>5, <1>6 DEF RequestInv

LEMMA RequestsKept ==
  ASSUME IInv, Forward, NEW r \in Req, NEW q \in Request, req' = [req EXCEPT ![r] = q],
         RequestInv(q)'
  PROVE  (\A s \in Req : RequestInv(req[s]))'
  <1> SUFFICES ASSUME NEW s \in Req PROVE RequestInv(req[s])'
    OBVIOUS
  <1>1. CASE s = r
    <2>1. req'[s] = q
      BY <1>1, SlotType DEF IInv
    <2> QED
      BY <2>1 DEF RequestInv
  <1>2. CASE s # r
    <2> PICK p \in Request : p = req[s]
      BY DEF IInv, TypeOK
    <2>1. RequestInv(p) /\ req'[s] = p
      BY <1>2, SlotType DEF IInv
    <2>2. RequestInv(p)'
      BY <2>1, RequestKept
    <2> QED
      BY <2>1, <2>2 DEF RequestInv
  <1> QED
    BY <1>1, <1>2

\* Nobody else is at work on a message that the request in r changes.
LEMMA SoleChanger ==
  ASSUME IInv, NEW r \in Req, req[r].op \in Changes, req[r].id \in Msg \ raced,
         NEW s \in Req, s # r, req[s].id = req[r].id
  PROVE  req[s].pc \notin {"publish", "local"}
  <1>1. req[s].op \notin Changes
    BY DEF IInv, OneChanger
  <1>2. RequestInv(req[s]) /\ req[s] \in Request
    BY DEF IInv, TypeOK
  <1> QED
    BY <1>1, <1>2 DEF RequestInv, CallInv, Changes, Sends, Marks, Request, Op

\* An inserted row.
LEMMA CreateInv ==
  ASSUME IInv, NEW r \in Req, Create(r)
  PROVE  IInv'
  <1> USE MessageAssumption
  <1>1. req[r].pc = "create" /\ req[r] \in Request /\ RequestInv(req[r])
    BY DEF Create, IInv, TypeOK
  <1>2. CASE FailAndReply(r)
    BY <1>2, FailStep
  <1>3. CASE /\ Works /\ req[r].room \in dropped /\ Reply(r, 500, FALSE)
             /\ UNCHANGED <<tables, bus, shown, ids, announced, raced>>
    <2>1. /\ req' = [req EXCEPT ![r] = Idle]
          /\ reply' \in Told /\ ErrorMeansUnchanged'
      BY <1>3 DEF Reply, Told, ErrorMeansUnchanged
    <2>2. faults' \in 0..MaxFaults /\ faults' = faults
      BY <1>3 DEF Works, IInv, TypeOK
    <2>3. UNCHANGED <<tables, bus, shown, ids, announced, raced>>
      BY <1>3
    <2> QED
      BY <1>1, <2>1, <2>2, <2>3, ReplyStep
  <1>4. CASE /\ Works /\ nextMsg \in Msg /\ nextMsg' = nextMsg + 1
             /\ msg' = [msg EXCEPT ![nextMsg] =
                          [room |-> req[r].room, sender |-> req[r].user,
                           text |-> req[r].text, status |-> "sent"]]
             /\ req' = [req EXCEPT ![r].pc = "publish", ![r].id = nextMsg,
                                   ![r].found = req[r].room, ![r].wrote = TRUE]
             /\ UNCHANGED <<receipt, dropped, bus, shown, nextText, hist>>
    <2> PICK n : n = nextMsg
      OBVIOUS
    <2> PICK q : q = [req[r] EXCEPT !.pc = "publish", !.id = n, !.found = req[r].room,
                                    !.wrote = TRUE]
      OBVIOUS
    <2> PICK w : w = [room |-> req[r].room, sender |-> req[r].user,
                      text |-> req[r].text, status |-> "sent"]
      OBVIOUS
    <2>1. /\ n \in Msg /\ n = nextMsg /\ nextMsg' = n + 1 /\ faults' = faults
          /\ msg' = [msg EXCEPT ![n] = w] /\ req' = [req EXCEPT ![r] = q]
          /\ UNCHANGED <<receipt, dropped, bus, shown, nextText, reply, announced, raced>>
      BY <1>4 DEF Works, hist
    <2>2. /\ req[r].op \in Sends /\ req[r].room \in Room /\ req[r].user \in User
          /\ req[r].text \in Text /\ req[r].id = 0
      BY <1>1 DEF RequestInv, CallInv, Sends, Changes, Marks, Request, Op
    <2>3. /\ w \in Row /\ w # None /\ w.text = req[r].text /\ w.status = "sent"
      BY <2>2, RowIsNotNone DEF Row
    <2>4. /\ q \in Request /\ q.op = req[r].op /\ q.pc = "publish" /\ q.id = n
          /\ q.user = req[r].user /\ q.room = req[r].room /\ q.text = req[r].text
          /\ q.found = req[r].room
      BY <1>1, <2>1, <2>2 DEF Request, Pc
    <2>5. \A m \in Msg : msg'[m] = IF m = n THEN w ELSE msg[m]
      BY <2>1 DEF IInv, TypeOK
    <2>6. /\ msg[n] = None /\ n \notin announced
          /\ \A u \in User : receipt[n][u] = "none"
      BY <2>1 DEF IInv, RowInv, Msg
    <2>7. \A s \in Req : s # r => req'[s] = req[s] /\ req[s].id # n
      <3>1. \A s \in Req : req[s].id # n
        BY <2>1 DEF IInv, RequestInv, Msg
      <3> QED
        BY <2>1, <2>4, <3>1, SlotType DEF IInv
    <2>8. req'[r] = q
      BY <2>1, <2>4, SlotType DEF IInv
    <2>9. TypeOK'
      <3>1. nextMsg' \in 1..(MaxMsgs + 1)
        BY <2>1 DEF Msg
      <3> QED
        BY <2>1, <2>3, <2>4, <3>1, SlotType DEF IInv, TypeOK
    <2>10. (\A s \in Req : RequestInv(req[s]))'
      <3>1. Forward
        BY <2>1, <2>5 DEF Forward, Msg
      <3>2. RequestInv(q)'
        BY <2>1, <2>2, <2>4 DEF RequestInv, CallInv, Sends, Changes, Marks, Msg
      <3> QED
        BY <2>1, <2>4, <3>1, <3>2, RequestsKept
    <2>11. RowInv'
      BY <2>1, <2>3, <2>5 DEF IInv, RowInv, Msg
    <2>12. OneChanger'
      <3>1. \A s \in Req \ {r} : ~(req[s].op \in Changes /\ req[s].id = q.id)
        BY <2>4, <2>7
      <3> QED
        BY <2>1, <2>4, <3>1, OneChangerStep DEF IInv
    <2>13. SyncInv'
      <3> SUFFICES ASSUME faults' = 0, NEW m \in Msg \ raced' PROVE SyncAt(m)'
        BY DEF SyncInv
      <3>1. CASE m = n
        <4>1. q.text = Stored(m)' /\ TypeOK
          BY <2>3, <2>4, <2>5, <3>1 DEF Stored, IInv
        <4>2. \A s \in Req \ {r} : req[s].id = m => req[s].pc \notin {"publish", "local"}
          BY <2>7, <3>1
        <4>3. /\ q \in Request /\ q.pc = "publish" /\ q.id = m /\ m \in Msg
              /\ req' = [req EXCEPT ![r] = q]
          BY <2>1, <2>4, <3>1
        <4> QED
          BY <4>1, <4>2, <4>3, SyncPublisher
      <3>2. CASE m # n
        <4>1. Stored(m)' = Stored(m) /\ SyncAt(m)
          BY <2>1, <2>5, <3>2 DEF Stored, IInv, SyncInv
        <4> QED
          BY <1>1, <2>1, <2>4, <3>2, <4>1, SyncOther DEF IInv
      <3> QED
        BY <3>1, <3>2
    <2>14. DeletionsAreTrue'
      BY <2>1, <2>5, <2>6 DEF IInv, TypeOK, DeletionsAreTrue
    <2>15. StatusHasReceipt'
      <3>1. \A s \in Req : req[s].pc = "status" => req'[s] = req[s]
        BY <1>1, <2>7
      <3> SUFFICES ASSUME NEW m \in Msg, msg'[m] # None, m # n
                   PROVE  /\ msg'[m].status # "sent" =>
                               \E u \in User : receipt'[m][u] # "none"
                          /\ msg'[m].status = "sent" =>
                               \A u \in User : receipt'[m][u] # "none" =>
                                  \/ faults' > 0
                                  \/ \E s \in Req : req'[s].pc = "status" /\ req'[s].id = m
        BY <2>1, <2>3, <2>5, <2>6 DEF StatusHasReceipt
      <3>2. msg'[m] = msg[m] /\ receipt' = receipt /\ faults' = faults
        BY <2>1, <2>5
      <3>3. ASSUME msg[m].status = "sent", NEW u \in User, receipt[m][u] # "none",
                   NEW s \in Req, req[s].pc = "status", req[s].id = m
            PROVE  \E t \in Req : req'[t].pc = "status" /\ req'[t].id = m
        BY <3>1, <3>3
      <3> QED
        BY <3>2, <3>3 DEF IInv, StatusHasReceipt
    <2>16. ErrorMeansUnchanged'
      BY <2>1 DEF IInv, ErrorMeansUnchanged
    <2> QED
      BY <2>9, <2>10, <2>11, <2>12, <2>13, <2>14, <2>15, <2>16 DEF IInv
  <1> QED
    BY <1>2, <1>3, <1>4 DEF Create

\* The request in r writes to the tables, and neither publishes nor shows.
LEMMA WriteStep ==
  ASSUME IInv, NEW r \in Req, NEW q \in Request, req' = [req EXCEPT ![r] = q],
         q.op \in Changes => q.op = req[r].op /\ q.id = req[r].id,
         RequestInv(q)', Forward,
         msg' \in [Msg -> Row \cup {None}],
         receipt' \in [Msg -> [User -> {"none", "delivered", "read"}]],
         UNCHANGED <<dropped, bus, shown, nextMsg, nextText, faults, announced, raced>>,
         reply' \in Told, ErrorMeansUnchanged',
         RowInv', SyncInv', StatusHasReceipt'
  PROVE  IInv'
  <1>1. /\ TypeOK /\ OneChanger /\ RowInv /\ DeletionsAreTrue
        /\ announced' = announced /\ raced' = raced
    BY DEF IInv
  <1>2. TypeOK'
    BY <1>1, SlotType DEF TypeOK, Told
  <1>3. (\A s \in Req : RequestInv(req[s]))'
    BY RequestsKept
  <1>4. OneChanger'
    BY <1>1, OneChangerStep
  <1>5. DeletionsAreTrue'
    <2>1. \A m \in announced : m \in Msg /\ m < nextMsg /\ msg[m] = None
      BY <1>1 DEF TypeOK, RowInv, DeletionsAreTrue, Msg
    <2>2. \A m \in announced : msg'[m] = None
      BY <2>1 DEF Forward
    <2> QED
      BY <1>1, <2>2 DEF DeletionsAreTrue
  <1> QED
    BY <1>2, <1>3, <1>4, <1>5 DEF IInv

\* A changed text.
LEMMA UpdateContentInv ==
  ASSUME IInv, NEW r \in Req, UpdateContent(r)
  PROVE  IInv'
  <1> USE MessageAssumption
  <1>1. req[r].pc = "update" /\ req[r] \in Request /\ RequestInv(req[r])
    BY DEF UpdateContent, IInv, TypeOK
  <1>2. CASE FailAndReply(r)
    BY <1>2, FailStep
  <1>3. CASE /\ Works /\ msg' = SetText(r) /\ msg[req[r].id] = None
             /\ Reply(r, 500, FALSE)
             /\ UNCHANGED <<receipt, dropped, bus, shown, ids, announced, raced>>
    <2>1. /\ req' = [req EXCEPT ![r] = Idle]
          /\ reply' \in Told /\ ErrorMeansUnchanged'
      BY <1>3 DEF Reply, Told, ErrorMeansUnchanged
    <2>2. faults' \in 0..MaxFaults /\ faults' = faults
      BY <1>3 DEF Works, IInv, TypeOK
    <2>3. UNCHANGED <<tables, bus, shown, ids, announced, raced>>
      BY <1>3 DEF SetText, tables
    <2> QED
      BY <1>1, <2>1, <2>2, <2>3, ReplyStep
  <1>4. CASE /\ Works /\ msg' = SetText(r) /\ msg[req[r].id] # None
             /\ req' = [req EXCEPT ![r].pc = "publish", ![r].wrote = TRUE]
             /\ UNCHANGED <<receipt, dropped, bus, shown, ids, reply, announced, raced>>
    <2> PICK n : n = req[r].id
      OBVIOUS
    <2> PICK x : x = req[r].text
      OBVIOUS
    <2> PICK q : q = [req[r] EXCEPT !.pc = "publish", !.wrote = TRUE]
      OBVIOUS
    <2>1. /\ req' = [req EXCEPT ![r] = q] /\ msg[n] # None
          /\ UNCHANGED <<receipt, dropped, bus, shown, nextMsg, nextText, faults, reply,
                         announced, raced>>
      BY <1>4 DEF Works, ids
    <2>2. /\ n \in Msg /\ n < nextMsg /\ x \in Text /\ req[r].op = "Edit"
          /\ req[r].op \in Changes
      BY <1>1 DEF RequestInv, CallInv, Changes, Sends, Marks, Request, Op
    <2>3. /\ q \in Request /\ q.op = "Edit" /\ q.pc = "publish" /\ q.id = n
          /\ q.text = x
      BY <1>1, <2>2 DEF Request, Pc
    <2>4. /\ msg[n] \in Row /\ msg' = [msg EXCEPT ![n].text = x]
          /\ msg'[n] \in Row /\ msg'[n] # None /\ msg'[n].text = x
          /\ msg'[n].sender = msg[n].sender /\ msg'[n].status = msg[n].status
          /\ msg' \in [Msg -> Row \cup {None}]
          /\ \A m \in Msg : m # n => msg'[m] = msg[m]
      <3>1. msg[n] \in Row /\ msg' = [msg EXCEPT ![n].text = x]
        BY <1>4, <2>1, <2>2 DEF SetText, IInv, TypeOK
      <3>2. [msg[n] EXCEPT !.text = x] \in Row
        BY <2>2, <3>1 DEF Row
      <3>3. \A m \in Msg : msg'[m] = IF m = n THEN [msg[n] EXCEPT !.text = x] ELSE msg[m]
        BY <3>1 DEF IInv, TypeOK
      <3>4. [msg[n] EXCEPT !.text = x].sender = msg[n].sender
        BY <3>1 DEF Row
      <3>5. [msg[n] EXCEPT !.text = x].status = msg[n].status
        BY <3>1 DEF Row
      <3>6. [msg[n] EXCEPT !.text = x].text = x
        BY <3>1 DEF Row
      <3>7. msg' \in [Msg -> Row \cup {None}]
        BY <3>1, <3>2 DEF IInv, TypeOK
      <3> QED
        BY <2>2, <3>1, <3>2, <3>3, <3>4, <3>5, <3>6, <3>7, RowIsNotNone
    <2>5. Forward
      BY <2>1, <2>4 DEF Forward, IInv, TypeOK
    <2>6. RequestInv(q)'
      <3>1. RequestInv(q)
        BY <1>1, <2>2, <2>3 DEF RequestInv, CallInv, Changes, Sends, Marks
      <3> QED
        BY <2>3, <2>5, <3>1, RequestKept
    <2>7. RowInv'
      BY <2>1, <2>2, <2>4 DEF IInv, RowInv, Msg
    <2>8. SyncInv'
      <3> SUFFICES ASSUME faults' = 0, NEW m \in Msg \ raced' PROVE SyncAt(m)'
        BY DEF SyncInv
      <3>1. CASE m = n
        <4>1. q.text = Stored(m)' /\ TypeOK
          BY <2>3, <2>4, <3>1 DEF Stored, IInv
        <4>2. \A s \in Req \ {r} : req[s].id = m => req[s].pc \notin {"publish", "local"}
          BY <2>1, <2>2, <3>1, SoleChanger
        <4>3. /\ q \in Request /\ q.pc = "publish" /\ q.id = m /\ m \in Msg
              /\ req' = [req EXCEPT ![r] = q]
          BY <2>1, <2>3, <3>1
        <4> QED
          BY <4>1, <4>2, <4>3, SyncPublisher
      <3>2. CASE m # n
        <4>1. Stored(m)' = Stored(m) /\ SyncAt(m) /\ TypeOK
          BY <2>1, <2>4, <3>2 DEF Stored, IInv, SyncInv
        <4>2. /\ req' = [req EXCEPT ![r] = q] /\ q.id # m /\ req[r].pc # "publish"
              /\ shown' = shown /\ bus' = bus
          BY <1>1, <2>1, <2>3, <3>2
        <4> QED
          BY <2>3, <4>1, <4>2, SyncOther
      <3> QED
        BY <3>1, <3>2
    <2>9. StatusHasReceipt'
      <3>1. \A s \in Req : req[s].pc = "status" => req'[s] = req[s]
        BY <1>1, <2>1, <2>3, SlotType DEF IInv
      <3>2. \A m \in Msg : /\ msg'[m] # None => msg[m] # None
                           /\ msg'[m] # None => msg'[m].status = msg[m].status
        BY <2>1, <2>4
      <3>3. receipt' = receipt /\ faults' = faults
        BY <2>1
      <3> QED
        BY <3>1, <3>2, <3>3 DEF IInv, StatusHasReceipt
    <2>10. reply' \in Told /\ ErrorMeansUnchanged'
      BY <2>1 DEF IInv, TypeOK, Told, ErrorMeansUnchanged
    <2>11. receipt' \in [Msg -> [User -> {"none", "delivered", "read"}]]
      BY <2>1 DEF IInv, TypeOK
    <2> QED
      BY <2>1, <2>2, <2>3, <2>4, <2>5, <2>6, <2>7, <2>8, <2>9, <2>10, <2>11, WriteStep
  <1> QED
    BY <1>2, <1>3, <1>4 DEF UpdateContent

\* A removed row, and its receipts.
LEMMA DeleteRowInv ==
  ASSUME IInv, NEW r \in Req, DeleteRow(r)
  PROVE  IInv'
  <1> USE MessageAssumption
  <1>1. req[r].pc = "delete" /\ req[r] \in Request /\ RequestInv(req[r])
    BY DEF DeleteRow, IInv, TypeOK
  <1>2. CASE FailAndReply(r)
    BY <1>2, FailStep
  <1>3. CASE /\ Works /\ msg' = WithoutRow(req[r].id)
             /\ receipt' = [receipt EXCEPT ![req[r].id] = [u \in User |-> "none"]]
             /\ req' = [req EXCEPT ![r].pc = "publish",
                                   ![r].wrote = msg[req[r].id] # None]
             /\ UNCHANGED <<dropped, bus, shown, ids, hist>>
    <2> PICK n : n = req[r].id
      OBVIOUS
    <2> PICK g \in BOOLEAN : g = (msg[n] # None)
      OBVIOUS
    <2> PICK q : q = [req[r] EXCEPT !.pc = "publish", !.wrote = g]
      OBVIOUS
    <2>1. /\ req' = [req EXCEPT ![r] = q]
          /\ UNCHANGED <<dropped, bus, shown, nextMsg, nextText, faults, reply,
                         announced, raced>>
      BY <1>3 DEF Works, ids, hist
    <2>2. n \in Msg /\ n < nextMsg /\ req[r].op = "Delete" /\ req[r].op \in Changes
      BY <1>1 DEF RequestInv, CallInv, Changes, Sends, Marks, Request, Op
    <2>3. /\ q \in Request /\ q.op = "Delete" /\ q.pc = "publish" /\ q.id = n
          /\ q.text = 0
      BY <1>1, <2>2 DEF Request, Pc, RequestInv
    <2>4. /\ msg'[n] = None /\ \A u \in User : receipt'[n][u] = "none"
          /\ msg' \in [Msg -> Row \cup {None}]
          /\ receipt' \in [Msg -> [User -> {"none", "delivered", "read"}]]
          /\ \A m \in Msg : m # n => msg'[m] = msg[m] /\ receipt'[m] = receipt[m]
      BY <1>3, <2>2 DEF WithoutRow, IInv, TypeOK
    <2>5. Forward
      BY <2>1, <2>4 DEF Forward, IInv, TypeOK
    <2>6. RequestInv(q)'
      <3>1. /\ CallInv(q) /\ q.user \in User /\ q.room \in Room /\ q.found \in Room
            /\ q.id \in Msg /\ q.id < nextMsg'
        BY <1>1, <2>1, <2>2, <2>3 DEF RequestInv, CallInv, Changes, Sends, Marks
      <3> QED
        BY <2>2, <2>3, <2>4, <3>1 DEF RequestInv, Sends
    <2>7. RowInv'
      BY <2>1, <2>2, <2>4 DEF IInv, RowInv, Msg
    <2>8. SyncInv'
      <3> SUFFICES ASSUME faults' = 0, NEW m \in Msg \ raced' PROVE SyncAt(m)'
        BY DEF SyncInv
      <3>1. CASE m = n
        <4>1. q.text = Stored(m)' /\ TypeOK
          BY <2>3, <2>4, <3>1 DEF Stored, IInv
        <4>2. \A s \in Req \ {r} : req[s].id = m => req[s].pc \notin {"publish", "local"}
          BY <2>1, <2>2, <3>1, SoleChanger
        <4>3. /\ q \in Request /\ q.pc = "publish" /\ q.id = m /\ m \in Msg
              /\ req' = [req EXCEPT ![r] = q]
          BY <2>1, <2>3, <3>1
        <4> QED
          BY <4>1, <4>2, <4>3, SyncPublisher
      <3>2. CASE m # n
        <4>1. Stored(m)' = Stored(m) /\ SyncAt(m) /\ TypeOK
          BY <2>1, <2>4, <3>2 DEF Stored, IInv, SyncInv
        <4>2. /\ req' = [req EXCEPT ![r] = q] /\ q.id # m /\ req[r].pc # "publish"
              /\ shown' = shown /\ bus' = bus
          BY <1>1, <2>1, <2>3, <3>2
        <4> QED
          BY <2>3, <4>1, <4>2, SyncOther
      <3> QED
        BY <3>1, <3>2
    <2>9. StatusHasReceipt'
      <3>1. \A s \in Req : req[s].pc = "status" => req'[s] = req[s]
        BY <1>1, <2>1, <2>3, SlotType DEF IInv
      <3>2. \A m \in Msg : msg'[m] # None => msg'[m] = msg[m] /\ receipt'[m] = receipt[m]
        BY <2>4
      <3>3. faults' = faults
        BY <2>1
      <3> QED
        BY <3>1, <3>2, <3>3 DEF IInv, StatusHasReceipt
    <2>10. reply' \in Told /\ ErrorMeansUnchanged'
      BY <2>1 DEF IInv, TypeOK, Told, ErrorMeansUnchanged
    <2> QED
      BY <2>1, <2>2, <2>3, <2>4, <2>5, <2>6, <2>7, <2>8, <2>9, <2>10, WriteStep
  <1> QED
    BY <1>2, <1>3 DEF DeleteRow

\* A receipt.
LEMMA UpsertReceiptInv ==
  ASSUME IInv, NEW r \in Req, UpsertReceipt(r)
  PROVE  IInv'
  <1> USE MessageAssumption
  <1>1. req[r].pc = "upsert" /\ req[r] \in Request /\ RequestInv(req[r])
    BY DEF UpsertReceipt, IInv, TypeOK
  <1>2. CASE FailAndReply(r)
    BY <1>2, FailStep
  <1>3. CASE /\ Works /\ msg[req[r].id] = None /\ Reply(r, 500, FALSE)
             /\ UNCHANGED <<receipt, msg, dropped, bus, shown, ids, announced, raced>>
    <2>1. /\ req' = [req EXCEPT ![r] = Idle]
          /\ reply' \in Told /\ ErrorMeansUnchanged'
      BY <1>3 DEF Reply, Told, ErrorMeansUnchanged
    <2>2. faults' \in 0..MaxFaults /\ faults' = faults
      BY <1>3 DEF Works, IInv, TypeOK
    <2>3. UNCHANGED <<tables, bus, shown, ids, announced, raced>>
      BY <1>3 DEF tables
    <2> QED
      BY <1>1, <2>1, <2>2, <2>3, ReplyStep
  <1>4. CASE /\ Works /\ msg[req[r].id] # None
             /\ req' = [req EXCEPT ![r].pc = "status", ![r].wrote = TRUE]
             /\ receipt' = NewReceipt(r)
             /\ UNCHANGED <<reply, msg, dropped, bus, shown, ids, announced, raced>>
    <2> PICK n : n = req[r].id
      OBVIOUS
    <2> PICK v : v = req[r].user
      OBVIOUS
    <2> PICK a : a = MarkedAs(r)
      OBVIOUS
    <2> PICK q : q = [req[r] EXCEPT !.pc = "status", !.wrote = TRUE]
      OBVIOUS
    <2>1. /\ req' = [req EXCEPT ![r] = q] /\ receipt' = [receipt EXCEPT ![n][v] = a]
          /\ UNCHANGED <<msg, dropped, bus, shown, nextMsg, nextText, faults, reply,
                         announced, raced>>
      BY <1>4 DEF Works, ids, NewReceipt
    <2>2. /\ n \in Msg /\ n < nextMsg /\ v \in User /\ req[r].op \in Marks
          /\ req[r].op \notin Changes /\ a \in {"delivered", "read"} /\ msg[n] # None
      BY <1>1, <1>4 DEF RequestInv, CallInv, Changes, Sends, Marks, Request, Op, MarkedAs
    <2>3. /\ q \in Request /\ q.op = req[r].op /\ q.pc = "status" /\ q.id = n
          /\ q.user = v
      BY <1>1, <2>2 DEF Request, Pc
    <2>4. /\ receipt' \in [Msg -> [User -> {"none", "delivered", "read"}]]
          /\ receipt'[n][v] # "none"
          /\ \A u \in User : receipt[n][u] # "none" => receipt'[n][u] # "none"
          /\ \A m \in Msg : m # n => receipt'[m] = receipt[m]
      BY <2>1, <2>2 DEF IInv, TypeOK
    <2>5. Forward
      BY <2>1, <2>4 DEF Forward, IInv, TypeOK
    <2>6. RequestInv(q)'
      <3>1. CallInv(q) /\ q.found = None /\ q.id \in Msg /\ q.id < nextMsg'
        BY <1>1, <2>1, <2>2, <2>3 DEF RequestInv, CallInv, Changes, Sends, Marks
      <3> QED
        BY <2>2, <2>3, <2>4, <3>1 DEF RequestInv, Changes, Sends, Marks
    <2>7. RowInv'
      BY <2>1, <2>2, <2>4 DEF IInv, RowInv, Msg
    <2>8. SyncInv'
      <3> SUFFICES ASSUME faults' = 0, NEW m \in Msg \ raced' PROVE SyncAt(m)'
        BY DEF SyncInv
      <3>1. Stored(m)' = Stored(m) /\ SyncAt(m) /\ TypeOK
        BY <2>1 DEF Stored, IInv, SyncInv
      <3>2. /\ req' = [req EXCEPT ![r] = q] /\ q.pc \notin {"publish", "local"}
            /\ req[r].pc # "publish" /\ shown' = shown /\ bus' = bus
        BY <1>1, <2>1, <2>3
      <3> QED
        BY <2>3, <3>1, <3>2, SyncOther
    <2>9. StatusHasReceipt'
      <3>1. /\ \A s \in Req : req[s].pc = "status" => req'[s] = req[s]
            /\ req'[r] = q
        BY <1>1, <2>1, <2>3, SlotType DEF IInv
      <3>2. msg' = msg /\ faults' = faults
        BY <2>1
      <3>3. \A m \in Msg \ {n} : receipt'[m] = receipt[m]
        BY <2>4
      <3>4. \E s \in Req : req'[s].pc = "status" /\ req'[s].id = n
        BY <2>3, <3>1
      <3> QED
        BY <2>2, <2>4, <3>1, <3>2, <3>3, <3>4 DEF IInv, StatusHasReceipt
    <2>10. reply' \in Told /\ ErrorMeansUnchanged'
      BY <2>1 DEF IInv, TypeOK, Told, ErrorMeansUnchanged
    <2>11. msg' \in [Msg -> Row \cup {None}]
      BY <2>1 DEF IInv, TypeOK
    <2> QED
      BY <2>1, <2>2, <2>3, <2>4, <2>5, <2>6, <2>7, <2>8, <2>9, <2>10, <2>11, WriteStep
  <1> QED
    BY <1>2, <1>3, <1>4 DEF UpsertReceipt

\* A row's status.
LEMMA UpdateStatusInv ==
  ASSUME IInv, NEW r \in Req, UpdateStatus(r)
  PROVE  IInv'
  <1> USE MessageAssumption
  <1>1. req[r].pc = "status" /\ req[r] \in Request /\ RequestInv(req[r])
    BY DEF UpdateStatus, IInv, TypeOK
  <1>2. CASE FailAndReply(r)
    BY <1>2, FailStep
  <1>3. CASE /\ Works /\ Reply(r, 200, TRUE)
             /\ msg' = IF msg[req[r].id] = None THEN msg
                       ELSE [msg EXCEPT ![req[r].id].status = MarkedAs(r)]
             /\ UNCHANGED <<receipt, dropped, bus, shown, ids, announced, raced>>
    <2> PICK n : n = req[r].id
      OBVIOUS
    <2> PICK v : v = req[r].user
      OBVIOUS
    <2> PICK a : a = MarkedAs(r)
      OBVIOUS
    <2> PICK q \in Request : q = Idle
      BY IdleInv
    <2>1. /\ req' = [req EXCEPT ![r] = q] /\ reply' \in Told /\ ErrorMeansUnchanged'
          /\ faults' = faults
      BY <1>3 DEF Reply, Told, ErrorMeansUnchanged, Works
    <2>2. /\ n \in Msg /\ n < nextMsg /\ v \in User /\ a \in {"delivered", "read"}
          /\ msg[n] # None => receipt[n][v] # "none"
      BY <1>1 DEF RequestInv, MarkedAs
    <2>3. q.op \notin Changes /\ q.pc \notin {"publish", "local"} /\ RequestInv(q)'
      BY IdleInv
    <2>4. /\ UNCHANGED <<receipt, dropped, bus, shown, nextMsg, nextText, announced, raced>>
          /\ receipt' \in [Msg -> [User -> {"none", "delivered", "read"}]]
      BY <1>3 DEF ids, IInv, TypeOK
    <2>5. msg' = IF msg[n] = None THEN msg ELSE [msg EXCEPT ![n].status = a]
      BY <1>3
    <2>6. /\ msg' \in [Msg -> Row \cup {None}]
          /\ \A m \in Msg : m # n => msg'[m] = msg[m]
          /\ msg[n] = None => msg'[n] = None
          /\ msg[n] # None => /\ msg'[n] # None /\ msg'[n].status = a
                              /\ msg'[n].sender = msg[n].sender
                              /\ msg'[n].text = msg[n].text
      <3>1. CASE msg[n] = None
        BY <2>2, <2>5, <3>1 DEF IInv, TypeOK
      <3>2. CASE msg[n] # None
        <4> PICK w : w = [msg[n] EXCEPT !.status = a]
          OBVIOUS
        <4>1. msg[n] \in Row
          BY <2>2, <3>2 DEF IInv, TypeOK
        <4>2. /\ w \in Row /\ w.status = a /\ w.sender = msg[n].sender
              /\ w.text = msg[n].text
          BY <2>2, <4>1 DEF Row
        <4>3. msg' = [msg EXCEPT ![n] = w]
          BY <2>5, <3>2
        <4>4. /\ msg' \in [Msg -> Row \cup {None}]
              /\ \A m \in Msg : msg'[m] = IF m = n THEN w ELSE msg[m]
          <5>1. msg \in [Msg -> Row \cup {None}]
            BY DEF IInv, TypeOK
          <5> QED
            BY <4>2, <4>3, <5>1
        <4> QED
          BY <2>2, <3>2, <4>2, <4>4, RowIsNotNone
      <3> QED
        BY <3>1, <3>2
    <2>7. Forward
      BY <2>2, <2>4, <2>6 DEF Forward, IInv, TypeOK
    <2>8. RowInv'
      <3>1. \A m \in Msg : m >= nextMsg => m # n
        BY <2>2 DEF Msg, IInv, TypeOK
      <3>2. \A m \in Msg : msg'[m] = None <=> msg[m] = None
        BY <2>6
      <3> QED
        BY <2>4, <3>1, <3>2 DEF IInv, RowInv
    <2>9. SyncInv'
      <3> SUFFICES ASSUME faults' = 0, NEW m \in Msg \ raced' PROVE SyncAt(m)'
        BY DEF SyncInv
      <3>1. Stored(m)' = Stored(m) /\ SyncAt(m) /\ TypeOK
        BY <2>1, <2>4, <2>6 DEF Stored, IInv, SyncInv
      <3>2. /\ req' = [req EXCEPT ![r] = q] /\ q.pc \notin {"publish", "local"}
            /\ req[r].pc # "publish" /\ shown' = shown /\ bus' = bus
        BY <1>1, <2>1, <2>3, <2>4
      <3> QED
        BY <3>1, <3>2, SyncOther
    <2>10. StatusHasReceipt'
      <3>1. \A s \in Req : req[s].id # n => req'[s] = req[s] \/ s = r
        BY <2>1, SlotType DEF IInv
      <3>2. receipt' = receipt /\ faults' = faults /\ req[r].id = n
        BY <2>1, <2>4
      <3>3. ASSUME NEW m \in Msg \ {n}, msg'[m] # None
            PROVE  /\ msg'[m].status # "sent" => \E u \in User : receipt'[m][u] # "none"
                   /\ msg'[m].status = "sent" =>
                        \A u \in User : receipt'[m][u] # "none" =>
                           \/ faults' > 0
                           \/ \E s \in Req : req'[s].pc = "status" /\ req'[s].id = m
        <4>1. msg'[m] = msg[m]
          BY <2>6, <3>3
        <4>2. \A s \in Req : req[s].id = m => req'[s] = req[s]
          BY <3>1, <3>2, <3>3
        <4>3. (\E s \in Req : req[s].pc = "status" /\ req[s].id = m) =>
                 \E s \in Req : req'[s].pc = "status" /\ req'[s].id = m
          BY <4>2
        <4> QED
          BY <3>2, <3>3, <4>1, <4>3 DEF IInv, StatusHasReceipt
      <3>4. ASSUME msg'[n] # None
            PROVE  msg'[n].status # "sent" /\ \E u \in User : receipt'[n][u] # "none"
        BY <2>2, <2>4, <2>6, <3>4
      <3> QED
        BY <3>3, <3>4 DEF StatusHasReceipt
    <2> QED
      BY <2>1, <2>3, <2>4, <2>6, <2>7, <2>8, <2>9, <2>10, WriteStep
  <1> QED
    BY <1>2, <1>3 DEF UpdateStatus

-----------------------------------------------------------------------------
(***************************************************************************)
(* Requests publish and show; announcements are delivered.                 *)
(***************************************************************************)

\* The request in r leaves the tables alone.
LEMMA ShowStep ==
  ASSUME IInv, NEW r \in Req, NEW q \in Request, req' = [req EXCEPT ![r] = q],
         q.op \in Changes => q.op = req[r].op /\ q.id = req[r].id,
         RequestInv(q)', req[r].pc # "status",
         UNCHANGED <<msg, receipt, dropped, nextMsg, nextText, faults, raced>>,
         bus' \in Seq(Event), shown' \in [Msg -> Text \cup {0}],
         announced' \subseteq Msg, \A m \in announced' : msg[m] = None,
         reply' \in Told, ErrorMeansUnchanged', RowInv', SyncInv'
  PROVE  IInv'
  <1>1. /\ TypeOK /\ OneChanger /\ RowInv /\ StatusHasReceipt
        /\ raced' = raced
    BY DEF IInv
  <1>2. TypeOK'
    BY <1>1, SlotType DEF TypeOK, Told
  <1>3. (\A s \in Req : RequestInv(req[s]))'
    <2>1. Forward
      BY <1>1 DEF Forward, TypeOK
    <2> QED
      BY <2>1, RequestsKept
  <1>4. OneChanger'
    BY <1>1, OneChangerStep
  <1>5. DeletionsAreTrue'
    BY DEF DeletionsAreTrue
  <1>6. StatusHasReceipt'
    <2>1. \A s \in Req : req[s].pc = "status" => req'[s] = req[s]
      BY <1>1, SlotType
    <2> QED
      BY <1>1, <2>1 DEF StatusHasReceipt
  <1> QED
    BY <1>2, <1>3, <1>4, <1>5, <1>6 DEF IInv

\* What the handler answers once the announcement is out.
LEMMA AnswerTells ==
  ASSUME MessageAssumption, NEW r \in Req, req[r] \in Request, req[r].found \in Room,
         Works, Answer(r)
  PROVE  /\ req' = [req EXCEPT ![r] = Idle]
         /\ reply' \in Told /\ ErrorMeansUnchanged'
  <1> PICK code \in {200, 404} : code = IF req[r].found = req[r].room THEN 200 ELSE 404
    OBVIOUS
  <1> PICK g \in BOOLEAN : g = req[r].wrote
    BY DEF Request
  <1>1. Reply(r, code, g)
    BY DEF Answer
  <1>2. code # 200 => req[r].found \notin {None, req[r].room}
    BY DEF MessageAssumption
  <1> QED
    BY <1>1, <1>2 DEF Reply, Told, ErrorMeansUnchanged

\* An announcement.
LEMMA PublishInv ==
  ASSUME IInv, NEW r \in Req, Publish(r)
  PROVE  IInv'
  <1> USE MessageAssumption
  <1>1. req[r].pc = "publish" /\ req[r] \in Request /\ RequestInv(req[r])
    BY DEF Publish, IInv, TypeOK
  <1>2. CASE FailAndReply(r)
    BY <1>2, FailStep
  <1>3. CASE /\ Works
             /\ bus' = Append(bus, Announcement(r))
             /\ announced' = IF req[r].op = "Delete" THEN announced \cup {req[r].id}
                             ELSE announced
             /\ IF req[r].op = "WsSend" THEN Go(r, "local") /\ UNCHANGED reply
                ELSE Answer(r)
             /\ UNCHANGED <<tables, shown, ids, raced>>
    <2> PICK n : n = req[r].id
      OBVIOUS
    <2> PICK x : x = req[r].text
      OBVIOUS
    <2> PICK e : e = Announcement(r)
      OBVIOUS
    <2>1. /\ n \in Msg /\ n < nextMsg /\ x \in Text \cup {0} /\ req[r].found \in Room
          /\ req[r].op = "Delete" => msg[n] = None
          /\ req[r].op = "WsSend" => x \in Text /\ req[r].found = req[r].room
          /\ req[r].room \in Room /\ req[r].user \in User
      BY <1>1 DEF RequestInv, CallInv, Changes, Sends, Marks, Request, Op
    <2>2. e \in Event /\ e.id = n /\ e.text = x
      BY <2>1 DEF Announcement, Event
    <2>3. /\ UNCHANGED <<msg, receipt, dropped, shown, nextMsg, nextText, faults, raced>>
          /\ bus' = Append(bus, e) /\ bus \in Seq(Event) /\ bus' \in Seq(Event)
      BY <1>3, <2>2 DEF tables, ids, Works, IInv, TypeOK
    <2>4. announced' \subseteq Msg /\ \A m \in announced' : msg[m] = None
      BY <1>3, <2>1 DEF IInv, TypeOK, DeletionsAreTrue
    <2>5. PICK q \in Request :
            /\ req' = [req EXCEPT ![r] = q]
            /\ q.op \in Changes => q.op = req[r].op /\ q.id = req[r].id
            /\ RequestInv(q)' /\ q.pc # "publish"
            /\ q.pc = "local" => q.id = n /\ q.text = x
            /\ reply' \in Told /\ ErrorMeansUnchanged'
      <3>1. CASE req[r].op = "WsSend"
        <4> PICK q : q = [req[r] EXCEPT !.pc = "local"]
          OBVIOUS
        <4>1. /\ q \in Request /\ q.op = "WsSend" /\ q.pc = "local" /\ q.id = n
              /\ q.text = x /\ q.found = req[r].found /\ q.room = req[r].room
              /\ q.user = req[r].user
          BY <1>1, <3>1 DEF Request, Pc
        <4>2. RequestInv(q)'
          BY <2>1, <2>3, <4>1 DEF RequestInv, CallInv, Changes, Sends, Marks
        <4>3. req' = [req EXCEPT ![r] = q] /\ reply' = reply
          BY <1>3, <3>1 DEF Go
        <4>4. reply' \in Told /\ ErrorMeansUnchanged'
          BY <4>3 DEF IInv, TypeOK, Told, ErrorMeansUnchanged
        <4> QED
          BY <3>1, <4>1, <4>2, <4>3, <4>4
      <3>2. CASE req[r].op # "WsSend"
        <4> PICK q \in Request : q = Idle
          BY IdleInv
        <4>1. q.op \notin Changes /\ q.pc \notin {"publish", "local"} /\ RequestInv(q)'
          BY IdleInv
        <4>2. req' = [req EXCEPT ![r] = q] /\ reply' \in Told /\ ErrorMeansUnchanged'
          BY <1>1, <1>3, <2>1, <3>2, AnswerTells
        <4> QED
          BY <4>1, <4>2
      <3> QED
        BY <3>1, <3>2
    <2>6. RowInv'
      <3>1. \A i \in 1..Len(bus') : \/ bus'[i] = e
                                    \/ i \in 1..Len(bus) /\ bus'[i] = bus[i]
        <4>1. bus \in Seq(Event) /\ bus' = Append(bus, e) /\ e \in Event
          BY <2>2, <2>3
        <4> QED
          BY <4>1, AppendElements
      <3>2. \A m \in Msg : m >= nextMsg => m # n
        BY <2>1 DEF Msg, IInv, TypeOK
      <3>3. \A m \in Msg : m \in announced' => m = n \/ m \in announced
        BY <1>3
      <3> QED
        BY <2>2, <2>3, <3>1, <3>2, <3>3 DEF IInv, RowInv
    <2>7. SyncInv'
      <3> SUFFICES ASSUME faults' = 0, NEW m \in Msg \ raced' PROVE SyncAt(m)'
        BY DEF SyncInv
      <3>1. Stored(m)' = Stored(m) /\ SyncAt(m) /\ TypeOK
        BY <2>3 DEF Stored, IInv, SyncInv
      <3>2. CASE m = n
        <4>1. x = Stored(m)
          BY <1>1, <3>1, <3>2 DEF SyncAt
        <4>2. Shows(shown', bus', m, Stored(m))
          BY <2>2, <2>3, <3>2, <4>1, ShowsPublished
        <4>3. \A s \in Req : req'[s] = IF s = r THEN q ELSE req[s]
          BY <2>5, <3>1, SlotType
        <4>4. \A s \in Req : req'[s].id = m /\ req'[s].pc \in {"publish", "local"} =>
                                req'[s].text = Stored(m)
          BY <2>5, <3>1, <4>1, <4>3 DEF SyncAt
        <4> QED
          BY <3>1, <4>2, <4>4 DEF SyncAt, WillShow
      <3>3. CASE m # n
        <4>1. Shows(shown, bus, m, Stored(m)) => Shows(shown', bus', m, Stored(m))
          BY <2>2, <2>3, <3>3, ShowsPublished
        <4>2. /\ req[r].id # m /\ req' = [req EXCEPT ![r] = q]
              /\ q.id = m => q.pc \notin {"publish", "local"}
          BY <2>5, <3>3
        <4> QED
          BY <3>1, <4>1, <4>2, SyncOther
      <3> QED
        BY <3>2, <3>3
    <2>8. shown' \in [Msg -> Text \cup {0}] /\ req[r].pc # "status"
      BY <1>1, <2>3 DEF IInv, TypeOK
    <2> QED
      BY <2>3, <2>4, <2>5, <2>6, <2>7, <2>8, ShowStep
  <1> QED
    BY <1>2, <1>3 DEF Publish

\* The second copy, to the sender's own node.
LEMMA LocalBroadcastInv ==
  ASSUME IInv, NEW r \in Req, LocalBroadcast(r)
  PROVE  IInv'
  <1> USE MessageAssumption
  <1>1. req[r].pc = "local" /\ req[r] \in Request /\ RequestInv(req[r])
    BY DEF LocalBroadcast, IInv, TypeOK
  <1> PICK n : n = req[r].id
    OBVIOUS
  <1> PICK x : x = req[r].text
    OBVIOUS
  <1> PICK e : e = Announcement(r)
    OBVIOUS
  <1> PICK q \in Request : q = Idle
    BY IdleInv
  <1>2. /\ n \in Msg /\ n < nextMsg /\ x \in Text \cup {0} /\ req[r].found \in Room
        /\ e \in Event /\ e.id = n /\ e.text = x
    BY <1>1 DEF RequestInv, Request, Announcement, Event
  <1>3. req' = [req EXCEPT ![r] = q] /\ reply' \in Told /\ ErrorMeansUnchanged'
    BY <1>1, <1>2, AnswerTells DEF LocalBroadcast
  <1>4. /\ UNCHANGED <<msg, receipt, dropped, nextMsg, nextText, faults, raced>>
        /\ bus' = bus /\ announced' = announced
        /\ shown' = [shown EXCEPT ![e.id] = e.text]
    BY DEF LocalBroadcast, tables, ids, Works, Show
  <1>5. /\ TypeOK /\ shown \in [Msg -> Text \cup {0}]
        /\ shown' \in [Msg -> Text \cup {0}]
        /\ \A m \in Msg : m # n => shown'[m] = shown[m]
        /\ bus' \in Seq(Event) /\ announced' \subseteq Msg
        /\ \A m \in announced' : msg[m] = None
    BY <1>2, <1>4 DEF IInv, TypeOK, DeletionsAreTrue
  <1>6. q.op \notin Changes /\ q.pc \notin {"publish", "local"} /\ RequestInv(q)'
    BY IdleInv
  <1>7. RowInv'
    <2>1. \A m \in Msg : m >= nextMsg => m # n
      BY <1>2 DEF Msg, IInv, TypeOK
    <2> QED
      BY <1>4, <1>5, <2>1 DEF IInv, RowInv
  <1>8. SyncInv'
    <2> SUFFICES ASSUME faults' = 0, NEW m \in Msg \ raced' PROVE SyncAt(m)'
      BY DEF SyncInv
    <2>1. Stored(m)' = Stored(m) /\ SyncAt(m) /\ m \in Msg
      BY <1>4 DEF Stored, IInv, SyncInv
    <2>2. e.id = m => e.text = Stored(m)
      BY <1>1, <1>2, <2>1 DEF SyncAt
    <2>3. Shows(shown, bus, m, Stored(m)) => Shows(shown', bus', m, Stored(m))
      BY <1>2, <1>4, <1>5, <2>1, <2>2, ShowsLocally
    <2> QED
      BY <1>1, <1>3, <1>5, <1>6, <2>1, <2>3, SyncOther
  <1>9. req[r].pc # "status"
    BY <1>1
  <1> QED
    BY <1>3, <1>4, <1>5, <1>6, <1>7, <1>8, <1>9, ShowStep

\* An announcement reaches the clients.
LEMMA DeliverInv ==
  ASSUME IInv, Deliver
  PROVE  IInv'
  <1> PICK e : e = Head(bus)
    OBVIOUS
  <1>1. /\ bus # <<>> /\ bus \in Seq(Event) /\ bus' = Tail(bus)
        /\ shown' = [shown EXCEPT ![e.id] = e.text]
        /\ UNCHANGED <<msg, receipt, dropped, req, nextMsg, nextText, faults, reply,
                       announced, raced>>
    BY DEF Deliver, Show, tables, ids, hist, IInv, TypeOK
  <1>2. /\ bus' \in Seq(Event) /\ e \in Event
        /\ e = bus[1] /\ 1 \in 1..Len(bus)
        /\ \A i \in 1..Len(bus') : i + 1 \in 1..Len(bus) /\ bus'[i] = bus[i + 1]
    <2> PICK b : b = bus'
      OBVIOUS
    <2>1. bus # <<>> /\ bus \in Seq(Event) /\ b = Tail(bus) /\ e = Head(bus)
      BY <1>1
    <2>2. /\ b \in Seq(Event) /\ e \in Event
          /\ e = bus[1] /\ 1 \in 1..Len(bus)
          /\ \A i \in 1..Len(b) : i + 1 \in 1..Len(bus) /\ b[i] = bus[i + 1]
      BY <2>1
    <2> QED
      BY <2>2
  <1>3. TypeOK'
    BY <1>1, <1>2 DEF IInv, TypeOK, Event
  <1>4. (\A r \in Req : RequestInv(req[r]))'
    BY <1>1 DEF IInv, RequestInv, CallInv
  <1>5. RowInv'
    <2>1. \A m \in Msg : m >= nextMsg => e.id # m
      BY <1>2 DEF IInv, RowInv
    <2>2. \A m \in Msg : e.id # m => shown'[m] = shown[m]
      BY <1>1 DEF IInv, TypeOK
    <2> QED
      BY <1>1, <1>2, <2>1, <2>2 DEF IInv, RowInv
  <1>6. SyncInv'
    <2> SUFFICES ASSUME faults' = 0, NEW m \in Msg \ raced' PROVE SyncAt(m)'
      BY DEF SyncInv
    <2>1. Stored(m)' = Stored(m) /\ SyncAt(m) /\ shown \in [Msg -> Text \cup {0}]
      BY <1>1 DEF Stored, IInv, SyncInv, TypeOK
    <2>2. Shows(shown, bus, m, Stored(m)) => Shows(shown', bus', m, Stored(m))
      BY <1>1, <2>1, ShowsDelivered
    <2> QED
      BY <1>1, <2>1, <2>2 DEF SyncAt, WillShow
  <1>7. OneChanger' /\ DeletionsAreTrue' /\ StatusHasReceipt' /\ ErrorMeansUnchanged'
    BY <1>1 DEF IInv, OneChanger, DeletionsAreTrue, StatusHasReceipt, ErrorMeansUnchanged
  <1> QED
    BY <1>3, <1>4, <1>5, <1>6, <1>7 DEF IInv

\* A room goes, and its messages with it.
LEMMA DropRoomInv ==
  ASSUME IInv, NEW rm \in Room, DropRoom(rm)
  PROVE  IInv'
  <1> PICK its : its = {m \in Msg : msg[m] # None /\ msg[m].room = rm}
    OBVIOUS
  <1>1. /\ dropped' = dropped \cup {rm}
        /\ msg' = [m \in Msg |-> IF m \in its THEN None ELSE msg[m]]
        /\ receipt' = [m \in Msg |-> IF m \in its THEN [u \in User |-> "none"]
                                     ELSE receipt[m]]
        /\ raced' = raced \cup its
        /\ UNCHANGED <<bus, shown, req, nextMsg, nextText, faults, reply, announced>>
    BY DEF DropRoom, ids
  <1>2. /\ its \subseteq Msg
        /\ \A m \in Msg : m \in its => msg'[m] = None /\ \A u \in User : receipt'[m][u] = "none"
        /\ \A m \in Msg : m \notin its => msg'[m] = msg[m] /\ receipt'[m] = receipt[m]
    BY <1>1
  <1>3. TypeOK'
    BY <1>1, <1>2 DEF IInv, TypeOK
  <1>4. Forward
    BY <1>1, <1>2 DEF Forward, IInv, TypeOK
  <1>5. (\A r \in Req : RequestInv(req[r]))'
    <2> SUFFICES ASSUME NEW r \in Req PROVE RequestInv(req[r])'
      OBVIOUS
    <2> PICK p \in Request : p = req[r]
      BY DEF IInv, TypeOK
    <2>1. RequestInv(p) /\ req'[r] = p
      BY <1>1 DEF IInv
    <2>2. RequestInv(p)'
      BY <1>4, <2>1, RequestKept
    <2> QED
      BY <2>1, <2>2 DEF RequestInv
  <1>6. RowInv'
    BY <1>1, <1>2 DEF IInv, RowInv
  <1>7. OneChanger'
    BY <1>1 DEF IInv, OneChanger
  <1>8. SyncInv'
    <2> SUFFICES ASSUME faults' = 0, NEW m \in Msg \ raced' PROVE SyncAt(m)'
      BY DEF SyncInv
    <2>1. m \notin its /\ m \in Msg \ raced
      BY <1>1
    <2>2. Stored(m)' = Stored(m) /\ SyncAt(m)
      BY <1>1, <1>2, <2>1 DEF Stored, IInv, SyncInv
    <2> QED
      BY <1>1, <2>2 DEF SyncAt, WillShow
  <1>9. DeletionsAreTrue'
    <2>1. \A m \in announced : m \in Msg /\ msg[m] = None
      BY DEF IInv, TypeOK, DeletionsAreTrue
    <2> QED
      BY <1>1, <1>2, <2>1 DEF DeletionsAreTrue
  <1>10. StatusHasReceipt'
    BY <1>1, <1>2 DEF IInv, StatusHasReceipt
  <1>11. ErrorMeansUnchanged'
    BY <1>1 DEF IInv, ErrorMeansUnchanged
  <1> QED
    BY <1>3, <1>5, <1>6, <1>7, <1>8, <1>9, <1>10, <1>11 DEF IInv

-----------------------------------------------------------------------------
(***************************************************************************)
(* The invariant holds, and what follows from it.                          *)
(***************************************************************************)
LEMMA StutterInv ==
  ASSUME IInv, UNCHANGED vars
  PROVE  IInv'
  <1> USE DEF vars, tables, ids, hist
  <1>1. TypeOK' /\ (\A r \in Req : RequestInv(req[r]))'
    BY DEF IInv, TypeOK, RequestInv, CallInv
  <1>2. RowInv' /\ OneChanger' /\ DeletionsAreTrue' /\ StatusHasReceipt'
        /\ ErrorMeansUnchanged'
    BY DEF IInv, RowInv, OneChanger, DeletionsAreTrue, StatusHasReceipt,
       ErrorMeansUnchanged
  <1>3. SyncInv'
    BY DEF IInv, SyncInv, SyncAt, WillShow, Stored, Shows
  <1> QED
    BY <1>1, <1>2, <1>3 DEF IInv

LEMMA CallInvStep ==
  ASSUME IInv, NEW r \in Req, Call(r)
  PROVE  IInv'
  BY CreateInv, GetByIDInv, UpdateContentInv, DeleteRowInv, PublishInv,
     LocalBroadcastInv, UpsertReceiptInv, UpdateStatusInv DEF Call

LEMMA InvStep ==
  ASSUME IInv, [Next]_vars
  PROVE  IInv'
  <1>1. CASE Deliver
    BY <1>1, DeliverInv
  <1>2. ASSUME NEW rm \in Room, DropRoom(rm) PROVE IInv'
    BY <1>2, DropRoomInv
  <1>3. ASSUME NEW r \in Req, Arrive(r) PROVE IInv'
    BY <1>3, ArriveInv
  <1>4. ASSUME NEW r \in Req, Call(r) PROVE IInv'
    BY <1>4, CallInvStep
  <1>5. CASE UNCHANGED vars
    BY <1>5, StutterInv
  <1> QED
    BY <1>1, <1>2, <1>3, <1>4, <1>5 DEF Next

\* Every reachable state has the inductive invariant: the types, what each
\* request has established, and where the text of each message is on its way.
THEOREM Invariant == Spec => []IInv
  <1>1. Init => IInv
    BY InvInit
  <1>2. IInv /\ [Next]_vars => IInv'
    BY InvStep
  <1> QED
    BY <1>1, <1>2, PTL DEF Spec

\* The message tables, the bus and the requests keep their types: a row that
\* is read is never missing a field.
THEOREM TypesHold == Spec => []TypeOK
  <1>1. IInv => TypeOK
    BY DEF IInv
  <1> QED
    BY <1>1, Invariant, PTL

\* Once all is quiet and no call has failed, clients show what is stored of
\* every message that was changed by one request at a time, however many
\* requests, receipts and deliveries overlapped (README.md 173).
THEOREM ClientsInSync == Spec => []InSyncInTurn
  <1>1. IInv => InSyncInTurn
    <2> SUFFICES ASSUME IInv, Quiet, faults = 0, NEW m \in Msg \ raced
                 PROVE  shown[m] = Stored(m)
      BY DEF InSyncInTurn, Stored
    <2>1. SyncAt(m)
      BY DEF IInv, SyncInv
    <2>2. \A r \in Req : req[r].pc # "publish"
      BY IdleInv DEF Quiet
    <2>3. Shows(shown, bus, m, Stored(m))
      BY <2>1, <2>2 DEF SyncAt, WillShow
    <2>4. bus = <<>>
      BY DEF Quiet
    <2> QED
      BY <2>3, <2>4 DEF Shows
  <1> QED
    BY <1>1, Invariant, PTL

\* An error tells the caller that the request changed nothing, unless a call of
\* it failed half-way or the message belongs to another room than the URL's.
THEOREM ErrorsAreHonest == Spec => []ErrorMeansUnchanged
  <1>1. IInv => ErrorMeansUnchanged
    BY DEF IInv
  <1> QED
    BY <1>1, Invariant, PTL

\* A deletion is announced only of a message that is gone.
THEOREM AnnouncedIsGone == Spec => []DeletionsAreTrue
  <1>1. IInv => DeletionsAreTrue
    BY DEF IInv
  <1> QED
    BY <1>1, Invariant, PTL

\* A status past "sent" has a receipt, and a receipt its status, but for a
\* request between its two writes and for calls that fail.
THEOREM StatusAndReceipts == Spec => []StatusHasReceipt
  <1>1. IInv => StatusHasReceipt
    BY DEF IInv
  <1> QED
    BY <1>1, Invariant, PTL

\* What a call does to a row of a message.
LEMMA MessageStep ==
  ASSUME IInv, NEW r \in Req, Call(r), NEW m \in Msg, msg'[m] # msg[m]
  PROVE  \/ m = nextMsg
         \/ /\ req[r].id = m /\ req[r].pc \in {"update", "delete"}
            /\ msg[m] = None => msg'[m] = None
         \/ msg[m] # None /\ msg'[m] # None /\ msg'[m].text = msg[m].text
  <1> USE MessageAssumption
  <1>1. msg \in [Msg -> Row \cup {None}] /\ RequestInv(req[r])
    BY DEF IInv, TypeOK
  <1>2. ~FailAndReply(r)
    BY DEF FailAndReply, tables
  <1>3. ~(GetByID(r) \/ UpsertReceipt(r) \/ Publish(r) \/ LocalBroadcast(r))
    <2>1. ~GetByID(r)
      BY <1>2 DEF GetByID, tables
    <2>2. ~UpsertReceipt(r)
      BY <1>2 DEF UpsertReceipt
    <2>3. ~Publish(r)
      BY <1>2 DEF Publish, tables
    <2>4. ~LocalBroadcast(r)
      BY DEF LocalBroadcast, tables
    <2> QED
      BY <2>1, <2>2, <2>3, <2>4
  <1>4. ASSUME Create(r) PROVE m = nextMsg
    <2> PICK w : w = [room |-> req[r].room, sender |-> req[r].user,
                      text |-> req[r].text, status |-> "sent"]
      OBVIOUS
    <2>1. nextMsg \in Msg /\ msg' = [msg EXCEPT ![nextMsg] = w]
      BY <1>2, <1>4 DEF Create, tables
    <2> QED
      BY <1>1, <2>1
  <1>5. ASSUME UpdateContent(r)
        PROVE  /\ req[r].id = m /\ req[r].pc \in {"update", "delete"}
               /\ msg[m] = None => msg'[m] = None
    <2>1. msg' = SetText(r) /\ req[r].pc = "update"
      BY <1>2, <1>5 DEF UpdateContent
    <2>2. msg[req[r].id] # None /\ msg' = [msg EXCEPT ![req[r].id].text = req[r].text]
      BY <2>1 DEF SetText
    <2> QED
      BY <1>1, <2>1, <2>2
  <1>6. ASSUME DeleteRow(r)
        PROVE  /\ req[r].id = m /\ req[r].pc \in {"update", "delete"}
               /\ msg[m] = None => msg'[m] = None
    <2>1. msg' = [msg EXCEPT ![req[r].id] = None] /\ req[r].pc = "delete"
      BY <1>2, <1>6 DEF DeleteRow, WithoutRow
    <2> QED
      BY <1>1, <2>1
  <1>7. ASSUME UpdateStatus(r)
        PROVE  msg[m] # None /\ msg'[m] # None /\ msg'[m].text = msg[m].text
    <2> PICK n : n = req[r].id
      OBVIOUS
    <2> PICK a : a = MarkedAs(r)
      OBVIOUS
    <2>1. msg' = IF msg[n] = None THEN msg ELSE [msg EXCEPT ![n].status = a]
      BY <1>2, <1>7 DEF UpdateStatus
    <2>2. a \in {"delivered", "read"}
      BY DEF MarkedAs
    <2>3. msg[n] # None /\ msg' = [msg EXCEPT ![n].status = a]
      BY <2>1
    <2>4. n = m
      BY <1>1, <2>3
    <2>5. msg[m] \in Row /\ msg'[m] = [msg[m] EXCEPT !.status = a]
      BY <1>1, <2>3, <2>4
    <2>6. msg'[m] \in Row /\ msg'[m].text = msg[m].text
      BY <2>2, <2>5 DEF Row
    <2> QED
      BY <2>3, <2>4, <2>6, RowIsNotNone
  <1> QED
    BY <1>3, <1>4, <1>5, <1>6, <1>7 DEF Call

\* No step brings a deleted message or a receipt of it back.
THEOREM GoneForGood == Spec => DeletedStaysGone
  <1>1. ASSUME IInv, Next, NEW m \in Msg, m < nextMsg, msg[m] = None
        PROVE  msg'[m] = None
    <2>1. nextMsg \in Nat /\ m \in Nat
      BY <1>1 DEF IInv, TypeOK, Msg
    <2>2. CASE Deliver
      BY <1>1, <2>2 DEF Deliver, tables
    <2>3. ASSUME NEW rm \in Room, DropRoom(rm) PROVE msg'[m] = None
      BY <1>1, <2>3 DEF DropRoom
    <2>4. ASSUME NEW r \in Req, Arrive(r) PROVE msg' = msg
      BY <1>1, <2>4, MessageAssumption, ArriveStep DEF tables, IInv
    <2>5. ASSUME NEW r \in Req, Call(r) PROVE msg'[m] = None
      BY <1>1, <2>1, <2>5, MessageStep
    <2> QED
      BY <1>1, <2>2, <2>3, <2>4, <2>5 DEF Next
  <1>2. IInv /\ IInv' /\ [Next]_vars =>
          [\A m \in Msg : m < nextMsg /\ msg[m] = None =>
              msg'[m] = None /\ \A u \in User : receipt'[m][u] = "none"]_vars
    BY <1>1 DEF IInv, RowInv
  <1> QED
    BY <1>2, Invariant, PTL DEF Spec, DeletedStaysGone

\* No step changes a text or removes a row but for its sender, or with the room.
THEOREM SenderChanges == Spec => OnlySenderChanges
  <1>1. ASSUME IInv, Next, NEW m \in Msg, msg[m] # None,
               msg'[m] = None \/ msg'[m].text # msg[m].text,
               msg[m].room \notin dropped'
        PROVE  \E r \in Req : req[r].id = m /\ req[r].user = msg[m].sender
    <2>1. \A r \in Req : RequestInv(req[r])
      BY <1>1 DEF IInv
    <2>2. msg'[m] # msg[m] /\ m # nextMsg
      BY <1>1 DEF IInv, RowInv, TypeOK
    <2>3. ~Deliver
      BY <2>2 DEF Deliver, tables
    <2>4. \A rm \in Room : ~DropRoom(rm)
      BY <1>1, <2>2 DEF DropRoom
    <2>5. \A r \in Req : ~Arrive(r)
      BY <1>1, <2>2, MessageAssumption, ArriveStep DEF tables, IInv
    <2>6. PICK r \in Req : Call(r)
      BY <1>1, <2>3, <2>4, <2>5 DEF Next
    <2>7. req[r].id = m /\ req[r].pc \in {"update", "delete"}
      BY <1>1, <2>2, <2>6, MessageStep
    <2> QED
      BY <1>1, <2>1, <2>7 DEF RequestInv
  <1>2. IInv /\ [Next]_vars =>
          [\A m \in Msg :
              /\ msg[m] # None
              /\ msg'[m] = None \/ msg'[m].text # msg[m].text
              /\ msg[m].room \notin dropped'
              => \E r \in Req : req[r].id = m /\ req[r].user = msg[m].sender]_vars
    BY <1>1
  <1> QED
    BY <1>2, Invariant, PTL DEF Spec, OnlySenderChanges
=============================================================================
