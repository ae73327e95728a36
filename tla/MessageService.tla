--------------------------- MODULE MessageService ---------------------------
(***************************************************************************)
(* The message service (internal/domain/messages/service_impl.go) under    *)
(* its HTTP handler and its websocket caller: messages and receipts in     *)
(* Postgres, announcements on Redis, and what a user of one websocket node *)
(* is shown of them.                                                       *)
(*                                                                         *)
(* A request is a sequence of calls to the two stores with no transaction  *)
(* around them.  Each call is atomic and one action; the calls of          *)
(* different requests interleave.  A call may fail: the request then       *)
(* returns the error and keeps what it has already done.                   *)
(*                                                                         *)
(* Definitions named Mutant... are plausible bugs, never part of Spec: put *)
(* in place of the definition that follows, each must break a property.    *)
(***************************************************************************)
EXTENDS Naturals, Sequences, FiniteSets

CONSTANTS
    User,
    Room,
    Req,        \* request slots: how many requests are in flight at most
    None,       \* no row
    MaxMsgs,    \* bound: messages created
    MaxText,    \* bound: texts submitted by Send and Edit
    MaxFaults   \* bound: calls that fail

ASSUME MessageAssumption ==
    /\ MaxMsgs \in Nat /\ MaxText \in Nat /\ MaxFaults \in Nat
    /\ None \notin [room : Room, sender : User, text : Nat,
                    status : {"sent", "delivered", "read"}]
    /\ None \notin Room \cup User

Msg  == 1..MaxMsgs
Text == 1..MaxText      \* 0 stands for no text

Row == [room : Room, sender : User, text : Text,
        status : {"sent", "delivered", "read"}]

VARIABLES
    msg,        \* messages table: a Row or None
    receipt,    \* message_receipts: "none", "delivered", "read" (with seen_at)
    bus,        \* Redis: announcements on their way to the node
    dropped,    \* rooms that were deleted
    shown,      \* the text a client of the node displays, 0 for none
    req,        \* the request in each slot
    nextMsg, nextText,
    faults,
    reply,      \* history, of the last answer: the status code, whether the
                \* request changed a row, whether the message was found in
                \* another room than the URL's, whether a call of it failed
    announced,  \* history: messages whose deletion was published
    raced       \* history: messages that two requests were changing at once, or
                \* that went with their room

tables == <<msg, receipt, dropped>>
ids    == <<nextMsg, nextText>>
hist   == <<reply, announced, raced>>
vars   == <<tables, bus, shown, req, ids, faults, hist>>

\* An announcement: a message's row, or its deletion (text 0).
Event == [id : Msg, text : Text \cup {0}]

Op == {"none", "Send", "WsSend", "Edit", "Delete", "MarkDelivered", "MarkRead"}

Pc == {"idle", "create", "get", "update", "delete", "publish", "local",
       "upsert", "status"}

\* room: of the URL; text: what was submitted and will be published;
\* found: room of the row the service returned; wrote: a row was changed.
Request == [op : Op, pc : Pc, user : User \cup {None}, room : Room \cup {None},
            id : Msg \cup {0}, text : Text \cup {0},
            found : Room \cup {None}, wrote : BOOLEAN]

Idle == [op |-> "none", pc |-> "idle", user |-> None, room |-> None, id |-> 0,
         text |-> 0, found |-> None, wrote |-> FALSE]

\* Types.
TypeOK ==
    /\ msg \in [Msg -> Row \cup {None}]
    /\ receipt \in [Msg -> [User -> {"none", "delivered", "read"}]]
    /\ bus \in Seq(Event)
    /\ dropped \subseteq Room
    /\ shown \in [Msg -> Text \cup {0}]
    /\ req \in [Req -> Request]
    /\ nextMsg \in 1..(MaxMsgs + 1) /\ nextText \in 1..(MaxText + 1)
    /\ faults \in 0..MaxFaults
    /\ reply \in [code : {0, 200, 403, 404, 500}, wrote : BOOLEAN, failed : BOOLEAN,
                  elsewhere : BOOLEAN]
    /\ announced \subseteq Msg /\ raced \subseteq Msg

Init ==
    /\ msg = [m \in Msg |-> None]
    /\ receipt = [m \in Msg |-> [u \in User |-> "none"]]
    /\ bus = <<>>
    /\ dropped = {}
    /\ shown = [m \in Msg |-> 0]
    /\ req = [r \in Req |-> Idle]
    /\ nextMsg = 1 /\ nextText = 1
    /\ faults = 0
    /\ reply = [code |-> 0, wrote |-> FALSE, failed |-> FALSE, elsewhere |-> FALSE]
    /\ announced = {} /\ raced = {}

-----------------------------------------------------------------------------
Go(r, pc) == req' = [req EXCEPT ![r].pc = pc]

\* The handler's answer: 200 stands for any success.
Reply(r, code, wrote) ==
    /\ req' = [req EXCEPT ![r] = Idle]
    /\ reply' = [code |-> code, wrote |-> wrote, failed |-> faults' # faults,
                 elsewhere |-> req[r].found \notin {None, req[r].room}]

Works == faults' = faults
Fails == faults < MaxFaults /\ faults' = faults + 1

\* The call fails: mapMessageError knows no such error, so 500.
FailAndReply(r) ==
    /\ Fails /\ Reply(r, 500, req[r].wrote)
    /\ UNCHANGED <<tables, bus, shown, ids, announced, raced>>

-----------------------------------------------------------------------------
(***************************************************************************)
(* Requests arrive.  Blank texts and identifiers are refused before any    *)
(* call and change nothing.  Any message that exists or existed may be     *)
(* named, in the URL of any room.                                          *)
(***************************************************************************)
Start(r, new) ==
    /\ req[r] = Idle
    /\ req' = [req EXCEPT ![r] = new]
    /\ UNCHANGED <<tables, bus, shown, nextMsg, faults, reply, announced>>

\* A Send, Edit or Delete of m is under way.
Changing(m) ==
    \E q \in Req : req[q].id = m /\ req[q].op \in {"Send", "WsSend", "Edit", "Delete"}

Race(m) == raced' = IF Changing(m) THEN raced \cup {m} ELSE raced

NewText == nextText \in Text /\ nextText' = nextText + 1

StartSend(r, o, u, rm) ==
    /\ nextMsg \in Msg /\ NewText
    /\ Start(r, [Idle EXCEPT !.op = o, !.pc = "create", !.user = u, !.room = rm,
                             !.text = nextText])
    /\ UNCHANGED raced

StartEdit(r, u, rm, m) ==
    /\ m < nextMsg /\ NewText
    /\ Start(r, [Idle EXCEPT !.op = "Edit", !.pc = "get", !.user = u, !.room = rm,
                             !.id = m, !.text = nextText])
    /\ Race(m)

StartDelete(r, u, rm, m) ==
    /\ m < nextMsg
    /\ Start(r, [Idle EXCEPT !.op = "Delete", !.pc = "get", !.user = u, !.room = rm,
                             !.id = m])
    /\ Race(m) /\ UNCHANGED nextText

StartMark(r, o, u, m) ==
    /\ m < nextMsg
    /\ Start(r, [Idle EXCEPT !.op = o, !.pc = "upsert", !.user = u, !.id = m])
    /\ UNCHANGED <<nextText, raced>>

-----------------------------------------------------------------------------
(***************************************************************************)
(* Send: insert, which needs the room (foreign key), then publish; a       *)
(* websocket sender goes on to broadcast the row on its own node.          *)
(***************************************************************************)
Create(r) ==
    /\ req[r].pc = "create"
    /\ \/ /\ Works /\ req[r].room \notin dropped
          /\ nextMsg \in Msg /\ nextMsg' = nextMsg + 1
          /\ msg' = [msg EXCEPT ![nextMsg] =
                       [room |-> req[r].room, sender |-> req[r].user,
                        text |-> req[r].text, status |-> "sent"]]
          /\ req' = [req EXCEPT ![r].pc = "publish", ![r].id = nextMsg,
                                ![r].found = req[r].room, ![r].wrote = TRUE]
          /\ UNCHANGED <<receipt, dropped, bus, shown, nextText, hist>>
       \/ /\ Works /\ req[r].room \in dropped
          /\ Reply(r, 500, FALSE)
          /\ UNCHANGED <<tables, bus, shown, ids, announced, raced>>
       \/ FailAndReply(r)

-----------------------------------------------------------------------------
(***************************************************************************)
(* Edit and Delete: read the row, compare its sender, then write.          *)
(***************************************************************************)
MutantAnyone(r) == TRUE

MayChange(r) == msg[req[r].id].sender = req[r].user

GetByID(r) ==
    /\ req[r].pc = "get"
    /\ \/ /\ Works /\ msg[req[r].id] = None
          /\ Reply(r, 404, FALSE)
          /\ UNCHANGED <<tables, bus, shown, ids, announced, raced>>
       \/ /\ Works /\ msg[req[r].id] # None /\ ~MayChange(r)
          /\ Reply(r, 403, FALSE)
          /\ UNCHANGED <<tables, bus, shown, ids, announced, raced>>
       \/ /\ Works /\ msg[req[r].id] # None /\ MayChange(r)
          /\ req' = [req EXCEPT ![r].pc = IF req[r].op = "Edit" THEN "update" ELSE "delete",
                                ![r].found = msg[req[r].id].room]
          /\ UNCHANGED <<tables, bus, shown, ids, hist>>
       \/ FailAndReply(r)

\* An UPDATE of a row that is gone returns no row, an error like any other.
MutantUpsert(r) ==
    [msg EXCEPT ![req[r].id] =
        [room |-> req[r].found, sender |-> req[r].user, text |-> req[r].text,
         status |-> "sent"]]

SetText(r) ==
    IF msg[req[r].id] = None THEN msg
    ELSE [msg EXCEPT ![req[r].id].text = req[r].text]

UpdateContent(r) ==
    /\ req[r].pc = "update"
    /\ \/ /\ Works
          /\ msg' = SetText(r)
          /\ IF msg[req[r].id] = None
             THEN Reply(r, 500, FALSE)
             ELSE /\ req' = [req EXCEPT ![r].pc = "publish", ![r].wrote = TRUE]
                  /\ UNCHANGED reply
          /\ UNCHANGED <<receipt, dropped, bus, shown, ids, announced, raced>>
       \/ FailAndReply(r)

\* A DELETE takes the receipts with it (ON DELETE CASCADE) and does not say
\* whether there was a row.
MutantSoftDelete(m) == msg

WithoutRow(m) == [msg EXCEPT ![m] = None]

DeleteRow(r) ==
    /\ req[r].pc = "delete"
    /\ LET m == req[r].id
       IN  \/ /\ Works
              /\ msg' = WithoutRow(m)
              /\ receipt' = [receipt EXCEPT ![m] = [u \in User |-> "none"]]
              /\ req' = [req EXCEPT ![r].pc = "publish", ![r].wrote = msg[m] # None]
              /\ UNCHANGED <<dropped, bus, shown, ids, hist>>
           \/ FailAndReply(r)

\* The room service deletes a room: its messages and their receipts go with it
\* (ON DELETE CASCADE), and no message.deleted is published.
DropRoom(rm) ==
    /\ rm \notin dropped /\ dropped' = dropped \cup {rm}
    /\ LET its == {m \in Msg : msg[m] # None /\ msg[m].room = rm}
       IN  /\ msg' = [m \in Msg |-> IF m \in its THEN None ELSE msg[m]]
           /\ receipt' = [m \in Msg |-> IF m \in its THEN [u \in User |-> "none"]
                                        ELSE receipt[m]]
           /\ raced' = raced \cup its
    /\ UNCHANGED <<bus, shown, req, ids, faults, reply, announced>>

-----------------------------------------------------------------------------
(***************************************************************************)
(* publishRoomEvent, and the comparison of rooms that the handlers of Edit *)
(* and Delete make only now.                                               *)
(***************************************************************************)
MutantOldText(r) == [id |-> req[r].id, text |-> 1]

Announcement(r) == [id |-> req[r].id, text |-> req[r].text]

MutantReread(r) == Reply(r, IF msg[req[r].id] # None THEN 200 ELSE 404, req[r].wrote)

Answer(r) == Reply(r, IF req[r].found = req[r].room THEN 200 ELSE 404, req[r].wrote)

Publish(r) ==
    /\ req[r].pc = "publish"
    /\ \/ /\ Works
          /\ bus' = Append(bus, Announcement(r))
          /\ announced' = IF req[r].op = "Delete" THEN announced \cup {req[r].id}
                          ELSE announced
          /\ IF req[r].op = "WsSend" THEN Go(r, "local") /\ UNCHANGED reply
             ELSE Answer(r)
          /\ UNCHANGED <<tables, shown, ids, raced>>
       \/ FailAndReply(r)

\* A client displays the latest text it was sent, until a deletion.
Show(e) == shown' = [shown EXCEPT ![e.id] = e.text]

\* handleSendMessage broadcasts the row it got back.
LocalBroadcast(r) ==
    /\ req[r].pc = "local"
    /\ Works /\ Show(Announcement(r)) /\ Answer(r)
    /\ UNCHANGED <<tables, bus, ids, announced, raced>>

\* Relay and hub pass announcements on in the order of Redis (module Hub).
Deliver ==
    /\ bus # <<>>
    /\ Show(Head(bus)) /\ bus' = Tail(bus)
    /\ UNCHANGED <<tables, req, ids, faults, hist>>

-----------------------------------------------------------------------------
(***************************************************************************)
(* MarkDelivered and MarkRead: the receipt, then the message's status.     *)
(***************************************************************************)
MutantSent(r) == "sent"

MarkedAs(r) == IF req[r].op = "MarkRead" THEN "read" ELSE "delivered"

MutantNoReceipt(r) == receipt

\* ON CONFLICT DO UPDATE overwrites status and seen_at.
NewReceipt(r) == [receipt EXCEPT ![req[r].id][req[r].user] = MarkedAs(r)]

\* A receipt needs its message (foreign key).
UpsertReceipt(r) ==
    /\ req[r].pc = "upsert"
    /\ \/ /\ Works
          /\ IF msg[req[r].id] = None
             THEN Reply(r, 500, FALSE) /\ UNCHANGED receipt
             ELSE /\ req' = [req EXCEPT ![r].pc = "status", ![r].wrote = TRUE]
                  /\ receipt' = NewReceipt(r)
                  /\ UNCHANGED reply
          /\ UNCHANGED <<msg, dropped, bus, shown, ids, announced, raced>>
       \/ FailAndReply(r)

UpdateStatus(r) ==
    /\ req[r].pc = "status"
    /\ LET m == req[r].id
       IN  \/ /\ Works /\ Reply(r, 200, TRUE)
              /\ msg' = IF msg[m] = None THEN msg
                        ELSE [msg EXCEPT ![m].status = MarkedAs(r)]
              /\ UNCHANGED <<receipt, dropped, bus, shown, ids, announced, raced>>
           \/ FailAndReply(r)

-----------------------------------------------------------------------------
Arrive(r) ==
    \E u \in User :
        \/ \E rm \in Room : \/ \E o \in {"Send", "WsSend"} : StartSend(r, o, u, rm)
                            \/ \E m \in Msg : StartEdit(r, u, rm, m) \/ StartDelete(r, u, rm, m)
        \/ \E o \in {"MarkDelivered", "MarkRead"}, m \in Msg : StartMark(r, o, u, m)

Call(r) ==
    \/ Create(r) \/ GetByID(r) \/ UpdateContent(r) \/ DeleteRow(r)
    \/ Publish(r) \/ LocalBroadcast(r) \/ UpsertReceipt(r) \/ UpdateStatus(r)

Next ==
    \/ Deliver
    \/ \E rm \in Room : DropRoom(rm)
    \/ \E r \in Req : Arrive(r) \/ Call(r)

Spec == Init /\ [][Next]_vars

-----------------------------------------------------------------------------
(***************************************************************************)
(* Properties.                                                             *)
(***************************************************************************)

\* API_documentation.md 214, "Only the original sender can edit", and 223: the
\* sender is compared with a row read earlier (service_impl.go 197-208, 236-247);
\* still no step ever changes a text or removes a row but for its sender, or
\* with the whole room.
OnlySenderChanges ==
    [][\A m \in Msg :
          /\ msg[m] # None
          /\ msg'[m] = None \/ msg'[m].text # msg[m].text
          /\ msg[m].room \notin dropped'
          => \E r \in Req : req[r].id = m /\ req[r].user = msg[m].sender]_vars

\* An Edit, a MarkDelivered or a MarkRead that overlaps a Delete, of the message
\* or of its room, does not bring the row or a receipt of it back.
DeletedStaysGone ==
    [][\A m \in Msg :
          m < nextMsg /\ msg[m] = None =>
              msg'[m] = None /\ \A u \in User : receipt'[m][u] = "none"]_vars

\* A deletion is announced only of a message that is gone (service_impl.go
\* 240-257), so clients never drop a message that is still stored.
DeletionsAreTrue == \A m \in announced : msg[m] = None

\* A message whose status is past "sent" has a receipt that says so: the receipt
\* is written first and only the deletion of the message removes it.
StatusHasReceipt ==
    \A m \in Msg : msg[m] # None =>
        /\ msg[m].status # "sent" => \E u \in User : receipt[m][u] # "none"
        /\ msg[m].status = "sent" =>
              \A u \in User : receipt[m][u] # "none" =>
                  \/ faults > 0
                  \/ \E r \in Req : req[r].pc = "status" /\ req[r].id = m

\* Nothing is under way.
Quiet == bus = <<>> /\ \A r \in Req : req[r] = Idle

\* README.md 173, "Events route through Redis so WebSocket nodes stay in sync
\* with HTTP-originated actions": when nothing is under way and no call has
\* failed, clients show the stored text of every stored message and none of the
\* deleted ones, however requests overlapped with receipts, with the delivery of
\* earlier announcements and, for a websocket sender, with its own second copy
\* (client.go 222).  Not so of a message that two requests were changing at once
\* (they may publish in another order than they wrote, service_impl.go 207-216),
\* nor of one that went with its room, for which nothing is published.
InSyncInTurn ==
    Quiet /\ faults = 0 => \A m \in Msg \ raced :
        shown[m] = IF msg[m] = None THEN 0 ELSE msg[m].text

\* mapMessageError (helpers.go 115-132) and the handlers: a caller who is told of
\* an error can rely on nothing having been changed by the request, whatever
\* overlapped it, unless a call to a store failed half-way or the message belongs
\* to another room than the one in the URL (message_handler.go 206 and 234 look
\* only after the change).
ErrorMeansUnchanged ==
    reply.code \in {403, 404, 500} /\ reply.wrote => reply.failed \/ reply.elsewhere
=============================================================================
