------------------------------- MODULE Paging -------------------------------
(***************************************************************************)
(* Reading a room page by page, or the window around one message, while    *)
(* others send and delete: ListByRoom and ListAround of the message        *)
(* handler, service and repository.                                        *)
(*                                                                         *)
(* Rows are ordered by created_at alone.  The sender's process stamps a    *)
(* message before it inserts it, so rows may appear behind rows that were  *)
(* read already, and two may have one stamp, which the database then sorts *)
(* as it likes, each time anew.  Every query is one action.  A behaviour   *)
(* has one reader; its request changes nothing the writers see.            *)
(***************************************************************************)
EXTENDS Naturals, Sequences, FiniteSets, SequencesExt

CONSTANTS
    Message,
    Room,
    RoomOf,         \* the room of each message
    Limits,         \* limits a client asks for; 0 stands for none
    defaultListLimit,
    MaxStamp,       \* bound on the clock
    MaxDeletes      \* bound on the deletions

ASSUME PagingAssumption ==
    /\ IsFiniteSet(Message)
    /\ RoomOf \in [Message -> Room]
    /\ Limits \subseteq Nat
    /\ defaultListLimit \in Nat \ {0}
    /\ MaxStamp \in Nat \ {0}
    /\ MaxDeletes \in Nat

VARIABLES
    clock,      \* time.Now().UTC()
    created,    \* created_at of each message; 0 before Create stamps it
    table,      \* the rows of messages
    reader,     \* the request: operation, step, room, limit, anchor, page
    seen,       \* ListByRoom: what the pages showed, in order
    around,     \* ListAround: beforeMsgs, afterMsgs
    whole,      \* history: rows there since the reader's request began
    gone        \* history: rows deleted since then

writerVars == <<clock, created, table>>
resultVars == <<seen, around>>
vars == <<writerVars, reader, resultVars, whole, gone>>

NoReader == [op |-> "none", pc |-> "start"]

\* Every variable holds what its Go or column type allows; rows have stamps.
TypeOK ==
    /\ clock \in 1..MaxStamp
    /\ created \in [Message -> 0..MaxStamp]
    /\ table \subseteq {m \in Message : created[m] > 0}
    /\ \/ reader = NoReader
       \/ reader \in [op : {"list"}, pc : {"page", "done"}, room : Room,
                      limit : Nat \ {0}, page : Nat \ {0}]
       \/ reader \in [op : {"around"}, pc : {"target", "before", "after", "done", "missing"},
                      room : Room, limit : Nat \ {0}, anchor : Message]
    /\ seen \in Seq(Message)
    /\ around \in [before : Seq(Message), after : Seq(Message)]
    /\ whole \subseteq table /\ gone \cap table = {}

Init ==
    /\ clock = 1
    /\ created = [m \in Message |-> 0]
    /\ table = {}
    /\ reader = NoReader
    /\ seen = <<>> /\ around = [before |-> <<>>, after |-> <<>>]
    /\ whole = {} /\ gone = {}

-----------------------------------------------------------------------------
(***************************************************************************)
(* The writers.                                                            *)
(***************************************************************************)
Tick ==
    /\ clock < MaxStamp /\ clock' = clock + 1
    /\ UNCHANGED <<created, table, reader, resultVars, whole, gone>>

\* Create stamps the message ...
Stamp(m) ==
    /\ created[m] = 0
    /\ created' = [created EXCEPT ![m] = clock]
    /\ UNCHANGED <<clock, table, reader, resultVars, whole, gone>>

\* ... and inserts it.
Insert(m) ==
    /\ created[m] > 0 /\ m \notin table \cup gone
    /\ table' = table \cup {m}
    /\ UNCHANGED <<clock, created, reader, resultVars, whole, gone>>

\* A row deleted before the request began might as well never have been.
Delete(m) ==
    /\ m \in table /\ reader # NoReader /\ Cardinality(gone) < MaxDeletes
    /\ table' = table \ {m}
    /\ whole' = whole \ {m} /\ gone' = gone \cup {m}
    /\ UNCHANGED <<clock, created, reader, resultVars>>

-----------------------------------------------------------------------------
(***************************************************************************)
(* The queries.                                                            *)
(***************************************************************************)
InRoom(r) == {m \in table : RoomOf[m] = r}

Newest(s) == \A i \in 1..(Len(s) - 1) : created[s[i]] >= created[s[i + 1]]

\* What "ORDER BY created_at DESC" may return for these rows.
Sorted(rows) == {s \in SetToSeqs(rows) : Newest(s)}

MutantFullPage(page, limit) == page * limit

\* ListByRoom of the service.
Offset(page, limit) == (page - 1) * limit

Page(s, limit, offset) ==
    SubSeq(s, offset + 1, IF offset + limit > Len(s) THEN Len(s) ELSE offset + limit)

Begin(r) ==
    /\ reader = NoReader /\ reader' = r
    /\ whole' = table
    /\ UNCHANGED <<writerVars, resultVars, gone>>

MutantNoDefault(l) == l

\* The service's default for a limit the client left out.
LimitFor(l) == IF l = 0 THEN defaultListLimit ELSE l

StartList(r, l) ==
    Begin([op |-> "list", pc |-> "page", room |-> r, limit |-> LimitFor(l), page |-> 1])

\* One GET with its page number; the client goes on until a page is empty.
ListByRoom ==
    /\ reader.op = "list" /\ reader.pc = "page"
    /\ \E s \in Sorted(InRoom(reader.room)) :
          LET msgs == Page(s, reader.limit, Offset(reader.page, reader.limit))
          IN  /\ seen' = seen \o msgs
              /\ reader' = IF msgs = <<>> THEN [reader EXCEPT !.pc = "done"]
                           ELSE [reader EXCEPT !.page = @ + 1]
    /\ UNCHANGED <<writerVars, around, whole, gone>>

StartAround(r, m, l) ==
    Begin([op |-> "around", pc |-> "target", room |-> r, limit |-> LimitFor(l), anchor |-> m])

Goto(pc) == reader' = [reader EXCEPT !.pc = pc]

MutantHalfUp(limit) == (limit + 1) \div 2

\* ListAround of the service: how many rows on either side.
Before(limit) == limit \div 2

After(limit) ==
    IF limit < Before(limit) + 1 THEN 0 ELSE limit - Before(limit) - 1

\* ListAround of the repository: the anchor, in this room ...
AroundTarget ==
    /\ reader.op = "around" /\ reader.pc = "target"
    /\ IF reader.anchor \in InRoom(reader.room) THEN Goto("before") ELSE Goto("missing")
    /\ UNCHANGED <<writerVars, resultVars, whole, gone>>

MutantNotReversed(rows, n) == {Page(s, n, 0) : s \in Sorted(rows)}

\* The n newest rows, oldest first ...
LastOf(rows, n) == {Reverse(Page(s, n, 0)) : s \in Sorted(rows)}

MutantNewest(rows, n) == {Reverse(Page(s, n, 0)) : s \in Sorted(rows)}

\* ... and the n oldest.
FirstOf(rows, n) == {Page(Reverse(s), n, 0) : s \in Sorted(rows)}

\* ... the rows before it, newest first and then reversed ...
AroundBefore ==
    /\ reader.op = "around" /\ reader.pc = "before"
    /\ \E s \in LastOf({m \in InRoom(reader.room) : created[m] < created[reader.anchor]},
                       Before(reader.limit)) :
          around' = [around EXCEPT !.before = s]
    /\ Goto("after")
    /\ UNCHANGED <<writerVars, seen, whole, gone>>

\* ... and the rows after it.
AroundAfter ==
    /\ reader.op = "around" /\ reader.pc = "after"
    /\ \E s \in FirstOf({m \in InRoom(reader.room) : created[m] > created[reader.anchor]},
                        After(reader.limit)) :
          around' = [around EXCEPT !.after = s]
    /\ Goto("done")
    /\ UNCHANGED <<writerVars, seen, whole, gone>>

-----------------------------------------------------------------------------
Next ==
    \/ Tick
    \/ \E m \in Message : Stamp(m) \/ Insert(m) \/ Delete(m)
    \/ \E r \in Room, l \in Limits : StartList(r, l)
    \/ \E r \in Room, l \in Limits, m \in Message : StartAround(r, m, l)
    \/ ListByRoom
    \/ AroundTarget \/ AroundBefore \/ AroundAfter

Spec == Init /\ [][Next]_vars

-----------------------------------------------------------------------------
(***************************************************************************)
(* Safety.                                                                 *)
(***************************************************************************)
Tied(m) == \E n \in Message \ {m} : created[n] = created[m]

Done(op) == reader.op = op /\ reader.pc = "done"

\* message_repo.go 42-64 with service_impl.go 93-105: whoever pages to the end
\* has seen each message of the room that was there from the first page on,
\* however many arrived meanwhile, with whatever stamps: unless a newer one was
\* deleted, which moves the later pages up, or it shares its stamp.
ScanComplete ==
    Done("list") =>
        \A m \in whole : RoomOf[m] = reader.room /\ ~Tied(m) =>
            \/ m \in Range(seen)
            \/ \E d \in gone : RoomOf[d] = reader.room /\ created[d] >= created[m]

Window == around.before \o <<reader.anchor>> \o around.after

\* message_repo.go 66-143: the three queries of a window do not see one state
\* of the table.  The window is in order all the same, holds nothing twice, and
\* the messages on either side are on their side of the anchor.
WindowInOrder ==
    Done("around") =>
        /\ \A i, j \in DOMAIN Window :
              i < j => /\ Window[i] # Window[j]
                       /\ created[Window[i]] <= created[Window[j]]
        /\ Len(Window) <= reader.limit

\* Between the first and the last message of a window none is missing that was
\* there all the time, save one with the stamp of the anchor (the comparisons
\* of both queries are strict).
WindowHasNoHoles ==
    Done("around") =>
        \A m \in whole :
            /\ RoomOf[m] = reader.room
            /\ created[m] # created[reader.anchor]
            /\ created[Window[1]] < created[m]
            /\ created[m] < created[Window[Len(Window)]]
            => m \in Range(Window)

\* API_documentation.md 204, "half of the requested window is returned before
\* the anchor and half after": the halves differ by one at most, and one that is
\* short has everything there was all the time on its side.
WindowIsHalved ==
    Done("around") =>
        LET short == {m \in whole \ Range(Window) : RoomOf[m] = reader.room}
        IN  /\ Len(around.before) < (reader.limit - 1) \div 2 =>
                  \A m \in short : created[m] >= created[reader.anchor]
            /\ Len(around.after) < (reader.limit - 1) \div 2 =>
                  \A m \in short : created[m] <= created[reader.anchor]
            /\ \A n \in {Len(around.before), Len(around.after)} : 2 * n <= reader.limit

\* The invariant of ListAround (message_repo.go 66-143): types, and a window that
\* is in order, whole and in the middle.
WindowInv == TypeOK /\ WindowInOrder /\ WindowHasNoHoles /\ WindowIsHalved
=============================================================================
