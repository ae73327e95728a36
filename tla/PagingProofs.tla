---------------------------- MODULE PagingProofs ----------------------------
(***************************************************************************)
(* Theorems about Paging: what a scan of a room and a window around a      *)
(* message show, for every set of messages and rooms, every limit, every   *)
(* clock and any number of deletions.                                      *)
(***************************************************************************)
EXTENDS Paging, FiniteSetTheorems, SequenceTheorems, WellFoundedInduction, TLAPS

(***************************************************************************)
(* The inductive invariant.                                                *)
(***************************************************************************)

\* What was deleted, and whatever the window was opened around, had a stamp.
StampInv ==
    /\ gone \subseteq {d \in Message : created[d] > 0}
    /\ reader.op = "around" /\ reader.pc \in {"before", "after", "done"} =>
          created[reader.anchor] > 0

Newer(m) == {n \in InRoom(reader.room) : created[n] > created[m]}

\* A newer message of the room was deleted under the reader.
Shifted(m) == \E d \in gone : RoomOf[d] = reader.room /\ created[d] >= created[m]

\* A message the scan has not shown has at least as many newer ones before it
\* as the pages read so far: the next page does not begin behind it.
ListInv ==
    reader.op = "list" =>
        \A m \in whole : RoomOf[m] = reader.room /\ ~Tied(m) =>
            \/ m \in Range(seen)
            \/ Shifted(m)
            \/ /\ reader.pc = "page"
               /\ Cardinality(Newer(m)) >= Offset(reader.page, reader.limit)

\* Rows, oldest first, none twice.
Oldest(s) ==
    \A i, j \in DOMAIN s : i < j => s[i] # s[j] /\ created[s[i]] <= created[s[j]]

\* The older half: what it leaves out is older than all of it, and left out
\* because it is full.
BeforeInv ==
    reader.op = "around" /\ reader.pc \in {"after", "done"} =>
        LET s == around.before IN
        /\ Oldest(s) /\ Len(s) <= Before(reader.limit)
        /\ \A i \in DOMAIN s : created[s[i]] \in 1..(created[reader.anchor] - 1)
        /\ \A m \in whole :
              RoomOf[m] = reader.room /\ created[m] < created[reader.anchor] =>
                \/ m \in Range(s)
                \/ /\ Len(s) = Before(reader.limit)
                   /\ \A i \in DOMAIN s : created[m] <= created[s[i]]

\* The newer half: what it leaves out is newer than all of it.
AfterInv ==
    reader.op = "around" /\ reader.pc = "done" =>
        LET s == around.after IN
        /\ Oldest(s) /\ Len(s) <= After(reader.limit)
        /\ \A i \in DOMAIN s : created[s[i]] > created[reader.anchor]
        /\ \A m \in whole :
              RoomOf[m] = reader.room /\ created[m] > created[reader.anchor] =>
                \/ m \in Range(s)
                \/ /\ Len(s) = After(reader.limit)
                   /\ \A i \in DOMAIN s : created[m] >= created[s[i]]

IInv == TypeOK /\ StampInv /\ ListInv /\ BeforeInv /\ AfterInv

-----------------------------------------------------------------------------
(***************************************************************************)
(* Numbers.                                                                *)
(***************************************************************************)

\* A set of numbers that is not empty has a least one.
LEMMA LeastNat ==
  ASSUME NEW T \in SUBSET Nat, T # {}
  PROVE  \E n \in T : \A m \in T : n <= m
  <1> DEFINE F == {1..n : n \in T}
  <1>1. IsWellFoundedOn(StrictSubsetOrdering(Nat), FiniteSubsetsOf(Nat))
    BY FS_StrictSubsetOrderingWellFounded
  <1>2. F \subseteq FiniteSubsetsOf(Nat)
    <2> SUFFICES ASSUME NEW n \in T PROVE 1..n \in FiniteSubsetsOf(Nat)
      OBVIOUS
    <2>1. IsFiniteSet(1..n)
      BY FS_Interval
    <2> QED
      BY <2>1 DEF FiniteSubsetsOf
  <1>3. F # {}
    OBVIOUS
  <1>4. PICK x \in F : \A y \in F : <<y, x>> \notin StrictSubsetOrdering(Nat)
    <2> HIDE DEF F
    <2> QED
      BY <1>1, <1>2, <1>3, WFMin
  <1>5. PICK n \in T : x = 1..n
    OBVIOUS
  <1>6. ASSUME NEW m \in T, m < n PROVE FALSE
    <2>1. 1..m \subseteq 1..n /\ n \in 1..n /\ n \notin 1..m
      BY <1>6
    <2>2. <<1..m, 1..n>> \in StrictSubsetOrdering(Nat)
      BY <2>1 DEF StrictSubsetOrdering
    <2> QED
      BY <2>2, <1>4, <1>5
  <1> QED
    BY <1>6

\* A page further, the offset is a page further.
LEMMA NextOffset ==
  ASSUME NEW page \in Nat \ {0}, NEW limit \in Nat \ {0}
  PROVE  /\ Offset(page, limit) \in Nat
         /\ Offset(1, limit) = 0
         /\ Offset(page + 1, limit) = Offset(page, limit) + limit
  BY DEF Offset

\* The halves of a window, and the anchor, make up the limit.
LEMMA Halves ==
  ASSUME NEW limit \in Nat \ {0}
  PROVE  /\ Before(limit) \in Nat /\ After(limit) \in Nat
         /\ Before(limit) + 1 + After(limit) = limit
         /\ After(limit) = (limit - 1) \div 2
         /\ 2 * Before(limit) <= limit
         /\ (limit - 1) \div 2 <= Before(limit)
         /\ 2 * After(limit) <= limit
  BY DEF Before, After

-----------------------------------------------------------------------------
(***************************************************************************)
(* What ORDER BY returns.                                                  *)
(***************************************************************************)

\* A result holds each row once and nothing else, and is in order throughout,
\* not only from one row to the next.
LEMMA SortedRows ==
  ASSUME created \in [Message -> Nat], NEW rows \in SUBSET Message,
         NEW s \in Sorted(rows)
  PROVE  /\ s \in Seq(Message) /\ DOMAIN s = 1..Len(s)
         /\ Range(s) = rows
         /\ \A i, j \in DOMAIN s : i # j => s[i] # s[j]
         /\ \A i, j \in DOMAIN s : i <= j => created[s[i]] >= created[s[j]]
  <1>1. IsFiniteSet(rows)
    BY FS_Subset, PagingAssumption DEF PagingAssumption
  <1>2. PICK n \in Nat : n = Cardinality(rows)
    BY <1>1, FS_CardinalityType
  <1>3. /\ s \in [1..n -> rows]
        /\ \A i, j \in 1..n : i # j => s[i] # s[j]
        /\ Newest(s)
    BY <1>2 DEF Sorted, SetToSeqs
  <1>4. s \in Seq(Message) /\ Len(s) = n /\ DOMAIN s = 1..n
    BY <1>3
  <1>5. Range(s) = rows
    <2>1. s \in Injection(1..n, rows)
      BY <1>3 DEF Injection, IsInjective
    <2>2. Cardinality(1..n) = n
      BY FS_Interval
    <2>3. s \in Surjection(1..n, rows)
      BY <1>1, <1>2, <2>1, <2>2, FS_Injection
    <2> QED
      BY <2>3, <1>4 DEF Surjection, Range
  <1>6. ASSUME NEW i \in 1..n, NEW j \in 1..n, i <= j
        PROVE  created[s[i]] >= created[s[j]]
    <2> DEFINE T == {k \in i..n : created[s[i]] < created[s[k]]}
    <2>1. SUFFICES ASSUME T # {} PROVE FALSE
      <3>1. \A k \in 1..n : created[s[k]] \in Nat
        BY <1>3
      <3> QED
        BY <1>6, <2>1, <3>1
    <2>2. PICK k \in T : \A m \in T : k <= m
      <3>1. T \in SUBSET Nat
        OBVIOUS
      <3> HIDE DEF T
      <3> QED
        BY <2>1, <3>1, LeastNat
    <2>3. \A m \in 1..n : created[s[m]] \in Nat
      BY <1>3
    <2>4. k \in i..n /\ k # i
      BY <2>2, <2>3
    <2>5. k - 1 \in i..n /\ k - 1 \notin T
      BY <2>2, <2>4
    <2>6. created[s[k - 1]] >= created[s[k]]
      <3>1. k - 1 \in 1..(n - 1)
        BY <2>4
      <3>2. created[s[k - 1]] >= created[s[(k - 1) + 1]]
        BY <1>3, <1>4, <3>1 DEF Newest
      <3> QED
        BY <2>4, <3>2
    <2> QED
      BY <2>2, <2>3, <2>4, <2>5, <2>6
  <1> QED
    BY <1>3, <1>4, <1>5, <1>6

\* How many rows stand before a row that no other is tied with.
LEMMA NewerBefore ==
  ASSUME created \in [Message -> Nat], NEW rows \in SUBSET Message,
         NEW s \in Sorted(rows), NEW k \in DOMAIN s, ~Tied(s[k])
  PROVE  Cardinality({n \in rows : created[n] > created[s[k]]}) = k - 1
  <1> DEFINE N == {n \in rows : created[n] > created[s[k]]}
             f == [i \in 1..(k - 1) |-> s[i]]
  <1>1. /\ s \in Seq(Message) /\ DOMAIN s = 1..Len(s)
        /\ Range(s) = rows
        /\ \A i, j \in DOMAIN s : i # j => s[i] # s[j]
        /\ \A i, j \in DOMAIN s : i <= j => created[s[i]] >= created[s[j]]
    BY SortedRows
  <1>2. \A i \in DOMAIN s : s[i] \in rows /\ s[i] \in Message /\ created[s[i]] \in Nat
    BY <1>1 DEF Range
  <1>3. \A i \in 1..(k - 1) : i \in DOMAIN s /\ f[i] \in N
    <2> SUFFICES ASSUME NEW i \in 1..(k - 1) PROVE i \in DOMAIN s /\ s[i] \in N
      OBVIOUS
    <2>1. i \in DOMAIN s /\ i <= k /\ i # k
      BY <1>1
    <2>2. created[s[i]] # created[s[k]]
      BY <1>1, <1>2, <2>1 DEF Tied
    <2>3. created[s[i]] >= created[s[k]]
      BY <1>1, <2>1
    <2> QED
      BY <1>2, <2>1, <2>2, <2>3
  <1>4. ASSUME NEW n \in N PROVE \E i \in 1..(k - 1) : f[i] = n
    <2>1. PICK i \in DOMAIN s : s[i] = n
      BY <1>1 DEF Range
    <2>2. ~(k <= i)
      BY <1>1, <1>2, <2>1
    <2>3. i \in 1..(k - 1)
      BY <1>1, <2>2
    <2> QED
      BY <2>1, <2>3
  <1>5. f \in Surjection(1..(k - 1), N)
    BY <1>3, <1>4 DEF Surjection
  <1>6. f \in Injection(1..(k - 1), N)
    BY <1>1, <1>3 DEF Injection, IsInjective
  <1>7. IsFiniteSet(1..(k - 1)) /\ Cardinality(1..(k - 1)) = k - 1
    <2>1. PICK x \in Nat : x = k - 1
      BY <1>1, LenProperties
    <2>2. IsFiniteSet(1..x) /\ Cardinality(1..x) = x
      BY FS_Interval
    <2> QED
      BY <2>1, <2>2
  <1> HIDE DEF f, N
  <1>8. Cardinality(N) = k - 1
    BY <1>5, <1>6, <1>7, FS_Surjection
  <1> QED
    BY <1>8 DEF N

-----------------------------------------------------------------------------
(***************************************************************************)
(* What a page is cut from.                                                *)
(***************************************************************************)

\* A page is the rows from one position to another, as many as fit.
LEMMA PageRows ==
  ASSUME NEW s \in Seq(Message), NEW limit \in Nat, NEW offset \in Nat
  PROVE  /\ Page(s, limit, offset) \in Seq(Message)
         /\ \A k \in 1..Len(s) :
               offset < k /\ k <= offset + limit => s[k] \in Range(Page(s, limit, offset))
         /\ Page(s, limit, offset) = <<>> => limit = 0 \/ Len(s) <= offset
  <1> DEFINE n == IF offset + limit > Len(s) THEN Len(s) ELSE offset + limit
             p == SubSeq(s, offset + 1, n)
  <1>1. Len(s) \in Nat /\ n \in Nat /\ n <= Len(s)
    BY LenProperties
  <1>2. p \in Seq(Message)
    BY <1>1
  <1>3. ASSUME NEW k \in 1..Len(s), offset < k, k <= offset + limit
        PROVE  s[k] \in Range(p)
    <2>1. k - offset \in 1..(n - offset) /\ k <= n
      BY <1>1, <1>3
    <2>2. Len(p) = n - offset
      BY <1>1, <2>1
    <2>3. k - offset \in DOMAIN p
      BY <1>2, <2>1, <2>2
    <2>4. p[k - offset] = s[k]
      <3> PICK j \in Nat : j = k - offset
        BY <2>1
      <3>1. p[j] = s[offset + 1 + j - 1]
        BY <1>1, <2>1
      <3>2. offset + 1 + j - 1 = k
        OBVIOUS
      <3> QED
        BY <3>1, <3>2
    <2> QED
      BY <2>3, <2>4 DEF Range
  <1>4. ASSUME p = <<>>, limit # 0, ~(Len(s) <= offset) PROVE FALSE
    <2>1. offset + 1 <= n
      BY <1>1, <1>4
    <2>2. Len(p) = n - offset
      BY <1>1, <2>1
    <2> QED
      BY <1>1, <1>4, <2>1, <2>2
  <1> QED
    BY <1>2, <1>3, <1>4 DEF Page

\* What a page is appended to keeps what it shows.
LEMMA Appended ==
  ASSUME NEW s \in Seq(Message), NEW t \in Seq(Message)
  PROVE  /\ s \o t \in Seq(Message)
         /\ Range(s) \subseteq Range(s \o t) /\ Range(t) \subseteq Range(s \o t)
  <1> DEFINE a == s \o t
  <1>1. /\ Len(s) \in Nat /\ Len(t) \in Nat
        /\ DOMAIN s = 1..Len(s) /\ DOMAIN t = 1..Len(t)
    BY LenProperties
  <1>2. a \in Seq(Message) /\ DOMAIN a = 1..(Len(s) + Len(t))
    BY <1>1
  <1>3. ASSUME NEW i \in 1..Len(s) PROVE s[i] \in Range(a)
    <2>1. i \in DOMAIN a
      BY <1>1, <1>2
    <2>2. a[i] = s[i]
      OBVIOUS
    <2> QED
      BY <2>1, <2>2 DEF Range
  <1>4. ASSUME NEW i \in 1..Len(t) PROVE t[i] \in Range(a)
    <2>1. Len(s) + i \in DOMAIN a
      BY <1>1, <1>2
    <2>2. a[Len(s) + i] = t[i]
      BY <1>1
    <2> QED
      BY <2>1, <2>2 DEF Range
  <1> QED
    BY <1>1, <1>2, <1>3, <1>4 DEF Range

\* The first page of a sequence, read from position to position.
LEMMA FirstPage ==
  ASSUME NEW s \in Seq(Message), NEW n \in Nat
  PROVE  /\ Page(s, n, 0) \in Seq(Message)
         /\ Len(Page(s, n, 0)) = IF n > Len(s) THEN Len(s) ELSE n
         /\ \A i \in 1..Len(Page(s, n, 0)) : Page(s, n, 0)[i] = s[i]
  <1>1. PICK k \in Nat : k = IF n > Len(s) THEN Len(s) ELSE n
    BY LenProperties
  <1>2. k <= Len(s) /\ Page(s, n, 0) = SubSeq(s, 1, k)
    BY <1>1 DEF Page
  <1>3. Len(SubSeq(s, 1, k)) = k
    BY <1>2
  <1>4. \A i \in 1..k : SubSeq(s, 1, k)[i] = s[i]
    BY <1>2
  <1>5. SubSeq(s, 1, k) \in Seq(Message)
    BY <1>2
  <1> QED
    BY <1>1, <1>2, <1>3, <1>4, <1>5

\* Turned around, a sequence has its positions counted from the end.
LEMMA Reversed ==
  ASSUME NEW s \in Seq(Message)
  PROVE  /\ Reverse(s) \in Seq(Message) /\ Len(Reverse(s)) = Len(s)
         /\ \A i \in 1..Len(s) :
               Len(s) - i + 1 \in 1..Len(s) /\ Reverse(s)[i] = s[Len(s) - i + 1]
  <1>1. Len(s) \in Nat /\ \A i \in 1..Len(s) : s[i] \in Message
    BY LenProperties, ElementOfSeq
  <1>2. \A i \in 1..Len(s) : Len(s) - i + 1 \in 1..Len(s)
    BY <1>1
  <1>3. Reverse(s) \in [1..Len(s) -> Message]
    BY <1>1, <1>2 DEF Reverse
  <1> QED
    BY <1>1, <1>2, <1>3 DEF Reverse

\* The n newest rows: in order, and what is missing is older than all of them
\* and missing because there are n.
LEMMA LastRows ==
  ASSUME created \in [Message -> Nat], NEW rows \in SUBSET Message,
         NEW n \in Nat, NEW s \in LastOf(rows, n)
  PROVE  /\ s \in Seq(Message) /\ Oldest(s) /\ Len(s) <= n
         /\ \A i \in DOMAIN s : s[i] \in rows
         /\ \A m \in rows : \/ m \in Range(s)
                            \/ Len(s) = n /\ \A i \in DOMAIN s : created[m] <= created[s[i]]
  <1>1. PICK t \in Sorted(rows) : s = Reverse(Page(t, n, 0))
    BY DEF LastOf
  <1>2. /\ t \in Seq(Message) /\ DOMAIN t = 1..Len(t)
        /\ Range(t) = rows
        /\ \A i, j \in DOMAIN t : i # j => t[i] # t[j]
        /\ \A i, j \in DOMAIN t : i <= j => created[t[i]] >= created[t[j]]
    BY SortedRows
  <1>3. PICK p \in Seq(Message) : p = Page(t, n, 0)
    BY <1>2, FirstPage
  <1>4. /\ Len(p) = IF n > Len(t) THEN Len(t) ELSE n
        /\ \A i \in 1..Len(p) : p[i] = t[i]
    BY <1>2, <1>3, FirstPage
  <1>5. /\ s \in Seq(Message) /\ Len(s) = Len(p)
        /\ \A i \in 1..Len(p) :
              Len(p) - i + 1 \in 1..Len(p) /\ s[i] = p[Len(p) - i + 1]
    BY <1>1, <1>3, Reversed
  <1>6. Len(p) \in Nat /\ Len(t) \in Nat /\ Len(p) <= Len(t) /\ Len(p) <= n
    BY <1>2, <1>4, LenProperties
  <1>7. \A i \in 1..Len(p) :
           Len(p) - i + 1 \in 1..Len(t) /\ s[i] = t[Len(p) - i + 1]
    <2> SUFFICES ASSUME NEW i \in 1..Len(p)
                 PROVE  Len(p) - i + 1 \in 1..Len(t) /\ s[i] = t[Len(p) - i + 1]
      OBVIOUS
    <2>1. PICK j \in 1..Len(p) : j = Len(p) - i + 1
      BY <1>5
    <2>2. s[i] = p[j] /\ p[j] = t[j]
      BY <1>4, <1>5, <2>1
    <2> QED
      BY <1>6, <2>1, <2>2
  <1>8. DOMAIN s = 1..Len(p)
    BY <1>5
  <1>9. ASSUME NEW m \in rows, m \notin Range(s)
        PROVE  Len(s) = n /\ \A i \in DOMAIN s : created[m] <= created[s[i]]
    <2>1. PICK k \in 1..Len(t) : t[k] = m
      BY <1>2 DEF Range
    <2>2. ~(k <= Len(p))
      <3>1. SUFFICES ASSUME k <= Len(p) PROVE FALSE
        OBVIOUS
      <3>2. Len(p) - k + 1 \in 1..Len(p) /\ Len(p) - (Len(p) - k + 1) + 1 = k
        BY <1>6, <3>1
      <3>3. s[Len(p) - k + 1] = t[k]
        BY <1>7, <3>2
      <3> QED
        BY <1>8, <1>9, <2>1, <3>2, <3>3 DEF Range
    <2>3. Len(s) = n
      BY <1>4, <1>5, <1>6, <2>2
    <2>4. ASSUME NEW i \in 1..Len(p) PROVE created[m] <= created[s[i]]
      <3>1. Len(p) - i + 1 \in 1..Len(t) /\ Len(p) - i + 1 <= k
        BY <1>6, <1>7, <2>2
      <3>2. created[t[Len(p) - i + 1]] >= created[t[k]]
        BY <1>2, <3>1
      <3>3. created[m] \in Nat /\ created[s[i]] \in Nat
        BY <1>5, <1>8, ElementOfSeq
      <3> QED
        BY <1>7, <2>1, <3>2, <3>3
    <2> QED
      BY <1>8, <2>3, <2>4
  <1>10. Oldest(s)
    <2> SUFFICES ASSUME NEW i \in 1..Len(p), NEW j \in 1..Len(p), i < j
                 PROVE  s[i] # s[j] /\ created[s[i]] <= created[s[j]]
      BY <1>8 DEF Oldest
    <2>1. /\ Len(p) - j + 1 <= Len(p) - i + 1 /\ Len(p) - j + 1 # Len(p) - i + 1
          /\ Len(p) - j + 1 \in DOMAIN t /\ Len(p) - i + 1 \in DOMAIN t
      BY <1>2, <1>6, <1>7
    <2>2. created[t[Len(p) - j + 1]] >= created[t[Len(p) - i + 1]]
      BY <1>2, <2>1
    <2>3. created[s[i]] \in Nat /\ created[s[j]] \in Nat
      BY <1>5, <1>8, ElementOfSeq
    <2> QED
      BY <1>2, <1>7, <2>1, <2>2, <2>3
  <1>11. \A i \in DOMAIN s : s[i] \in rows
    BY <1>2, <1>7, <1>8 DEF Range
  <1> QED
    BY <1>5, <1>6, <1>9, <1>10, <1>11

\* The n oldest rows, likewise.
LEMMA FirstRows ==
  ASSUME created \in [Message -> Nat], NEW rows \in SUBSET Message,
         NEW n \in Nat, NEW s \in FirstOf(rows, n)
  PROVE  /\ s \in Seq(Message) /\ Oldest(s) /\ Len(s) <= n
         /\ \A i \in DOMAIN s : s[i] \in rows
         /\ \A m \in rows : \/ m \in Range(s)
                            \/ Len(s) = n /\ \A i \in DOMAIN s : created[m] >= created[s[i]]
  <1>1. PICK t \in Sorted(rows) : s = Page(Reverse(t), n, 0)
    BY DEF FirstOf
  <1>2. /\ t \in Seq(Message) /\ DOMAIN t = 1..Len(t)
        /\ Range(t) = rows
        /\ \A i, j \in DOMAIN t : i # j => t[i] # t[j]
        /\ \A i, j \in DOMAIN t : i <= j => created[t[i]] >= created[t[j]]
    BY SortedRows
  <1>3. PICK p \in Seq(Message) : p = Reverse(t)
    BY <1>2, Reversed
  <1>4. /\ Len(p) = Len(t) /\ Len(t) \in Nat
        /\ \A i \in 1..Len(t) : Len(t) - i + 1 \in 1..Len(t) /\ p[i] = t[Len(t) - i + 1]
    BY <1>2, <1>3, Reversed, LenProperties
  <1>5. /\ s \in Seq(Message)
        /\ Len(s) = IF n > Len(t) THEN Len(t) ELSE n
        /\ \A i \in 1..Len(s) : s[i] = p[i]
    BY <1>1, <1>3, <1>4, FirstPage
  <1>6. Len(s) \in Nat /\ Len(s) <= Len(t) /\ Len(s) <= n /\ DOMAIN s = 1..Len(s)
    BY <1>4, <1>5, LenProperties
  <1>7. \A i \in 1..Len(s) :
           Len(t) - i + 1 \in 1..Len(t) /\ s[i] = t[Len(t) - i + 1]
    BY <1>4, <1>5, <1>6
  <1>8. ASSUME NEW m \in rows, m \notin Range(s)
        PROVE  Len(s) = n /\ \A i \in DOMAIN s : created[m] >= created[s[i]]
    <2>1. PICK k \in 1..Len(t) : t[k] = m
      BY <1>2 DEF Range
    <2>2. Len(t) - k + 1 > Len(s)
      <3>1. SUFFICES ASSUME Len(t) - k + 1 <= Len(s) PROVE FALSE
        BY <1>4, <1>6
      <3>2. /\ Len(t) - k + 1 \in 1..Len(s)
            /\ Len(t) - (Len(t) - k + 1) + 1 = k
        BY <1>4, <3>1
      <3>3. s[Len(t) - k + 1] = t[k]
        BY <1>7, <3>2
      <3> QED
        BY <1>6, <1>8, <2>1, <3>2, <3>3 DEF Range
    <2>3. Len(s) = n
      BY <1>4, <1>5, <1>6, <2>2
    <2>4. ASSUME NEW i \in 1..Len(s) PROVE created[m] >= created[s[i]]
      <3>1. Len(t) - i + 1 \in 1..Len(t) /\ k <= Len(t) - i + 1
        BY <1>4, <1>6, <1>7, <2>2
      <3>2. created[t[k]] >= created[t[Len(t) - i + 1]]
        BY <1>2, <3>1
      <3> QED
        BY <1>7, <2>1, <3>2
    <2> QED
      BY <1>6, <2>3, <2>4
  <1>9. Oldest(s)
    <2> SUFFICES ASSUME NEW i \in 1..Len(s), NEW j \in 1..Len(s), i < j
                 PROVE  s[i] # s[j] /\ created[s[i]] <= created[s[j]]
      BY <1>6 DEF Oldest
    <2>1. /\ Len(t) - j + 1 <= Len(t) - i + 1 /\ Len(t) - j + 1 # Len(t) - i + 1
          /\ Len(t) - j + 1 \in DOMAIN t /\ Len(t) - i + 1 \in DOMAIN t
      <3>1. Len(t) - j + 1 \in 1..Len(t) /\ Len(t) - i + 1 \in 1..Len(t)
        BY <1>7
      <3> QED
        BY <1>2, <1>4, <1>6, <3>1
    <2>2. created[t[Len(t) - j + 1]] >= created[t[Len(t) - i + 1]]
      BY <1>2, <2>1
    <2>3. created[s[i]] \in Nat /\ created[s[j]] \in Nat
      BY <1>5, <1>6, ElementOfSeq
    <2> QED
      BY <1>2, <1>7, <2>1, <2>2, <2>3
  <1>10. \A i \in DOMAIN s : s[i] \in rows
    BY <1>2, <1>6, <1>7 DEF Range
  <1> QED
    BY <1>5, <1>6, <1>8, <1>9, <1>10

-----------------------------------------------------------------------------
(***************************************************************************)
(* Steps of the writers.                                                   *)
(***************************************************************************)
Writers == Tick \/ \E m \in Message : Stamp(m) \/ Insert(m) \/ Delete(m)

\* Rows and stamps are what the lemmas above ask for.
LEMMA Rows ==
  ASSUME TypeOK
  PROVE  /\ created \in [Message -> Nat] /\ table \subseteq Message
         /\ \A m \in table : created[m] > 0
         /\ \A r \in Room : InRoom(r) \in SUBSET Message /\ IsFiniteSet(InRoom(r))
  <1>1. /\ created \in [Message -> Nat] /\ table \subseteq Message
        /\ \A m \in table : created[m] > 0
    BY PagingAssumption DEF TypeOK, PagingAssumption
  <1>2. ASSUME NEW r \in Room
        PROVE  InRoom(r) \in SUBSET Message /\ IsFiniteSet(InRoom(r))
    <2>1. InRoom(r) \in SUBSET Message
      BY <1>1 DEF InRoom
    <2> QED
      BY <2>1, FS_Subset, PagingAssumption DEF PagingAssumption
  <1> QED
    BY <1>1, <1>2

\* What a request is made of.
LEMMA Request ==
  ASSUME TypeOK
  PROVE  /\ reader.op = "list" =>
               reader \in [op : {"list"}, pc : {"page", "done"}, room : Room,
                           limit : Nat \ {0}, page : Nat \ {0}]
         /\ reader.op = "around" =>
               reader \in [op : {"around"},
                           pc : {"target", "before", "after", "done", "missing"},
                           room : Room, limit : Nat \ {0}, anchor : Message]
  BY DEF TypeOK, NoReader

\* A writer touches neither the request nor its results; a stamp stays, and a
\* row that leaves the table is gone.
LEMMA WriterStep ==
  ASSUME TypeOK, Writers
  PROVE  /\ TypeOK'
         /\ UNCHANGED <<reader, resultVars>>
         /\ whole' \subseteq whole /\ gone \subseteq gone'
         /\ table \subseteq table' \cup gone' /\ gone' \subseteq gone \cup table
         /\ \A m \in Message : created[m] > 0 => created'[m] = created[m]
  <1> USE DEF resultVars
  <1>1. CASE Tick
    BY <1>1, PagingAssumption DEF Tick, TypeOK, PagingAssumption
  <1>2. ASSUME NEW m \in Message, Stamp(m)
        PROVE  /\ TypeOK'
               /\ UNCHANGED <<reader, resultVars>>
               /\ whole' \subseteq whole /\ gone \subseteq gone'
               /\ table \subseteq table' \cup gone' /\ gone' \subseteq gone \cup table
               /\ \A k \in Message : created[k] > 0 => created'[k] = created[k]
    <2>1. /\ created[m] = 0 /\ created' = [created EXCEPT ![m] = clock]
          /\ UNCHANGED <<clock, table, reader, seen, around, whole, gone>>
      BY <1>2 DEF Stamp
    <2>2. \A k \in Message : created[k] > 0 => created'[k] = created[k]
      BY <2>1 DEF TypeOK
    <2>3. created' \in [Message -> 0..MaxStamp]
      BY <2>1 DEF TypeOK
    <2>4. table' \subseteq {k \in Message : created'[k] > 0}
      BY <2>1, <2>2 DEF TypeOK
    <2>5. TypeOK'
      BY <2>1, <2>3, <2>4 DEF TypeOK
    <2> QED
      BY <2>1, <2>2, <2>5
  <1>3. ASSUME NEW m \in Message, Insert(m)
        PROVE  /\ TypeOK'
               /\ UNCHANGED <<reader, resultVars>>
               /\ whole' \subseteq whole /\ gone \subseteq gone'
               /\ table \subseteq table' \cup gone' /\ gone' \subseteq gone \cup table
               /\ \A k \in Message : created[k] > 0 => created'[k] = created[k]
    BY <1>3 DEF Insert, TypeOK
  <1>4. ASSUME NEW m \in Message, Delete(m)
        PROVE  /\ TypeOK'
               /\ UNCHANGED <<reader, resultVars>>
               /\ whole' \subseteq whole /\ gone \subseteq gone'
               /\ table \subseteq table' \cup gone' /\ gone' \subseteq gone \cup table
               /\ \A k \in Message : created[k] > 0 => created'[k] = created[k]
    BY <1>4 DEF Delete, TypeOK
  <1> QED
    BY <1>1, <1>2, <1>3, <1>4 DEF Writers

\* Stamps never come to differ that were the same.
LEMMA TiedStays ==
  ASSUME TypeOK, Writers, NEW m \in Message, created[m] > 0, Tied(m)
  PROVE  Tied(m)'
  <1>1. PICK n \in Message \ {m} : created[n] = created[m]
    BY DEF Tied
  <1>2. created'[n] = created[n] /\ created'[m] = created[m]
    BY <1>1, WriterStep
  <1> QED
    BY <1>1, <1>2 DEF Tied

\* A scan is safe from the writers: a row before the reader's place stays there
\* or leaves it by a deletion the scan accounts for.
LEMMA ListWriter ==
  ASSUME TypeOK, StampInv, ListInv, Writers
  PROVE  ListInv'
  <1>1. /\ TypeOK' /\ reader' = reader /\ seen' = seen
        /\ whole' \subseteq whole /\ gone \subseteq gone'
        /\ table \subseteq table' \cup gone'
        /\ \A k \in Message : created[k] > 0 => created'[k] = created[k]
    BY WriterStep DEF resultVars
  <1>2. /\ created \in [Message -> Nat] /\ table \subseteq Message
        /\ \A k \in table : created[k] > 0
        /\ whole \subseteq table
    BY Rows DEF TypeOK
  <1>3. SUFFICES ASSUME reader.op = "list",
                        NEW m \in whole', RoomOf[m] = reader.room, ~Tied(m)',
                        m \notin Range(seen), ~Shifted(m)'
                 PROVE  /\ reader.pc = "page"
                        /\ Cardinality(Newer(m)') >= Offset(reader.page, reader.limit)
    BY <1>1 DEF ListInv
  <1>4. m \in table /\ m \in Message /\ created[m] > 0 /\ created'[m] = created[m]
    BY <1>1, <1>2, <1>3
  <1>5. ~Tied(m)
    BY <1>3, <1>4, TiedStays
  <1>6. ~Shifted(m)
    BY <1>1, <1>3, <1>4 DEF Shifted, StampInv
  <1>7. /\ reader.pc = "page"
        /\ Cardinality(Newer(m)) >= Offset(reader.page, reader.limit)
    BY <1>1, <1>3, <1>5, <1>6 DEF ListInv
  <1>8. Newer(m) \subseteq Newer(m)'
    <2> SUFFICES ASSUME NEW n \in table, RoomOf[n] = reader.room, created[n] > created[m]
                 PROVE  n \in Newer(m)'
      BY DEF Newer, InRoom
    <2>1. created[n] > 0 /\ created'[n] = created[n]
      BY <1>1, <1>2
    <2>2. n \notin gone'
      BY <1>1, <1>2, <1>3, <1>4, <2>1 DEF Shifted
    <2> QED
      BY <1>1, <1>4, <2>1, <2>2 DEF Newer, InRoom
  <1>9. IsFiniteSet(Newer(m)')
    <2>1. Newer(m)' \subseteq Message
      BY <1>1 DEF Newer, InRoom, TypeOK
    <2> QED
      BY <2>1, FS_Subset, PagingAssumption DEF PagingAssumption
  <1>10. Cardinality(Newer(m)') \in Nat /\ Cardinality(Newer(m)) \in Nat
         /\ Cardinality(Newer(m)) <= Cardinality(Newer(m)')
    BY <1>8, <1>9, FS_Subset, FS_CardinalityType
  <1>11. Offset(reader.page, reader.limit) \in Nat
    BY <1>3, Request, NextOffset
  <1> QED
    BY <1>7, <1>10, <1>11

\* So is a window: its rows keep their stamps, and what it was to show can only
\* become less.
LEMMA AroundWriter ==
  ASSUME TypeOK, StampInv, BeforeInv, AfterInv, Writers
  PROVE  StampInv' /\ BeforeInv' /\ AfterInv'
  <1>1. /\ reader' = reader /\ around' = around
        /\ whole' \subseteq whole
        /\ gone' \subseteq gone \cup table
        /\ \A k \in Message : created[k] > 0 => created'[k] = created[k]
    BY WriterStep DEF resultVars
  <1>2. /\ created \in [Message -> Nat] /\ table \subseteq Message
        /\ \A k \in table : created[k] > 0
        /\ whole \subseteq table
        /\ around \in [before : Seq(Message), after : Seq(Message)]
    BY Rows DEF TypeOK
  <1>3. /\ \A k \in gone : k \in Message /\ created[k] > 0
        /\ \A k \in table : k \in Message /\ created[k] > 0
    BY <1>2 DEF StampInv
  <1>4. StampInv'
    <2>1. \A k \in gone' : k \in Message /\ created'[k] > 0
      BY <1>1, <1>3
    <2>2. reader.op = "around" => reader.anchor \in Message
      BY Request
    <2> QED
      BY <1>1, <2>1, <2>2 DEF StampInv
  <1>5. ASSUME reader.op = "around", reader.pc \in {"after", "done"}
        PROVE  BeforeInv'
    <2> PICK s \in Seq(Message) : s = around.before
      BY <1>2
    <2> PICK a \in Message : a = reader.anchor
      BY <1>5, Request
    <2>1. created[a] > 0 /\ created'[a] = created[a]
      BY <1>1, <1>5 DEF StampInv
    <2>2. /\ Oldest(s) /\ Len(s) <= Before(reader.limit)
          /\ \A i \in DOMAIN s : created[s[i]] \in 1..(created[a] - 1)
          /\ \A m \in whole : RoomOf[m] = reader.room /\ created[m] < created[a] =>
                \/ m \in Range(s)
                \/ /\ Len(s) = Before(reader.limit)
                   /\ \A i \in DOMAIN s : created[m] <= created[s[i]]
      BY <1>5 DEF BeforeInv
    <2>3. \A i \in DOMAIN s : s[i] \in Message /\ created'[s[i]] = created[s[i]]
      BY <1>1, <2>2, ElementOfSeq
    <2>4. \A m \in whole' : m \in whole /\ created'[m] = created[m]
      BY <1>1, <1>2
    <2>5. \A i, j \in DOMAIN s : i < j => s[i] # s[j] /\ created'[s[i]] <= created'[s[j]]
      BY <2>2, <2>3 DEF Oldest
    <2>6. \A i \in DOMAIN s : created'[s[i]] \in 1..(created'[a] - 1)
      BY <2>1, <2>2, <2>3
    <2>7. \A m \in whole' : RoomOf[m] = reader.room /\ created'[m] < created'[a] =>
             \/ m \in Range(s)
             \/ /\ Len(s) = Before(reader.limit)
                /\ \A i \in DOMAIN s : created'[m] <= created'[s[i]]
      BY <2>1, <2>2, <2>3, <2>4
    <2> QED
      BY <1>1, <2>2, <2>5, <2>6, <2>7 DEF BeforeInv, Oldest
  <1>6. ASSUME reader.op = "around", reader.pc = "done"
        PROVE  AfterInv'
    <2> PICK s \in Seq(Message) : s = around.after
      BY <1>2
    <2> PICK a \in Message : a = reader.anchor
      BY <1>6, Request
    <2>1. created[a] > 0 /\ created'[a] = created[a]
      BY <1>1, <1>6 DEF StampInv
    <2>2. /\ Oldest(s) /\ Len(s) <= After(reader.limit)
          /\ \A i \in DOMAIN s : created[s[i]] > created[a]
          /\ \A m \in whole : RoomOf[m] = reader.room /\ created[m] > created[a] =>
                \/ m \in Range(s)
                \/ /\ Len(s) = After(reader.limit)
                   /\ \A i \in DOMAIN s : created[m] >= created[s[i]]
      BY <1>6 DEF AfterInv
    <2>3. \A i \in DOMAIN s : s[i] \in Message /\ created'[s[i]] = created[s[i]]
      <3>1. \A i \in DOMAIN s : s[i] \in Message
        BY ElementOfSeq
      <3>2. \A i \in DOMAIN s : created[s[i]] > 0
        BY <1>2, <2>1, <2>2, <3>1
      <3> QED
        BY <1>1, <3>1, <3>2
    <2>4. \A m \in whole' : m \in whole /\ created'[m] = created[m]
      BY <1>1, <1>2
    <2>5. \A i, j \in DOMAIN s : i < j => s[i] # s[j] /\ created'[s[i]] <= created'[s[j]]
      BY <2>2, <2>3 DEF Oldest
    <2>6. \A i \in DOMAIN s : created'[s[i]] > created'[a]
      BY <2>1, <2>2, <2>3
    <2>7. \A m \in whole' : RoomOf[m] = reader.room /\ created'[m] > created'[a] =>
             \/ m \in Range(s)
             \/ /\ Len(s) = After(reader.limit)
                /\ \A i \in DOMAIN s : created'[m] >= created'[s[i]]
      BY <2>1, <2>2, <2>3, <2>4
    <2> QED
      BY <1>1, <2>2, <2>5, <2>6, <2>7 DEF AfterInv, Oldest
  <1> QED
    BY <1>1, <1>4, <1>5, <1>6 DEF BeforeInv, AfterInv

-----------------------------------------------------------------------------
(***************************************************************************)
(* Steps of the reader.                                                    *)
(***************************************************************************)

LEMMA InitOK == Init => IInv
  BY PagingAssumption
  DEF Init, IInv, TypeOK, StampInv, ListInv, BeforeInv, AfterInv, NoReader, PagingAssumption

\* A first page has nothing before it.
LEMMA StartListOK ==
  ASSUME IInv, NEW r \in Room, NEW l \in Limits, StartList(r, l)
  PROVE  IInv'
  <1> PICK n \in Nat \ {0} : n = LimitFor(l)
    BY PagingAssumption DEF LimitFor, PagingAssumption
  <1>1. /\ reader' = [op |-> "list", pc |-> "page", room |-> r, limit |-> n, page |-> 1]
        /\ whole' = table
        /\ UNCHANGED <<clock, created, table, seen, around, gone>>
    BY DEF StartList, Begin, writerVars, resultVars
  <1>2. TypeOK'
    BY <1>1 DEF IInv, TypeOK
  <1>3. StampInv' /\ BeforeInv' /\ AfterInv'
    BY <1>1 DEF IInv, StampInv, BeforeInv, AfterInv
  <1>4. ASSUME NEW m \in whole'
        PROVE  Cardinality(Newer(m)') >= Offset(1, n)
    <2>1. Newer(m)' \subseteq Message
      BY <1>2 DEF Newer, InRoom, TypeOK
    <2>2. Cardinality(Newer(m)') \in Nat
      BY <2>1, FS_Subset, FS_CardinalityType, PagingAssumption DEF PagingAssumption
    <2>3. Offset(1, n) = 0
      BY NextOffset
    <2> QED
      BY <2>2, <2>3
  <1>5. ListInv'
    BY <1>1, <1>4 DEF ListInv
  <1> QED
    BY <1>2, <1>3, <1>5 DEF IInv

LEMMA StartAroundOK ==
  ASSUME IInv, NEW r \in Room, NEW m \in Message, NEW l \in Limits, StartAround(r, m, l)
  PROVE  IInv'
  <1> PICK n \in Nat \ {0} : n = LimitFor(l)
    BY PagingAssumption DEF LimitFor, PagingAssumption
  <1>1. /\ reader' = [op |-> "around", pc |-> "target", room |-> r, limit |-> n, anchor |-> m]
        /\ whole' = table
        /\ UNCHANGED <<clock, created, table, seen, around, gone>>
    BY DEF StartAround, Begin, writerVars, resultVars
  <1> QED
    BY <1>1 DEF IInv, TypeOK, StampInv, ListInv, BeforeInv, AfterInv

\* A page shows every message that has fewer newer ones before it than the
\* pages up to and with it hold; an empty one ends the scan, and then nobody is
\* left.
LEMMA ListByRoomOK ==
  ASSUME IInv, ListByRoom
  PROVE  IInv'
  <1> PICK r \in Room, n \in Nat \ {0}, p \in Nat \ {0} :
         reader = [op |-> "list", pc |-> "page", room |-> r, limit |-> n, page |-> p]
    <2>1. reader \in [op : {"list"}, pc : {"page", "done"}, room : Room,
                      limit : Nat \ {0}, page : Nat \ {0}]
          /\ reader.pc = "page"
      BY Request DEF ListByRoom, IInv
    <2> QED
      BY <2>1
  <1> PICK s \in Sorted(InRoom(r)) :
         LET msgs == Page(s, n, Offset(p, n))
         IN  /\ seen' = seen \o msgs
             /\ reader' = IF msgs = <<>> THEN [reader EXCEPT !.pc = "done"]
                          ELSE [reader EXCEPT !.page = @ + 1]
    BY DEF ListByRoom
  <1> PICK q : q = Page(s, n, Offset(p, n))
    OBVIOUS
  <1>1. /\ q = Page(s, n, Offset(p, n))
        /\ seen' = seen \o q
        /\ reader' = IF q = <<>> THEN [reader EXCEPT !.pc = "done"]
                     ELSE [reader EXCEPT !.page = @ + 1]
        /\ UNCHANGED <<clock, created, table, around, whole, gone>>
    BY DEF ListByRoom, writerVars
  <1>2. /\ created \in [Message -> Nat] /\ InRoom(r) \in SUBSET Message
        /\ seen \in Seq(Message) /\ whole \subseteq table
    BY Rows DEF IInv, TypeOK
  <1>3. /\ s \in Seq(Message) /\ DOMAIN s = 1..Len(s) /\ Range(s) = InRoom(r)
    BY <1>2, SortedRows
  <1>4. PICK o \in Nat : o = Offset(p, n) /\ Offset(p + 1, n) = o + n
    BY NextOffset
  <1>5. /\ q \in Seq(Message)
        /\ \A k \in 1..Len(s) : o < k /\ k <= o + n => s[k] \in Range(q)
        /\ q = <<>> => Len(s) <= o
    <2>1. q = Page(s, n, o) /\ n \in Nat /\ n # 0
      BY <1>4
    <2> QED
      BY <1>3, <2>1, PageRows
  <1>6. /\ seen' \in Seq(Message)
        /\ Range(seen) \subseteq Range(seen') /\ Range(q) \subseteq Range(seen')
    BY <1>1, <1>2, <1>5, Appended
  <1>7. TypeOK'
    <2>1. reader' \in [op : {"list"}, pc : {"page", "done"}, room : Room,
                       limit : Nat \ {0}, page : Nat \ {0}]
      <3>1. CASE q = <<>>
        BY <1>1, <3>1
      <3>2. CASE q # <<>>
        BY <1>1, <3>2
      <3> QED
        BY <3>1, <3>2
    <2> QED
      BY <1>1, <1>6, <2>1 DEF IInv, TypeOK
  <1>8. StampInv' /\ BeforeInv' /\ AfterInv'
    BY <1>1 DEF IInv, StampInv, BeforeInv, AfterInv
  <1>9. ASSUME NEW m \in whole, RoomOf[m] = r, ~Tied(m),
               m \notin Range(seen'), ~Shifted(m)
        PROVE  q # <<>> /\ Cardinality(Newer(m)) >= Offset(p + 1, n)
    <2>1. Cardinality(Newer(m)) >= o
      BY <1>4, <1>6, <1>9 DEF IInv, ListInv
    <2>2. PICK k \in 1..Len(s) : s[k] = m
      BY <1>2, <1>3, <1>9 DEF Range, InRoom
    <2>3. Cardinality(Newer(m)) = k - 1
      <3>1. k \in DOMAIN s /\ ~Tied(s[k])
        BY <1>3, <1>9, <2>2
      <3>2. Cardinality({x \in InRoom(r) : created[x] > created[s[k]]}) = k - 1
        BY <1>2, <3>1, NewerBefore
      <3> QED
        BY <2>2, <3>2 DEF Newer
    <2>4. ~(o < k /\ k <= o + n)
      BY <1>5, <1>6, <1>9, <2>2
    <2>5. k > o + n
      BY <2>1, <2>3, <2>4
    <2> QED
      BY <1>3, <1>4, <1>5, <2>3, <2>5, LenProperties
  <1>10. ListInv'
    <2>1. reader'.room = r /\ reader'.limit = n
      BY <1>1
    <2> SUFFICES ASSUME NEW m \in whole', RoomOf[m] = r, ~Tied(m)',
                        m \notin Range(seen'), ~Shifted(m)'
                 PROVE  /\ reader'.pc = "page"
                        /\ Cardinality(Newer(m)') >= Offset(reader'.page, reader'.limit)
      BY <2>1 DEF ListInv
    <2>2. /\ m \in whole /\ ~Tied(m) /\ ~Shifted(m)
          /\ Newer(m)' = Newer(m)
      BY <1>1, <2>1 DEF Tied, Shifted, Newer, InRoom
    <2>3. reader' = [reader EXCEPT !.page = p + 1]
      BY <1>1, <1>9, <2>2
    <2>4. reader'.pc = "page" /\ reader'.page = p + 1
      BY <2>3
    <2> QED
      BY <1>9, <2>1, <2>2, <2>4
  <1> QED
    BY <1>7, <1>8, <1>10 DEF IInv

\* The anchor is a row when it is found.
LEMMA AroundTargetOK ==
  ASSUME IInv, AroundTarget
  PROVE  IInv'
  <1> PICK r \in Room, n \in Nat \ {0}, a \in Message :
         reader = [op |-> "around", pc |-> "target", room |-> r, limit |-> n, anchor |-> a]
    <2>1. reader \in [op : {"around"}, pc : {"target", "before", "after", "done", "missing"},
                      room : Room, limit : Nat \ {0}, anchor : Message]
          /\ reader.pc = "target"
      BY Request DEF AroundTarget, IInv
    <2> QED
      BY <2>1
  <1>1. /\ reader' = [reader EXCEPT !.pc = IF a \in InRoom(r) THEN "before" ELSE "missing"]
        /\ UNCHANGED <<clock, created, table, seen, around, whole, gone>>
    BY DEF AroundTarget, Goto, writerVars, resultVars
  <1>2. a \in InRoom(r) => created[a] > 0
    BY Rows DEF InRoom, IInv
  <1> QED
    BY <1>1, <1>2 DEF IInv, TypeOK, StampInv, ListInv, BeforeInv, AfterInv

\* The older half is what LastRows says of the rows older than the anchor.
LEMMA AroundBeforeOK ==
  ASSUME IInv, AroundBefore
  PROVE  IInv'
  <1> PICK r \in Room, n \in Nat \ {0}, a \in Message :
         reader = [op |-> "around", pc |-> "before", room |-> r, limit |-> n, anchor |-> a]
    <2>1. reader \in [op : {"around"}, pc : {"target", "before", "after", "done", "missing"},
                      room : Room, limit : Nat \ {0}, anchor : Message]
          /\ reader.pc = "before"
      BY Request DEF AroundBefore, IInv
    <2> QED
      BY <2>1
  <1> PICK rows : rows = {m \in InRoom(r) : created[m] < created[a]}
    OBVIOUS
  <1>1. PICK s \in LastOf(rows, Before(n)) :
          /\ around' = [around EXCEPT !.before = s]
          /\ reader' = [reader EXCEPT !.pc = "after"]
          /\ UNCHANGED <<clock, created, table, seen, whole, gone>>
    BY DEF AroundBefore, Goto, writerVars
  <1>2. /\ created \in [Message -> Nat] /\ rows \in SUBSET Message
        /\ \A m \in rows : created[m] > 0 /\ created[m] < created[a]
        /\ whole \subseteq table
    BY Rows DEF IInv, TypeOK, InRoom
  <1>3. Before(n) \in Nat
    BY Halves
  <1>4. /\ s \in Seq(Message) /\ Oldest(s) /\ Len(s) <= Before(n)
        /\ \A i \in DOMAIN s : s[i] \in rows
        /\ \A m \in rows : \/ m \in Range(s)
                           \/ /\ Len(s) = Before(n)
                              /\ \A i \in DOMAIN s : created[m] <= created[s[i]]
    BY <1>1, <1>2, <1>3, LastRows
  <1>5. around'.before = s /\ around' \in [before : Seq(Message), after : Seq(Message)]
    BY <1>1, <1>4 DEF IInv, TypeOK
  <1>6. TypeOK'
    BY <1>1, <1>5 DEF IInv, TypeOK
  <1>7. StampInv' /\ ListInv' /\ AfterInv'
    BY <1>1 DEF IInv, StampInv, ListInv, AfterInv
  <1>8. \A i \in DOMAIN s : created[s[i]] \in 1..(created[a] - 1)
    BY <1>2, <1>4
  <1>9. \A m \in whole : RoomOf[m] = r /\ created[m] < created[a] => m \in rows
    BY <1>2 DEF InRoom
  <1>10. BeforeInv'
    BY <1>1, <1>4, <1>5, <1>8, <1>9 DEF BeforeInv, Oldest
  <1> QED
    BY <1>6, <1>7, <1>10 DEF IInv

\* The newer half is what FirstRows says of the rows newer than the anchor.
LEMMA AroundAfterOK ==
  ASSUME IInv, AroundAfter
  PROVE  IInv'
  <1> PICK r \in Room, n \in Nat \ {0}, a \in Message :
         reader = [op |-> "around", pc |-> "after", room |-> r, limit |-> n, anchor |-> a]
    <2>1. reader \in [op : {"around"}, pc : {"target", "before", "after", "done", "missing"},
                      room : Room, limit : Nat \ {0}, anchor : Message]
          /\ reader.pc = "after"
      BY Request DEF AroundAfter, IInv
    <2> QED
      BY <2>1
  <1> PICK rows : rows = {m \in InRoom(r) : created[m] > created[a]}
    OBVIOUS
  <1>1. PICK s \in FirstOf(rows, After(n)) :
          /\ around' = [around EXCEPT !.after = s]
          /\ reader' = [reader EXCEPT !.pc = "done"]
          /\ UNCHANGED <<clock, created, table, seen, whole, gone>>
    BY DEF AroundAfter, Goto, writerVars
  <1>2. /\ created \in [Message -> Nat] /\ rows \in SUBSET Message
        /\ \A m \in rows : created[m] > created[a]
        /\ whole \subseteq table
    BY Rows DEF IInv, TypeOK, InRoom
  <1>3. After(n) \in Nat
    BY Halves
  <1>4. /\ s \in Seq(Message) /\ Oldest(s) /\ Len(s) <= After(n)
        /\ \A i \in DOMAIN s : s[i] \in rows
        /\ \A m \in rows : \/ m \in Range(s)
                           \/ /\ Len(s) = After(n)
                              /\ \A i \in DOMAIN s : created[m] >= created[s[i]]
    BY <1>1, <1>2, <1>3, FirstRows
  <1>5. /\ around'.after = s /\ around'.before = around.before
        /\ around' \in [before : Seq(Message), after : Seq(Message)]
    BY <1>1, <1>4 DEF IInv, TypeOK
  <1>6. TypeOK'
    BY <1>1, <1>5 DEF IInv, TypeOK
  <1>7. StampInv' /\ ListInv'
    BY <1>1 DEF IInv, StampInv, ListInv
  <1>8. BeforeInv'
    BY <1>1, <1>5 DEF IInv, BeforeInv, Oldest
  <1>9. \A m \in whole : RoomOf[m] = r /\ created[m] > created[a] => m \in rows
    BY <1>2 DEF InRoom
  <1>10. AfterInv'
    BY <1>1, <1>2, <1>4, <1>5, <1>9 DEF AfterInv, Oldest
  <1> QED
    BY <1>6, <1>7, <1>8, <1>10 DEF IInv

LEMMA StepOK == IInv /\ [Next]_vars => IInv'
  <1> SUFFICES ASSUME IInv, [Next]_vars PROVE IInv'
    OBVIOUS
  <1>1. CASE Writers
    BY <1>1, WriterStep, ListWriter, AroundWriter DEF IInv
  <1>2. ASSUME NEW r \in Room, NEW l \in Limits, StartList(r, l) PROVE IInv'
    BY <1>2, StartListOK
  <1>3. ASSUME NEW r \in Room, NEW l \in Limits, NEW m \in Message, StartAround(r, m, l)
        PROVE  IInv'
    BY <1>3, StartAroundOK
  <1>4. CASE ListByRoom
    BY <1>4, ListByRoomOK
  <1>5. CASE AroundTarget
    BY <1>5, AroundTargetOK
  <1>6. CASE AroundBefore
    BY <1>6, AroundBeforeOK
  <1>7. CASE AroundAfter
    BY <1>7, AroundAfterOK
  <1>8. CASE UNCHANGED vars
    <2>1. UNCHANGED <<clock, created, table, reader, seen, around, whole, gone>>
      BY <1>8 DEF vars, writerVars, resultVars
    <2>2. TypeOK' /\ StampInv'
      BY <2>1 DEF IInv, TypeOK, StampInv
    <2>3. ListInv'
      BY <2>1 DEF IInv, ListInv, Tied, Shifted, Newer, InRoom
    <2>4. BeforeInv' /\ AfterInv'
      BY <2>1 DEF IInv, BeforeInv, AfterInv, Oldest
    <2> QED
      BY <2>2, <2>3, <2>4 DEF IInv
  <1> QED
    BY <1>1, <1>2, <1>3, <1>4, <1>5, <1>6, <1>7, <1>8 DEF Next, Writers

\* The inductive invariant is one.
THEOREM PagingInvariant == Spec => []IInv
  BY InitOK, StepOK, PTL DEF Spec

-----------------------------------------------------------------------------
(***************************************************************************)
(* What the two requests promise.                                          *)
(***************************************************************************)

\* ListByRoom (message_repo.go 42-64): whoever pages to the end has seen every
\* message that was there all the time, for whatever number of messages and
\* page size, save one that a deletion moved up or that shares its stamp.
THEOREM ScanIsComplete == Spec => []ScanComplete
  <1>1. IInv => ScanComplete
    BY DEF IInv, ListInv, ScanComplete, Done, Shifted
  <1> QED
    BY <1>1, PagingInvariant, PTL

\* Positions of m rows, one more and n more.
LEMMA ThreeParts ==
  ASSUME NEW m \in Nat, NEW n \in Nat
  PROVE  /\ \A i \in 1..m : i \in 1..(m + 1) /\ i \in 1..(m + 1 + n)
         /\ \A i \in 1..n : m + 1 + i \in 1..(m + 1 + n)
  OBVIOUS

\* What fits in its half fits in the window.
LEMMA Fits ==
  ASSUME NEW m \in Nat, NEW n \in Nat, NEW x \in Nat, NEW y \in Nat, NEW limit \in Nat,
         m <= x, n <= y
  PROVE  /\ x + 1 + y = limit => m + 1 + n <= limit
         /\ 2 * x <= limit => 2 * m <= limit
         /\ 2 * y <= limit => 2 * n <= limit
  OBVIOUS

\* What stands where in a window.
LEMMA WindowParts ==
  ASSUME IInv, Done("around")
  PROVE  /\ Len(around.before) \in Nat /\ Len(around.after) \in Nat
         /\ Window \in Seq(Message)
         /\ Len(Window) = Len(around.before) + 1 + Len(around.after)
         /\ DOMAIN Window = 1..Len(Window)
         /\ \A i \in DOMAIN around.before : i \in DOMAIN Window /\ Window[i] = around.before[i]
         /\ Window[Len(around.before) + 1] = reader.anchor
         /\ \A i \in DOMAIN around.after :
               /\ Len(around.before) + 1 + i \in DOMAIN Window
               /\ Window[Len(around.before) + 1 + i] = around.after[i]
  <1> PICK b \in Seq(Message), t \in Seq(Message), a \in Message :
         b = around.before /\ t = around.after /\ a = reader.anchor
    BY Request DEF IInv, TypeOK, Done
  <1>1. Len(b) \in Nat /\ Len(t) \in Nat /\ DOMAIN b = 1..Len(b) /\ DOMAIN t = 1..Len(t)
    BY LenProperties
  <1>2. PICK x \in Seq(Message) : x = b \o <<a>>
    <2>1. b \o <<a>> \in Seq(Message)
      OBVIOUS
    <2> QED
      BY <2>1
  <1>3. /\ Len(x) = Len(b) + 1
        /\ \A i \in 1..Len(b) : x[i] = b[i]
        /\ x[Len(b) + 1] = a
    BY <1>2
  <1>4. Window = x \o t
    BY <1>2 DEF Window
  <1>5. /\ Window \in Seq(Message)
        /\ Len(Window) = Len(x) + Len(t)
        /\ \A i \in 1..Len(x) : Window[i] = x[i]
        /\ \A i \in 1..Len(t) : Window[Len(x) + i] = t[i]
    BY <1>4
  <1>6. DOMAIN Window = 1..Len(Window)
    BY <1>5
  <1> PICK lb \in Nat, lt \in Nat : lb = Len(b) /\ lt = Len(t)
    BY <1>1
  <1>7. Len(x) = lb + 1 /\ Len(Window) = lb + 1 + lt
    BY <1>3, <1>5
  <1>8. \A i \in 1..Len(b) : i \in DOMAIN Window /\ Window[i] = b[i]
    <2> SUFFICES ASSUME NEW i \in 1..Len(b) PROVE i \in DOMAIN Window /\ Window[i] = b[i]
      OBVIOUS
    <2>1. i \in 1..(lb + 1) /\ i \in 1..(lb + 1 + lt)
      BY ThreeParts
    <2> QED
      BY <1>7, <1>3, <1>5, <1>6, <2>1
  <1>9. Window[Len(b) + 1] = a
    <2>1. Len(b) + 1 \in 1..Len(x)
      BY <1>1, <1>3
    <2> QED
      BY <1>3, <1>5, <2>1
  <1>10. \A i \in 1..Len(t) : /\ Len(b) + 1 + i \in DOMAIN Window
                             /\ Window[Len(b) + 1 + i] = t[i]
    <2> SUFFICES ASSUME NEW i \in 1..Len(t)
                 PROVE  /\ Len(b) + 1 + i \in DOMAIN Window
                        /\ Window[Len(b) + 1 + i] = t[i]
      OBVIOUS
    <2>1. lb + 1 + i \in 1..(lb + 1 + lt)
      BY ThreeParts
    <2> QED
      BY <1>7, <1>3, <1>5, <1>6, <2>1
  <1> QED
    BY <1>1, <1>3, <1>5, <1>6, <1>8, <1>9, <1>10

\* Every position of a window is of the older half, the anchor or the newer half.
LEMMA WindowPositions ==
  ASSUME IInv, Done("around"), NEW i \in DOMAIN Window
  PROVE  \/ i \in DOMAIN around.before
         \/ i = Len(around.before) + 1
         \/ \E k \in DOMAIN around.after : i = Len(around.before) + 1 + k
  <1> PICK b \in Seq(Message), t \in Seq(Message) : b = around.before /\ t = around.after
    BY DEF IInv, TypeOK
  <1>1. DOMAIN b = 1..Len(b) /\ DOMAIN t = 1..Len(t)
    BY LenProperties
  <1>2. /\ Len(b) \in Nat /\ Len(t) \in Nat
        /\ i \in 1..(Len(b) + 1 + Len(t))
    BY WindowParts
  <1>3. CASE i > Len(b) + 1
    <2>1. PICK k \in Int : k = i - (Len(b) + 1)
      BY <1>2
    <2>2. PICK lb \in Nat, lt \in Nat : lb = Len(b) /\ lt = Len(t)
      BY <1>2
    <2>3. i \in 1..(lb + 1 + lt) /\ i > lb + 1 /\ k = i - (lb + 1)
      BY <1>2, <1>3, <2>1, <2>2
    <2>4. k \in 1..lt /\ i = lb + 1 + k
      BY <2>3
    <2> QED
      BY <1>1, <2>2, <2>4
  <1> QED
    BY <1>1, <1>2, <1>3

\* The older half is older than the anchor, the newer half newer.
LEMMA WindowSides ==
  ASSUME IInv, Done("around"), NEW i \in DOMAIN Window
  PROVE  /\ Window[i] \in Message /\ created[Window[i]] \in Nat
         /\ \/ /\ i \in DOMAIN around.before /\ Window[i] = around.before[i]
               /\ i < Len(around.before) + 1
               /\ created[Window[i]] < created[reader.anchor]
            \/ i = Len(around.before) + 1 /\ Window[i] = reader.anchor
            \/ /\ i > Len(around.before) + 1
               /\ created[Window[i]] > created[reader.anchor]
               /\ \E k \in DOMAIN around.after :
                     i = Len(around.before) + 1 + k /\ Window[i] = around.after[k]
  <1> PICK b \in Seq(Message), t \in Seq(Message), a \in Message :
         b = around.before /\ t = around.after /\ a = reader.anchor
    BY Request DEF IInv, TypeOK, Done
  <1> PICK lb \in Nat, lt \in Nat : lb = Len(b) /\ lt = Len(t)
    BY LenProperties
  <1>1. DOMAIN b = 1..lb /\ DOMAIN t = 1..lt
    BY LenProperties
  <1>2. Window[i] \in Message
    BY WindowParts, ElementOfSeq
  <1>3. created \in [Message -> Nat]
    BY Rows DEF IInv
  <1>4. CASE i \in 1..lb
    <2>1. Window[i] = b[i]
      BY <1>1, <1>4, WindowParts
    <2>2. created[b[i]] \in 1..(created[a] - 1)
      BY <1>1, <1>4 DEF IInv, BeforeInv, Done
    <2>3. created[a] \in Nat
      BY <1>3
    <2>4. created[Window[i]] < created[a]
      BY <2>1, <2>2, <2>3
    <2> QED
      BY <1>1, <1>2, <1>3, <1>4, <2>1, <2>4
  <1>5. CASE i = lb + 1
    BY <1>2, <1>3, <1>5, WindowParts
  <1>6. ASSUME NEW k \in 1..lt, i = lb + 1 + k
        PROVE  /\ i > lb + 1 /\ Window[i] = t[k]
               /\ created[Window[i]] > created[a]
    <2>1. Window[i] = t[k]
      BY <1>1, <1>6, WindowParts
    <2>2. created[t[k]] > created[a]
      BY <1>1, <1>6 DEF IInv, AfterInv, Done
    <2> QED
      BY <1>6, <2>1, <2>2
  <1>7. \/ i \in 1..lb
        \/ i = lb + 1
        \/ \E k \in 1..lt : i = lb + 1 + k
    BY <1>1, WindowPositions
  <1>8. CASE \E k \in 1..lt : i = lb + 1 + k
    <2>1. PICK k \in 1..lt : i = lb + 1 + k
      BY <1>8
    <2>2. /\ i > lb + 1 /\ Window[i] = t[k]
          /\ created[Window[i]] > created[a]
      BY <1>6, <2>1
    <2> QED
      BY <1>1, <1>2, <1>3, <2>1, <2>2
  <1> QED
    BY <1>4, <1>5, <1>7, <1>8

\* A window shows both its halves.
LEMMA WindowShows ==
  ASSUME IInv, Done("around")
  PROVE  Range(around.before) \subseteq Range(Window) /\ Range(around.after) \subseteq Range(Window)
  <1>1. ASSUME NEW i \in DOMAIN around.before PROVE around.before[i] \in Range(Window)
    <2>1. i \in DOMAIN Window /\ Window[i] = around.before[i]
      BY WindowParts
    <2> QED
      BY <2>1 DEF Range
  <1>2. ASSUME NEW i \in DOMAIN around.after PROVE around.after[i] \in Range(Window)
    <2>1. PICK j \in DOMAIN Window : Window[j] = around.after[i]
      BY WindowParts
    <2> QED
      BY <2>1 DEF Range
  <1> QED
    BY <1>1, <1>2 DEF Range

\* The three queries saw different states of the table, and make one window.
LEMMA InOrder == IInv => WindowInOrder
  <1> SUFFICES ASSUME IInv, Done("around")
               PROVE  /\ \A i, j \in DOMAIN Window :
                            i < j => /\ Window[i] # Window[j]
                                     /\ created[Window[i]] <= created[Window[j]]
                      /\ Len(Window) <= reader.limit
    BY DEF WindowInOrder
  <1> PICK b \in Seq(Message), t \in Seq(Message), a \in Message :
         b = around.before /\ t = around.after /\ a = reader.anchor
    BY Request DEF IInv, TypeOK, Done
  <1> PICK lb \in Nat, lt \in Nat : lb = Len(b) /\ lt = Len(t)
    BY LenProperties
  <1>1. created[a] \in Nat
    BY Rows DEF IInv
  <1>2. Oldest(b) /\ lb <= Before(reader.limit) /\ Oldest(t) /\ lt <= After(reader.limit)
    BY DEF IInv, BeforeInv, AfterInv, Done
  <1>3. Len(Window) <= reader.limit
    <2>1. PICK n \in Nat \ {0} : n = reader.limit
      BY Request DEF IInv, Done
    <2>2. Before(n) \in Nat /\ After(n) \in Nat /\ Before(n) + 1 + After(n) = n
      BY Halves
    <2>3. Len(Window) = lb + 1 + lt
      BY WindowParts
    <2> PICK x \in Nat, y \in Nat : x = Before(n) /\ y = After(n)
      BY <2>2
    <2>4. x + 1 + y = n /\ lb <= x /\ lt <= y
      BY <1>2, <2>1, <2>2
    <2>5. lb + 1 + lt <= n
      BY <2>4, Fits
    <2> QED
      BY <2>1, <2>3, <2>5
  <1>4. ASSUME NEW i \in DOMAIN Window, NEW j \in DOMAIN Window, i < j
        PROVE  Window[i] # Window[j] /\ created[Window[i]] <= created[Window[j]]
    <2> PICK u \in Message, v \in Message : u = Window[i] /\ v = Window[j]
      BY WindowSides
    <2>1. /\ created[u] \in Nat
          /\ \/ i \in DOMAIN b /\ u = b[i] /\ i < lb + 1 /\ created[u] < created[a]
             \/ i = lb + 1 /\ u = a
             \/ /\ i > lb + 1 /\ created[u] > created[a]
                /\ \E k \in DOMAIN t : i = lb + 1 + k /\ u = t[k]
      BY WindowSides
    <2>2. /\ created[v] \in Nat
          /\ \/ j \in DOMAIN b /\ v = b[j] /\ j < lb + 1 /\ created[v] < created[a]
             \/ j = lb + 1 /\ v = a
             \/ /\ j > lb + 1 /\ created[v] > created[a]
                /\ \E k \in DOMAIN t : j = lb + 1 + k /\ v = t[k]
      BY WindowSides
    <2>3. i \in Nat /\ j \in Nat
      BY WindowParts
    <2>4. CASE i \in DOMAIN b /\ u = b[i] /\ j \in DOMAIN b /\ v = b[j]
      BY <1>2, <1>4, <2>4 DEF Oldest
    <2>5. CASE created[u] < created[v]
      BY <2>1, <2>2, <2>5
    <2>6. ASSUME NEW k \in DOMAIN t, i = lb + 1 + k, u = t[k],
                 NEW l \in DOMAIN t, j = lb + 1 + l, v = t[l]
          PROVE  u # v /\ created[u] <= created[v]
      <3>1. k \in Nat /\ l \in Nat
        BY LenProperties
      <3>2. k < l
        BY <1>4, <2>3, <2>6, <3>1
      <3> QED
        BY <1>2, <2>6, <3>2 DEF Oldest
    <2> QED
      BY <1>1, <1>4, <2>1, <2>2, <2>3, <2>4, <2>5, <2>6
  <1> QED
    BY <1>3, <1>4

\* A message missing on one side is beyond the end of the window on that side.
LEMMA NoHoles == IInv => WindowHasNoHoles
  <1> SUFFICES ASSUME IInv, Done("around"),
                      NEW m \in whole, RoomOf[m] = reader.room,
                      created[m] # created[reader.anchor],
                      created[Window[1]] < created[m],
                      created[m] < created[Window[Len(Window)]],
                      m \notin Range(Window)
               PROVE  FALSE
    BY DEF WindowHasNoHoles
  <1> PICK b \in Seq(Message), t \in Seq(Message), a \in Message :
         b = around.before /\ t = around.after /\ a = reader.anchor
    BY Request DEF IInv, TypeOK, Done
  <1> PICK lb \in Nat, lt \in Nat : lb = Len(b) /\ lt = Len(t)
    BY LenProperties
  <1>1. DOMAIN b = 1..lb /\ DOMAIN t = 1..lt
    BY LenProperties
  <1>2. created \in [Message -> Nat] /\ m \in Message
    BY Rows DEF IInv, TypeOK
  <1>3. m \notin Range(b) /\ m \notin Range(t)
    BY WindowShows
  <1>4. CASE created[m] < created[a]
    <2>1. \A i \in 1..lb : created[m] <= created[b[i]]
      BY <1>1, <1>3, <1>4 DEF IInv, BeforeInv, Done
    <2>2. CASE lb = 0
      <3>1. Window[lb + 1] = a
        BY WindowParts
      <3>2. Window[1] = a
        BY <2>2, <3>1
      <3> QED
        BY <1>2, <1>4, <3>2
    <2>3. CASE lb # 0
      <3>1. 1 \in 1..lb
        BY <2>3
      <3>2. Window[1] = b[1] /\ b[1] \in Message
        BY <1>1, <3>1, WindowParts, ElementOfSeq
      <3>3. created[m] <= created[b[1]]
        BY <2>1, <3>1
      <3> QED
        BY <1>2, <3>2, <3>3
    <2> QED
      BY <2>2, <2>3
  <1>5. CASE created[m] > created[a]
    <2>1. \A i \in 1..lt : created[m] >= created[t[i]]
      BY <1>1, <1>3, <1>5 DEF IInv, AfterInv, Done
    <2>2. Len(Window) = lb + 1 + lt
      BY WindowParts
    <2>3. CASE lt = 0
      <3>1. Window[Len(Window)] = a
        BY <2>2, <2>3, WindowParts
      <3> QED
        BY <1>2, <1>5, <3>1
    <2>4. CASE lt # 0
      <3>1. lt \in 1..lt
        BY <2>4
      <3>2. Window[Len(Window)] = t[lt] /\ t[lt] \in Message
        BY <1>1, <2>2, <3>1, WindowParts, ElementOfSeq
      <3>3. created[m] >= created[t[lt]]
        BY <2>1, <3>1
      <3> QED
        BY <1>2, <3>2, <3>3
    <2> QED
      BY <2>3, <2>4
  <1> QED
    BY <1>2, <1>4, <1>5

\* A half that is short is not full, and so leaves nothing out.
LEMMA InTheMiddle == IInv => WindowIsHalved
  <1> SUFFICES ASSUME IInv, Done("around")
               PROVE  WindowIsHalved
    BY DEF WindowIsHalved
  <1> PICK b \in Seq(Message), t \in Seq(Message), a \in Message :
         b = around.before /\ t = around.after /\ a = reader.anchor
    BY Request DEF IInv, TypeOK, Done
  <1> PICK lb \in Nat, lt \in Nat : lb = Len(b) /\ lt = Len(t)
    BY LenProperties
  <1> PICK n \in Nat \ {0} : n = reader.limit
    BY Request DEF IInv, Done
  <1>1. /\ Before(n) \in Nat /\ After(n) \in Nat
        /\ After(n) = (n - 1) \div 2 /\ (n - 1) \div 2 <= Before(n)
        /\ 2 * Before(n) <= n /\ 2 * After(n) <= n
    BY Halves
  <1>2. lb <= Before(n) /\ lt <= After(n)
    BY DEF IInv, BeforeInv, AfterInv, Done
  <1> PICK x \in Nat, y \in Nat, h \in Int :
         x = Before(n) /\ y = After(n) /\ h = (n - 1) \div 2
    BY <1>1
  <1>3. y = h /\ h <= x /\ 2 * x <= n /\ 2 * y <= n /\ lb <= x /\ lt <= y
    BY <1>1, <1>2
  <1>4. 2 * lb <= n /\ 2 * lt <= n
    <2>1. 2 * lb <= n
      BY ONLY <1>3, Fits
    <2>2. 2 * lt <= n
      BY ONLY <1>3, Fits
    <2> QED
      BY <2>1, <2>2
  <1>5. ASSUME NEW m \in whole, m \notin Range(Window), RoomOf[m] = reader.room
        PROVE  /\ lb < (n - 1) \div 2 => created[m] >= created[a]
               /\ lt < (n - 1) \div 2 => created[m] <= created[a]
    <2>1. m \notin Range(b) /\ m \notin Range(t)
      BY <1>5, WindowShows
    <2>2. created[m] \in Nat /\ created[a] \in Nat
      BY Rows DEF IInv, TypeOK
    <2>3. created[m] < created[a] => lb = Before(n)
      BY <1>5, <2>1 DEF IInv, BeforeInv, Done
    <2>4. created[m] > created[a] => lt = After(n)
      BY <1>5, <2>1 DEF IInv, AfterInv, Done
    <2>5. /\ lb < h => created[m] >= created[a]
          /\ lt < h => created[m] <= created[a]
      BY <1>3, <2>2, <2>3, <2>4
    <2> QED
      BY <2>5
  <1> QED
    BY <1>4, <1>5 DEF WindowIsHalved

\* ListAround (message_repo.go 66-143): the window is in order, holds nothing
\* twice, misses nothing between its ends and has the anchor in its middle, for
\* every limit and whatever the writers do between its three queries.
THEOREM WindowIsSound == Spec => []WindowInv
  <1>1. IInv => WindowInv
    BY InOrder, NoHoles, InTheMiddle DEF WindowInv, IInv
  <1> QED
    BY <1>1, PagingInvariant, PTL

=============================================================================
