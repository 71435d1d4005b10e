-------------------------- MODULE ReorderQueueOps --------------------------
(***************************************************************************)
(* The ring buffer of lib/src/reorderqueue.c as operators on a value       *)
(*    [begin, count, slots],                                               *)
(* one per C function or branch of it, so that both the stand-alone        *)
(* specification and Takion can use them.  slots holds the user pointer of *)
(* an entry whose "set" flag is on, and Empty otherwise.                   *)
(***************************************************************************)
EXTENDS SeqNum

CONSTANTS QueueSize,   \* 1 << size_exp
          Empty        \* content of an entry that is not set

\* A size of at least two: with a single slot that is taken, the number half the
\* circle ahead would be neither too old nor an overrun.
ASSUME QueueSizeAssumption ==
         /\ QueueSize \in Nat /\ QueueSize > 1
         /\ QueueSize < Half
         /\ M % QueueSize = 0

\* An element is a natural number: its allocation, or its place in the stream.
ASSUME EmptyAssumption == Empty \notin Nat

SlotIds == 0 .. QueueSize - 1

QueueType ==
  [begin : SeqNums, count : 0 .. QueueSize, slots : [SlotIds -> Nat \cup {Empty}]]

NewQueue(start) == [begin |-> start, count |-> 0, slots |-> [i \in SlotIds |-> Empty]]

Idx(s) == s % QueueSize

End(q)        == Add(q.begin, q.count)
EntryAt(q, s) == q.slots[Idx(s)]

\* The numbers between begin and the highest one seen, and the elements there.
Window(q)   == {Add(q.begin, p) : p \in 0 .. q.count - 1}
Elements(q) == {EntryAt(q, s) : s \in Window(q)} \ {Empty}

InWindow(q, s) == Ge(s, q.begin) /\ Lt(s, End(q))
TooOld(q, s)   == ~InWindow(q, s) /\ Lt(s, q.begin)
Ahead(q, s)    == ~InWindow(q, s) /\ ~Lt(s, q.begin)

\* The assertion "ge(seq_num, end)" of push.
AssertFails(q, s) == Ahead(q, s) /\ ~Ge(s, End(q))

TotalEnd(q)   == Add(End(q), QueueSize - q.count)
Overrun(q, s) == Ahead(q, s) /\ Lt(TotalEnd(q), Add(s, 1))

\* Mutant: pops one entry too many.
ExcessOneMore(q, s) == LET d == Dist(TotalEnd(q), Add(s, 1)) + 1
                       IN  IF d < q.count THEN d ELSE q.count

\* How many entries the "drop first" loop pops: until s fits, or all.
Excess(q, s) == LET d == Dist(TotalEnd(q), Add(s, 1))
                IN  IF d < q.count THEN d ELSE q.count

\* Mutant: begin is not set to s when every entry is popped.
MakeRoomStays(q, s) == [begin |-> Add(q.begin, Excess(q, s)),
                        count |-> q.count - Excess(q, s),
                        slots |-> q.slots]

MakeRoom(q, s) ==
  [begin |-> IF Excess(q, s) = q.count THEN s ELSE Add(q.begin, Excess(q, s)),
   count |-> q.count - Excess(q, s),
   slots |-> q.slots]

\* Mutant: the slots taken over keep their old elements.
ExtendKeepsOld(q, newEnd) ==
  [q EXCEPT !.count = @ + IF Lt(End(q), newEnd) THEN Dist(End(q), newEnd) ELSE 0]

\* The loop that moves the end, unsetting every slot it takes over.
Extend(q, newEnd) ==
  LET k == IF Lt(End(q), newEnd) THEN Dist(End(q), newEnd) ELSE 0
      taken == {Idx(Add(End(q), j)) : j \in 0 .. k - 1}
  IN  [begin |-> q.begin,
       count |-> q.count + k,
       slots |-> [i \in SlotIds |-> IF i \in taken THEN Empty ELSE q.slots[i]]]

Store(q, s, u) == [q EXCEPT !.slots[Idx(s)] = u]

\* Mutants: no check for duplicates; the new element refused whatever the
\* strategy; the two strategies swapped.
RefusedTwice(q, s, strategy) ==
  \/ TooOld(q, s)
  \/ Overrun(q, s) /\ strategy = "end"
RefusedAlways(q, s, strategy) ==
  \/ InWindow(q, s) /\ EntryAt(q, s) # Empty
  \/ TooOld(q, s)
  \/ Overrun(q, s)
RefusedSwapped(q, s, strategy) ==
  \/ InWindow(q, s) /\ EntryAt(q, s) # Empty
  \/ TooOld(q, s)
  \/ Overrun(q, s) /\ strategy = "begin"

\* chiaki_reorder_queue_push: does it hand the new element straight to
\* drop_cb, which old elements does it drop, and what does it leave behind.
Refused(q, s, strategy) ==
  \/ InWindow(q, s) /\ EntryAt(q, s) # Empty
  \/ TooOld(q, s)
  \/ Overrun(q, s) /\ strategy = "end"

Evicted(q, s, strategy) ==
  IF Overrun(q, s) /\ strategy = "begin"
  THEN {EntryAt(q, Add(q.begin, j)) : j \in 0 .. Excess(q, s) - 1} \ {Empty}
  ELSE {}

Pushed(q, s, u, strategy) ==
  IF Refused(q, s, strategy) THEN q
  ELSE IF InWindow(q, s) THEN Store(q, s, u)
  ELSE LET room == IF Overrun(q, s) THEN MakeRoom(q, s) ELSE q
       IN  Store(Extend(room, Add(s, 1)), s, u)

\* chiaki_reorder_queue_pull
CanPull(q) == q.count > 0 /\ EntryAt(q, q.begin) # Empty
Pulled(q)  == [begin |-> Add(q.begin, 1), count |-> q.count - 1, slots |-> q.slots]

-----------------------------------------------------------------------------
(* The index mask                                                          *)

\* The mask yields a slot.
LEMMA IdxInSlots ==
  ASSUME NEW s \in SeqNums
  PROVE  Idx(s) \in SlotIds
  BY QueueSizeAssumption, Division, ModulusAssumption, SMT DEF SeqNums, Idx, SlotIds

\* Less than a ring apart, no two numbers share a slot, across the wrap too:
\* the size of the ring divides the modulus.
LEMMA IdxInjective ==
  ASSUME NEW b \in SeqNums, NEW j \in 0 .. QueueSize - 1, NEW k \in 0 .. QueueSize - 1,
         Idx(Add(b, j)) = Idx(Add(b, k))
  PROVE  j = k
<1> DEFINE x == Add(b, j)
           y == Add(b, k)
           n == x \div QueueSize
           m == y \div QueueSize
           w == M \div QueueSize
<1>1. j \in 0 .. M /\ k \in 0 .. M /\ QueueSize \in Nat /\ QueueSize > 0 /\ M \in Nat
  BY HalfFacts, ModulusAssumption, QueueSizeAssumption, SMT
<1>2. /\ x = (IF b + j < M THEN b + j ELSE (b + j) - M) /\ x \in SeqNums
      /\ y = (IF b + k < M THEN b + k ELSE (b + k) - M) /\ y \in SeqNums
  BY <1>1, AddWraps
<1>3. /\ n \in Nat /\ x = (QueueSize * n) + (x % QueueSize)
      /\ m \in Nat /\ y = (QueueSize * m) + (y % QueueSize)
      /\ x % QueueSize \in Int
  <2>1. x \in Nat /\ y \in Nat
    BY <1>1, <1>2, SMT DEF SeqNums
  <2> HIDE DEF x, y
  <2>2. \A a \in Nat : /\ a \div QueueSize \in Nat
                       /\ a = (QueueSize * (a \div QueueSize)) + (a % QueueSize)
                       /\ a % QueueSize \in Int
    BY <1>1, Division, SMT
  <2> QED
    BY <2>1, <2>2
<1>4. w \in Nat /\ M = QueueSize * w
  <2>1. w \in Nat /\ M = (QueueSize * w) + (M % QueueSize)
    BY <1>1, Division
  <2> QED
    BY <1>1, <2>1, QueueSizeAssumption, SMT
<1>5. x % QueueSize = y % QueueSize
  BY DEF Idx
<1> HIDE DEF x, y, n, m, w
<1>6. PICK d \in Int : j - k = QueueSize * d
  <2>1. x - y = (QueueSize * n) - (QueueSize * m) /\ x \in Int /\ y \in Int
    BY <1>1, <1>2, <1>3, <1>5, SMT DEF SeqNums
  <2>2. /\ (QueueSize * n) - (QueueSize * m) = QueueSize * (n - m)
        /\ (QueueSize * (n - m)) + (QueueSize * w) = QueueSize * ((n - m) + w)
        /\ (QueueSize * (n - m)) - (QueueSize * w) = QueueSize * ((n - m) - w)
    BY <1>1, <1>3, <1>4, SMT
  <2>3. \/ j - k = QueueSize * (n - m)
        \/ j - k = QueueSize * ((n - m) + w)
        \/ j - k = QueueSize * ((n - m) - w)
    BY <1>1, <1>2, <1>4, <2>1, <2>2, SMT DEF SeqNums
  <2>4. n - m \in Int /\ (n - m) + w \in Int /\ (n - m) - w \in Int
    BY <1>3, <1>4, SMT
  <2> QED
    BY <2>3, <2>4
<1>7. QueueSize * d < QueueSize /\ -QueueSize < QueueSize * d
  BY <1>1, <1>6, SMT
<1>8. d = 0
  BY <1>1, <1>7, SmallMultiple
<1> QED
  BY <1>1, <1>6, <1>8, SMT

-----------------------------------------------------------------------------
(* The tests that push makes, by the offset of the number pushed           *)

\* The type of a queue, field by field.
LEMMA QueueFields ==
  ASSUME NEW q \in QueueType
  PROVE  /\ q.begin \in SeqNums /\ q.count \in 0 .. QueueSize
         /\ q.slots \in [SlotIds -> Nat \cup {Empty}]
         /\ q = [begin |-> q.begin, count |-> q.count, slots |-> q.slots]
         /\ q.begin = Add(q.begin, 0)
         /\ End(q) \in SeqNums
<1>1. /\ q.begin \in SeqNums /\ q.count \in 0 .. QueueSize
      /\ q.slots \in [SlotIds -> Nat \cup {Empty}]
      /\ q = [begin |-> q.begin, count |-> q.count, slots |-> q.slots]
  BY SMT DEF QueueType
<1>2. q.count \in 0 .. M /\ 0 \in 0 .. M
  BY <1>1, HalfFacts, QueueSizeAssumption, SMT
<1>3. q.begin = Add(q.begin, 0)
  BY <1>1, <1>2, AddWraps, ModulusAssumption, SMT DEF SeqNums
<1>4. End(q) \in SeqNums
  BY <1>1, <1>2, AddWraps DEF End
<1> QED
  BY <1>1, <1>3, <1>4

\* The comparisons that push makes, in terms of the distance of s from begin.
LEMMA PushTests ==
  ASSUME NEW q \in QueueType, NEW s \in SeqNums
  PROVE  LET e == Dist(q.begin, s) IN
         /\ InWindow(q, s) <=> e < q.count
         /\ TooOld(q, s) <=> e > Half
         /\ Ahead(q, s) <=> q.count <= e /\ e <= Half
         /\ AssertFails(q, s) <=> q.count = 0 /\ e = Half
         /\ Overrun(q, s) <=> QueueSize <= e /\ e <= Half
<1> DEFINE b == q.begin
           c == q.count
           e == Dist(b, s)
<1>1. b \in SeqNums /\ c \in 0 .. QueueSize /\ e \in 0 .. M - 1 /\ b = Add(b, 0)
  BY QueueFields, DistWraps DEF SeqNums
<1>2. s = Add(b, e)
  BY <1>1, OffsetOfNumber
<1>3. End(q) = Add(b, c)
  BY DEF End
<1>4. c \in 0 .. M - 1 /\ 0 \in 0 .. M - 1 /\ QueueSize \in 0 .. M - 1 /\ QueueSize - c \in 0 .. M - 1
  BY <1>1, HalfFacts, QueueSizeAssumption, SMT
<1>5. TotalEnd(q) = Add(b, QueueSize)
  <2>1. Add(Add(b, c), QueueSize - c) = Add(b, c + (QueueSize - c))
    <3>1. c + (QueueSize - c) <= M
      BY <1>1, <1>4, HalfFacts, QueueSizeAssumption, SMT
    <3> QED
      BY <1>1, <1>4, <3>1, OffsetsAdd
  <2>2. c + (QueueSize - c) = QueueSize
    BY <1>1, QueueSizeAssumption, SMT
  <2> QED
    BY <2>1, <2>2, <1>3 DEF TotalEnd
<1> HIDE DEF b, c, e
<1>6. Ge(s, b) <=> e < Half
  <2>1. Add(b, e) = Add(b, 0) <=> e = 0
    BY <1>1, <1>4, OffsetOrder
  <2>2. Gt(Add(b, e), Add(b, 0)) <=> (e < 0 /\ 0 - e > Half) \/ (e > 0 /\ e - 0 < Half)
    BY <1>1, <1>4, OffsetOrder
  <2>3. Ge(s, b) <=> Add(b, e) = Add(b, 0) \/ Gt(Add(b, e), Add(b, 0))
    BY <1>1, <1>2 DEF Ge
  <2> QED
    BY <1>1, <2>1, <2>2, <2>3, HalfFacts, SMT
<1>7. Lt(s, b) <=> e > Half
  <2>1. Lt(Add(b, e), Add(b, 0)) <=> (e < 0 /\ 0 - e < Half) \/ (e > 0 /\ e - 0 > Half)
    BY <1>1, <1>4, OffsetOrder
  <2> QED
    BY <1>1, <1>2, <2>1, HalfFacts, SMT
<1>8. Lt(s, End(q)) <=> (e < c /\ c - e < Half) \/ (e > c /\ e - c > Half)
  BY <1>1, <1>2, <1>3, <1>4, OffsetOrder
<1>9. Ge(s, End(q)) <=> e = c \/ (e < c /\ c - e > Half) \/ (e > c /\ e - c < Half)
  BY <1>1, <1>2, <1>3, <1>4, OffsetOrder DEF Ge
<1>10. InWindow(q, s) <=> e < c
  BY <1>1, <1>6, <1>8, HalfFacts, QueueSizeAssumption, SMT DEF InWindow, b
<1>11. TooOld(q, s) <=> e > Half
  BY <1>1, <1>7, <1>10, HalfFacts, QueueSizeAssumption, SMT DEF TooOld, b
<1>12. Ahead(q, s) <=> c <= e /\ e <= Half
  BY <1>1, <1>7, <1>10, HalfFacts, QueueSizeAssumption, SMT DEF Ahead, b
<1>13. AssertFails(q, s) <=> c = 0 /\ e = Half
  BY <1>1, <1>9, <1>12, HalfFacts, QueueSizeAssumption, SMT DEF AssertFails
<1>14. ASSUME e <= Half
       PROVE  Lt(TotalEnd(q), Add(s, 1)) <=> QueueSize <= e
  <2>1. Add(s, 1) = Add(b, e + 1) /\ e + 1 \in 0 .. M - 1
    <3>1. e + 1 \in 0 .. M - 1 /\ e + 1 <= M /\ 1 \in 0 .. M - 1
      BY <1>1, <1>14, HalfFacts, SMT
    <3> QED
      BY <1>1, <1>2, <3>1, OffsetsAdd
  <2>2. Lt(Add(b, QueueSize), Add(b, e + 1)) <=>
          \/ QueueSize < e + 1 /\ (e + 1) - QueueSize < Half
          \/ QueueSize > e + 1 /\ QueueSize - (e + 1) > Half
    BY <1>1, <1>4, <2>1, OffsetOrder
  <2> QED
    BY <1>1, <1>5, <1>14, <2>1, <2>2, HalfFacts, QueueSizeAssumption, SMT
<1>15. Overrun(q, s) <=> QueueSize <= e /\ e <= Half
  BY <1>1, <1>12, <1>14, HalfFacts, QueueSizeAssumption, SMT DEF Overrun
<1> QED
  BY <1>10, <1>11, <1>12, <1>13, <1>15 DEF b, c, e

-----------------------------------------------------------------------------
(* What push leaves behind                                                 *)

\* The queue that the end is moved in: with room for s, if there was none.
Roomy(q, s) == IF Overrun(q, s) THEN MakeRoom(q, s) ELSE q

\* How far s is from its front: less than a whole ring.
Place(q, s) == Dist(Roomy(q, s).begin, s)

\* How many entries the "drop first" loop pops, in terms of the distance of s.
LEMMA ExcessInOffsets ==
  ASSUME NEW q \in QueueType, NEW s \in SeqNums, Overrun(q, s)
  PROVE  LET d == (Dist(q.begin, s) + 1) - QueueSize
         IN  Excess(q, s) = IF d < q.count THEN d ELSE q.count
<1> DEFINE b == q.begin
           c == q.count
           e == Dist(b, s)
<1>1. b \in SeqNums /\ c \in 0 .. QueueSize /\ e \in 0 .. M - 1
  BY QueueFields, DistWraps DEF SeqNums
<1>2. s = Add(b, e)
  BY <1>1, OffsetOfNumber
<1>3. QueueSize <= e /\ e <= Half
  BY PushTests
<1>4. /\ c \in 0 .. M - 1 /\ QueueSize - c \in 0 .. M - 1 /\ c + (QueueSize - c) <= M
      /\ c + (QueueSize - c) = QueueSize /\ QueueSize \in 0 .. M - 1
      /\ 1 \in 0 .. M - 1 /\ e + 1 \in 0 .. M - 1 /\ e + 1 <= M /\ QueueSize <= e + 1
  BY <1>1, <1>3, HalfFacts, QueueSizeAssumption, SMT
<1>5. TotalEnd(q) = Add(b, QueueSize)
  BY <1>1, <1>4, OffsetsAdd DEF TotalEnd, End
<1>6. Add(s, 1) = Add(b, e + 1)
  BY <1>1, <1>2, <1>4, OffsetsAdd
<1> HIDE DEF b, e
<1>7. Dist(Add(b, QueueSize), Add(b, e + 1)) = (e + 1) - QueueSize
  <2>1. \A j, k \in 0 .. M - 1 : j <= k => Dist(Add(b, j), Add(b, k)) = k - j
    BY <1>1, OffsetDist
  <2> QED
    BY <1>4, <2>1
<1> QED
  BY <1>5, <1>6, <1>7 DEF Excess, b, e

\* When the old elements have made room, s lies in the ring, not before the end.
LEMMA RoomForNumber ==
  ASSUME NEW q \in QueueType, NEW s \in SeqNums, ~AssertFails(q, s), Ahead(q, s)
  PROVE  /\ Roomy(q, s) \in QueueType
         /\ Roomy(q, s).slots = q.slots
         /\ Place(q, s) \in 0 .. QueueSize - 1
         /\ Roomy(q, s).count <= Place(q, s)
         /\ Window(Roomy(q, s)) \subseteq Window(q)
<1> DEFINE b == q.begin
           c == q.count
           e == Dist(b, s)
           x == Excess(q, s)
<1>1. b \in SeqNums /\ c \in 0 .. QueueSize /\ e \in 0 .. M - 1 /\ b = Add(b, 0)
  BY QueueFields, DistWraps DEF SeqNums
<1>2. s = Add(b, e)
  BY <1>1, OffsetOfNumber
<1>3. c <= e /\ e <= Half /\ ~(c = 0 /\ e = Half) /\ (Overrun(q, s) <=> QueueSize <= e)
  BY PushTests
<1>4. CASE ~Overrun(q, s)
  BY <1>1, <1>3, <1>4, QueueSizeAssumption, SMT DEF Roomy, Place
<1>5. CASE Overrun(q, s)
  <2>2. x = IF (e + 1) - QueueSize < c THEN (e + 1) - QueueSize ELSE c
    BY <1>5, ExcessInOffsets
  <2>3. /\ MakeRoom(q, s).begin = (IF x = c THEN s ELSE Add(b, x))
        /\ MakeRoom(q, s).count = c - x
        /\ MakeRoom(q, s).slots = q.slots
        /\ MakeRoom(q, s) = [begin |-> IF x = c THEN s ELSE Add(b, x),
                            count |-> c - x, slots |-> q.slots]
    BY DEF MakeRoom
  <2> HIDE DEF x, b, c, e
  <2>4. x \in 0 .. c /\ c - x \in 0 .. QueueSize
    BY <1>1, <1>3, <1>5, <2>2, QueueSizeAssumption, SMT
  <2>5. Roomy(q, s) \in QueueType /\ Roomy(q, s).slots = q.slots
    <3>1. x \in 0 .. M
      BY <1>1, <2>4, HalfFacts, QueueSizeAssumption, SMT
    <3>2. (IF x = c THEN s ELSE Add(b, x)) \in SeqNums
      BY <1>1, <3>1, AddWraps
    <3> QED
      BY <1>5, <2>3, <2>4, <3>2, QueueFields DEF Roomy, QueueType
  <2>6. CASE x = c
    <3>1. Place(q, s) = Dist(s, s) /\ Roomy(q, s).count = c - c
      BY <1>5, <2>3, <2>6 DEF Roomy, Place
    <3>2. Dist(s, s) = 0
      BY DistWraps, SMT DEF SeqNums
    <3>3. Window(Roomy(q, s)) = {}
      BY <1>1, <3>1, SMT DEF Window
    <3> QED
      BY <1>1, <2>5, <3>1, <3>2, <3>3, QueueSizeAssumption, SMT
  <2>7. CASE x # c
    <3>1. x = (e + 1) - QueueSize /\ x < c
      BY <2>2, <2>7, <2>4, SMT
    <3>2. x \in 0 .. M - 1 /\ x <= e
      BY <1>1, <1>3, <3>1, <2>4, HalfFacts, QueueSizeAssumption, SMT
    <3>3. Place(q, s) = Dist(Add(b, x), Add(b, e)) /\ Roomy(q, s).count = c - x
      BY <1>2, <1>5, <2>3, <2>7 DEF Roomy, Place
    <3>4. Dist(Add(b, x), Add(b, e)) = e - x
      BY <1>1, <3>2, OffsetDist, SMT
    <3>5. \A p \in 0 .. (c - x) - 1 : Add(Add(b, x), p) = Add(b, x + p) /\ x + p \in 0 .. c - 1
      <4>1. TAKE p \in 0 .. (c - x) - 1
      <4>2. p \in 0 .. M - 1 /\ x + p <= M /\ x + p \in 0 .. c - 1
        BY <1>1, <2>4, <3>1, HalfFacts, QueueSizeAssumption, SMT
      <4> QED
        BY <1>1, <3>2, <4>2, OffsetsAdd
    <3>6. Window(Roomy(q, s)) \subseteq Window(q)
      BY <1>5, <2>3, <2>7, <3>5 DEF Roomy, Window, b, c
    <3> QED
      BY <1>1, <1>3, <2>5, <3>1, <3>2, <3>3, <3>4, <3>6, QueueSizeAssumption, SMT
  <2> QED
    BY <2>6, <2>7
<1> QED
  BY <1>4, <1>5

\* The slots that the moving end takes over belong to the numbers from the old
\* end up to s.
LEMMA PushedBeyondEnd ==
  ASSUME NEW q \in QueueType, NEW s \in SeqNums, NEW u, NEW st \in {"begin", "end"},
         ~AssertFails(q, s), Ahead(q, s), ~Refused(q, s, st)
  PROVE  LET r == Roomy(q, s)
             g == Place(q, s)
             taken == {Idx(Add(r.begin, p)) : p \in r.count .. g}
         IN  Pushed(q, s, u, st) =
               [begin |-> r.begin, count |-> g + 1,
                slots |-> [[i \in SlotIds |-> IF i \in taken THEN Empty ELSE q.slots[i]]
                             EXCEPT ![Idx(s)] = u]]
<1> DEFINE r == Roomy(q, s)
           b == r.begin
           c == r.count
           g == Place(q, s)
<1>1. /\ r \in QueueType /\ r.slots = q.slots
      /\ g \in 0 .. QueueSize - 1 /\ c <= g
  BY RoomForNumber
<1>2. b \in SeqNums /\ c \in 0 .. QueueSize
  BY <1>1, QueueFields
<1>3. s = Add(b, g)
  BY <1>2, OffsetOfNumber DEF Place
<1>4. Pushed(q, s, u, st) = Store(Extend(r, Add(s, 1)), s, u)
  BY DEF Pushed, Ahead, Roomy
<1> HIDE DEF b, c, g, r
<1>5. /\ g \in 0 .. M - 1 /\ g + 1 \in 0 .. M - 1 /\ c \in 0 .. M - 1 /\ 1 \in 0 .. M - 1
      /\ g + 1 <= M
  BY <1>1, <1>2, HalfFacts, QueueSizeAssumption, SMT
<1>6. Add(s, 1) = Add(b, g + 1) /\ End(r) = Add(b, c)
  BY <1>2, <1>3, <1>5, OffsetsAdd DEF End, b, c
<1>7. Lt(End(r), Add(s, 1))
  <2>1. c < g + 1 /\ (g + 1) - c < Half
    BY <1>1, <1>2, HalfFacts, QueueSizeAssumption, SMT
  <2> QED
    BY <1>2, <1>5, <1>6, <2>1, OffsetOrder
<1>8. Dist(End(r), Add(s, 1)) = (g + 1) - c
  <2>1. \A j, k \in 0 .. M - 1 : j <= k => Dist(Add(b, j), Add(b, k)) = k - j
    BY <1>2, OffsetDist
  <2>2. c <= g + 1
    BY <1>1, <1>2, <1>5, SMT
  <2> QED
    BY <1>5, <1>6, <2>1, <2>2
<1>9. {Idx(Add(End(r), j)) : j \in 0 .. ((g + 1) - c) - 1} = {Idx(Add(b, p)) : p \in c .. g}
  <2>1. \A j \in 0 .. ((g + 1) - c) - 1 : Add(End(r), j) = Add(b, c + j) /\ c + j \in c .. g
    <3>1. TAKE j \in 0 .. ((g + 1) - c) - 1
    <3>2. j \in 0 .. M - 1 /\ c + j <= M /\ c + j \in c .. g
      BY <1>1, <1>2, <1>5, ModulusAssumption, QueueSizeAssumption, SMT
    <3> QED
      BY <1>2, <1>5, <1>6, <3>2, OffsetsAdd
  <2>2. \A p \in c .. g : p - c \in 0 .. ((g + 1) - c) - 1 /\ p = c + (p - c)
    BY <1>1, <1>2, SMT
  <2> QED
    BY <2>1, <2>2
<1>10. Extend(r, Add(s, 1)) =
         [begin |-> b, count |-> g + 1,
          slots |-> [i \in SlotIds |-> IF i \in {Idx(Add(b, p)) : p \in c .. g}
                                      THEN Empty ELSE q.slots[i]]]
  <2>1. c + ((g + 1) - c) = g + 1
    BY <1>1, <1>2, SMT
  <2> QED
    BY <1>1, <1>7, <1>8, <1>9, <2>1 DEF Extend, b, c
<1> QED
  BY <1>4, <1>10 DEF Store, b, c, g, r

-----------------------------------------------------------------------------
(* Types                                                                   *)

\* A slot holds an element or nothing.
LEMMA EntryType ==
  ASSUME NEW q \in QueueType, NEW s \in SeqNums
  PROVE  EntryAt(q, s) \in Nat \cup {Empty}
  BY IdxInSlots, QueueFields DEF EntryAt

\* The window consists of numbers, its elements of elements.
LEMMA WindowType ==
  ASSUME NEW q \in QueueType
  PROVE  Window(q) \subseteq SeqNums /\ Elements(q) \subseteq Nat
<1>1. \A p \in 0 .. q.count - 1 : Add(q.begin, p) \in SeqNums
  <2>1. \A p \in 0 .. q.count - 1 : p \in 0 .. M
    BY QueueFields, HalfFacts, QueueSizeAssumption, SMT
  <2> QED
    BY <2>1, QueueFields, AddWraps
<1> QED
  BY <1>1, EntryType DEF Window, Elements

\* What a push evicts are elements.
LEMMA EvictedType ==
  ASSUME NEW q \in QueueType, NEW s \in SeqNums, NEW st
  PROVE  Evicted(q, s, st) \subseteq Nat
<1>1. \A j \in 0 .. Excess(q, s) - 1 : j \in 0 .. M
  <2>1. Add(s, 1) \in SeqNums /\ TotalEnd(q) \in SeqNums
    <3>1. 1 \in 0 .. M /\ QueueSize - q.count \in 0 .. M
      BY QueueFields, HalfFacts, QueueSizeAssumption, SMT
    <3> QED
      BY <3>1, QueueFields, AddWraps DEF TotalEnd
  <2>2. Dist(TotalEnd(q), Add(s, 1)) \in SeqNums
    BY <2>1, DistWraps
  <2>3. Excess(q, s) \in 0 .. M
    BY <2>2, QueueFields, HalfFacts, QueueSizeAssumption, ModulusAssumption, SMT
       DEF Excess, SeqNums
  <2> QED
    BY <2>3, ModulusAssumption, SMT
<1>2. \A j \in 0 .. Excess(q, s) - 1 : EntryAt(q, Add(q.begin, j)) \in Nat \cup {Empty}
  BY <1>1, QueueFields, AddWraps, EntryType
<1> QED
  BY <1>2 DEF Evicted

\* A push that passes the assertion leaves a queue, of at most QueueSize.
LEMMA PushedType ==
  ASSUME NEW q \in QueueType, NEW s \in SeqNums, NEW u \in Nat,
         NEW st \in {"begin", "end"}, ~AssertFails(q, s)
  PROVE  Pushed(q, s, u, st) \in QueueType
<1>1. CASE Refused(q, s, st)
  BY <1>1 DEF Pushed
<1>2. CASE ~Refused(q, s, st) /\ InWindow(q, s)
  BY <1>2, QueueFields, IdxInSlots DEF Pushed, Store, QueueType
<1>3. CASE ~Refused(q, s, st) /\ ~InWindow(q, s)
  <2> DEFINE r == Roomy(q, s)
             g == Place(q, s)
             taken == {Idx(Add(r.begin, p)) : p \in r.count .. g}
             f == [[i \in SlotIds |-> IF i \in taken THEN Empty ELSE q.slots[i]]
                     EXCEPT ![Idx(s)] = u]
  <2>1. Ahead(q, s)
    BY <1>3 DEF Ahead, Refused, TooOld
  <2>2. Pushed(q, s, u, st) = [begin |-> r.begin, count |-> g + 1, slots |-> f]
    BY <1>3, <2>1, PushedBeyondEnd
  <2>3. r.begin \in SeqNums /\ g + 1 \in 0 .. QueueSize
    <3>1. r \in QueueType /\ g \in 0 .. QueueSize - 1
      BY <2>1, RoomForNumber
    <3> QED
      BY <3>1, QueueFields, QueueSizeAssumption, SMT
  <2>4. f \in [SlotIds -> Nat \cup {Empty}]
    BY QueueFields, IdxInSlots
  <2> HIDE DEF r, g, f
  <2> QED
    BY <2>2, <2>3, <2>4 DEF QueueType
<1> QED
  BY <1>1, <1>2, <1>3

\* A push writes the new element, or nothing, and leaves the other slots.
LEMMA PushedSlots ==
  ASSUME NEW q \in QueueType, NEW s \in SeqNums, NEW u \in Nat,
         NEW st \in {"begin", "end"}, ~AssertFails(q, s), NEW i \in SlotIds
  PROVE  Pushed(q, s, u, st).slots[i] \in {u, Empty, q.slots[i]}
<1> DEFINE n == Pushed(q, s, u, st)
<1>1. CASE Refused(q, s, st)
  BY <1>1 DEF Pushed
<1>2. CASE ~Refused(q, s, st) /\ InWindow(q, s)
  <2>1. n.slots = [q.slots EXCEPT ![Idx(s)] = u]
    BY <1>2 DEF Pushed, Store, QueueType
  <2> QED
    BY <2>1, QueueFields
<1>3. CASE ~Refused(q, s, st) /\ ~InWindow(q, s)
  <2> DEFINE r == Roomy(q, s)
             g == Place(q, s)
             taken == {Idx(Add(r.begin, p)) : p \in r.count .. g}
             kept == [j \in SlotIds |-> IF j \in taken THEN Empty ELSE q.slots[j]]
  <2>1. Ahead(q, s)
    BY <1>3 DEF Ahead, Refused, TooOld
  <2>2. n = [begin |-> r.begin, count |-> g + 1, slots |-> [kept EXCEPT ![Idx(s)] = u]]
    BY <1>3, <2>1, PushedBeyondEnd
  <2>3. n.slots = [kept EXCEPT ![Idx(s)] = u] /\ kept[i] \in {Empty, q.slots[i]}
    BY <2>2
  <2> HIDE DEF n, r, g, taken, kept
  <2>4. DOMAIN kept = SlotIds
    BY DEF kept
  <2>5. n.slots[i] = IF i = Idx(s) THEN u ELSE kept[i]
    BY <2>3, <2>4
  <2> QED
    BY <2>3, <2>5 DEF n
<1> QED
  BY <1>1, <1>2, <1>3

\* What a pull leaves is a queue.
LEMMA PulledType ==
  ASSUME NEW q \in QueueType, CanPull(q)
  PROVE  Pulled(q) \in QueueType /\ EntryAt(q, q.begin) \in Nat
<1>1. Add(q.begin, 1) \in SeqNums
  <2>1. 1 \in 0 .. M
    BY ModulusAssumption, SMT
  <2> QED
    BY <2>1, QueueFields, AddWraps
<1>2. q.count - 1 \in 0 .. QueueSize
  BY QueueFields, QueueSizeAssumption, SMT DEF CanPull
<1>3. EntryAt(q, q.begin) \in Nat
  BY QueueFields, EntryType DEF CanPull
<1> QED
  BY <1>1, <1>2, <1>3, QueueFields DEF Pulled, QueueType

-----------------------------------------------------------------------------
(* Entries stay under their numbers                                         *)

\* Two numbers of one window do not share a slot.
LEMMA WindowIdx ==
  ASSUME NEW q \in QueueType, NEW s \in Window(q), NEW t \in Window(q), Idx(s) = Idx(t)
  PROVE  s = t
<1>1. PICK j \in 0 .. q.count - 1 : s = Add(q.begin, j)
  BY DEF Window
<1>2. PICK k \in 0 .. q.count - 1 : t = Add(q.begin, k)
  BY DEF Window
<1>3. j \in 0 .. QueueSize - 1 /\ k \in 0 .. QueueSize - 1
  BY QueueFields, QueueSizeAssumption, SMT
<1> QED
  BY <1>1, <1>2, <1>3, QueueFields, IdxInjective

\* InWindow is membership.
LEMMA InWindowMember ==
  ASSUME NEW q \in QueueType, NEW s \in SeqNums, InWindow(q, s)
  PROVE  s \in Window(q)
<1>1. Dist(q.begin, s) \in 0 .. q.count - 1
  BY PushTests, QueueFields, DistWraps, SMT DEF SeqNums
<1> QED
  BY <1>1, QueueFields, OffsetOfNumber DEF Window

\* After an accepted push the new element is found under its number, and under
\* any other number of the window either what was there before or nothing.
LEMMA PushedEntries ==
  ASSUME NEW q \in QueueType, NEW s \in SeqNums, NEW u \in Nat,
         NEW st \in {"begin", "end"}, ~AssertFails(q, s), ~Refused(q, s, st),
         NEW t \in Window(Pushed(q, s, u, st))
  PROVE  \/ t = s /\ EntryAt(Pushed(q, s, u, st), t) = u
         \/ EntryAt(Pushed(q, s, u, st), t) = Empty
         \/ t \in Window(q) /\ EntryAt(Pushed(q, s, u, st), t) = EntryAt(q, t)
<1> DEFINE n == Pushed(q, s, u, st)
<1>1. n \in QueueType
  BY PushedType
<1>2. t \in SeqNums /\ Idx(t) \in SlotIds /\ Idx(s) \in SlotIds
  BY <1>1, WindowType, IdxInSlots
<1>3. CASE InWindow(q, s)
  <2>1. n = Store(q, s, u)
    BY <1>3 DEF Pushed
  <2>2. n.slots = [q.slots EXCEPT ![Idx(s)] = u] /\ Window(n) = Window(q)
    BY <2>1 DEF Store, Window, QueueType
  <2>3. s \in Window(q) /\ t \in Window(q)
    BY <1>3, <2>2, InWindowMember
  <2>4. CASE t = s
    BY <1>2, <2>2, <2>4, QueueFields DEF EntryAt
  <2>5. CASE t # s
    <3>1. Idx(t) # Idx(s)
      BY <2>3, <2>5, WindowIdx
    <3> QED
      BY <1>2, <2>2, <2>3, <3>1, QueueFields DEF EntryAt
  <2> QED
    BY <2>4, <2>5
<1>4. CASE ~InWindow(q, s)
  <2> DEFINE r == Roomy(q, s)
             g == Place(q, s)
             taken == {Idx(Add(r.begin, p)) : p \in r.count .. g}
             f == [[i \in SlotIds |-> IF i \in taken THEN Empty ELSE q.slots[i]]
                     EXCEPT ![Idx(s)] = u]
  <2>1. Ahead(q, s)
    BY <1>4 DEF Ahead, Refused, TooOld
  <2>2. n = [begin |-> r.begin, count |-> g + 1, slots |-> f]
    BY <1>4, <2>1, PushedBeyondEnd
  <2>3. r \in QueueType /\ g \in 0 .. QueueSize - 1 /\ Window(r) \subseteq Window(q)
    BY <2>1, RoomForNumber
  <2>4. EntryAt(n, t) = IF Idx(t) = Idx(s) THEN u
                        ELSE IF Idx(t) \in taken THEN Empty ELSE q.slots[Idx(t)]
    BY <1>2, <2>2 DEF EntryAt
  <2>5. PICK k \in 0 .. g : t = Add(r.begin, k)
    BY <2>2, <2>3, SMT DEF Window
  <2>6. s = Add(r.begin, g) /\ g \in 0 .. g
    BY <2>3, QueueFields, OffsetOfNumber, SMT DEF Place
  <2>7. s \in Window(n)
    <3>1. g \in 0 .. (g + 1) - 1
      BY <2>3, SMT
    <3> QED
      BY <2>2, <2>6, <3>1 DEF Window
  <2>8. CASE t = s
    BY <2>4, <2>8
  <2>9. CASE t # s
    <3>1. Idx(t) # Idx(s)
      BY <1>1, <2>7, <2>9, WindowIdx
    <3>2. CASE k < r.count
      <4>1. k \in 0 .. r.count - 1
        BY <2>3, <2>5, <3>2, QueueFields, SMT
      <4>2. t \in Window(q)
        BY <2>3, <2>5, <4>1 DEF Window
      <4>3. EntryAt(n, t) = Empty \/ EntryAt(n, t) = EntryAt(q, t)
        BY <2>4, <3>1 DEF EntryAt
      <4> QED
        BY <4>2, <4>3
    <3>3. CASE ~(k < r.count)
      <4>1. k \in r.count .. g
        BY <2>3, <2>5, <3>3, QueueFields, SMT
      <4> QED
        BY <2>4, <2>5, <3>1, <4>1
    <3> QED
      BY <3>2, <3>3
  <2> QED
    BY <2>8, <2>9
<1> QED
  BY <1>3, <1>4

\* Pulling only shortens the window.
LEMMA PulledEntries ==
  ASSUME NEW q \in QueueType, CanPull(q)
  PROVE  /\ Window(Pulled(q)) \subseteq Window(q)
         /\ \A t : EntryAt(Pulled(q), t) = EntryAt(q, t)
<1>1. \A p \in 0 .. (q.count - 1) - 1 :
         Add(Add(q.begin, 1), p) = Add(q.begin, 1 + p) /\ 1 + p \in 0 .. q.count - 1
  <2>1. TAKE p \in 0 .. (q.count - 1) - 1
  <2>2. 1 \in 0 .. M - 1 /\ p \in 0 .. M - 1 /\ 1 + p <= M /\ 1 + p \in 0 .. q.count - 1
    BY QueueFields, HalfFacts, QueueSizeAssumption, SMT
  <2> QED
    BY <2>2, QueueFields, OffsetsAdd
<1>2. Window(Pulled(q)) = {Add(Add(q.begin, 1), p) : p \in 0 .. (q.count - 1) - 1}
  BY DEF Window, Pulled
<1> QED
  BY <1>1, <1>2 DEF Window, Pulled, EntryAt

-----------------------------------------------------------------------------
(* With the strategy "end" nothing is skipped                               *)

\* With "end" a push leaves begin alone: what would move it is refused.
LEMMA PushedBegin ==
  ASSUME NEW q \in QueueType, NEW s \in SeqNums, NEW u
  PROVE  Pushed(q, s, u, "end").begin = q.begin
<1>1. CASE Refused(q, s, "end")
  BY <1>1 DEF Pushed
<1>2. CASE ~Refused(q, s, "end") /\ InWindow(q, s)
  BY <1>2, QueueFields DEF Pushed, Store
<1>3. CASE ~Refused(q, s, "end") /\ ~InWindow(q, s)
  <2>1. ~Overrun(q, s)
    BY <1>3 DEF Refused
  <2>2. Pushed(q, s, u, "end") = Store(Extend(q, Add(s, 1)), s, u)
    BY <1>3, <2>1 DEF Pushed
  <2> QED
    BY <2>2 DEF Store, Extend
<1> QED
  BY <1>1, <1>2, <1>3

-----------------------------------------------------------------------------
(* What a push keeps, evicts and adds, and why no entry gets lost or shows *)
(* up twice                                                                *)

\* Making room moves the front by y: to the first entry that is not popped, or
\* to s itself, which is at least as far.
LEMMA RoomOffset ==
  ASSUME NEW q \in QueueType, NEW s \in SeqNums, ~AssertFails(q, s), Ahead(q, s)
  PROVE  \E y \in 0 .. Dist(q.begin, s) :
           /\ Roomy(q, s).begin = Add(q.begin, y)
           /\ Place(q, s) = Dist(q.begin, s) - y
           /\ y >= q.count \/ Roomy(q, s).count = q.count - y
           /\ \A j \in 0 .. q.count - 1 : j < y <=> Overrun(q, s) /\ j < Excess(q, s)
<1> DEFINE b == q.begin
           c == q.count
           e == Dist(b, s)
           x == Excess(q, s)
<1>1. b \in SeqNums /\ c \in 0 .. QueueSize /\ e \in 0 .. M - 1 /\ b = Add(b, 0)
  BY QueueFields, DistWraps DEF SeqNums
<1>2. s = Add(b, e) /\ e \in 0 .. e /\ 0 \in 0 .. e
  BY <1>1, OffsetOfNumber, SMT
<1>3. c <= e /\ e <= Half /\ (Overrun(q, s) <=> QueueSize <= e)
  BY PushTests
<1>4. CASE ~Overrun(q, s)
  <2>1. /\ Roomy(q, s).begin = Add(b, 0) /\ Place(q, s) = e /\ Roomy(q, s).count = c
        /\ e = e - 0 /\ c = c - 0 /\ \A j \in 0 .. c - 1 : ~(j < 0)
    BY <1>1, <1>4, SMT DEF Roomy, Place
  <2> QED
    BY <1>2, <1>4, <2>1
<1>5. CASE Overrun(q, s)
  <2>1. x = IF (e + 1) - QueueSize < c THEN (e + 1) - QueueSize ELSE c
    BY <1>5, ExcessInOffsets
  <2>2. /\ Roomy(q, s).begin = (IF x = c THEN s ELSE Add(b, x))
        /\ Roomy(q, s).count = c - x
    BY <1>5 DEF Roomy, MakeRoom
  <2> HIDE DEF x, b, c, e
  <2>3. x \in 0 .. c /\ x \in 0 .. M - 1 /\ x \in 0 .. e
    BY <1>1, <1>3, <1>5, <2>1, HalfFacts, QueueSizeAssumption, SMT
  <2>4. CASE x = c
    <3>1. Roomy(q, s).begin = Add(b, e) /\ Place(q, s) = Dist(s, s)
      BY <1>2, <2>2, <2>4 DEF Place
    <3>2. Dist(s, s) = 0 /\ e - e = 0 /\ e >= c
      BY <1>1, <1>3, DistWraps, SMT DEF SeqNums
    <3>3. \A j \in 0 .. c - 1 : j < e /\ j < x
      BY <1>1, <1>3, <2>4, SMT
    <3> QED
      BY <1>2, <1>5, <3>1, <3>2, <3>3 DEF x, b, c, e
  <2>5. CASE x # c
    <3>1. Roomy(q, s).begin = Add(b, x) /\ Place(q, s) = Dist(Add(b, x), Add(b, e))
      BY <1>2, <2>2, <2>5 DEF Place
    <3>2. Dist(Add(b, x), Add(b, e)) = e - x
      BY <1>1, <2>3, OffsetDist, SMT
    <3> QED
      BY <1>5, <2>2, <2>3, <3>1, <3>2 DEF x, b, c, e
  <2> QED
    BY <2>4, <2>5
<1> QED
  BY <1>4, <1>5

\* An accepted push keeps what it does not evict where it was, moves what it
\* evicts out of the window, and has room for the new element.
LEMMA PushedKeeps ==
  ASSUME NEW q \in QueueType, NEW s \in SeqNums, NEW u \in Nat,
         NEW st \in {"begin", "end"}, ~AssertFails(q, s), Ahead(q, s), ~Refused(q, s, st),
         NEW j \in 0 .. q.count - 1
  PROVE  LET n == Pushed(q, s, u, st)
             t == Add(q.begin, j)
         IN  IF Overrun(q, s) /\ j < Excess(q, s)
             THEN t \notin Window(n)
             ELSE t \in Window(n) /\ t # s /\ EntryAt(n, t) = EntryAt(q, t)
<1> DEFINE b == q.begin
           c == q.count
           e == Dist(b, s)
           r == Roomy(q, s)
           g == Place(q, s)
           t == Add(b, j)
           n == Pushed(q, s, u, st)
           taken == {Idx(Add(r.begin, p)) : p \in r.count .. g}
           f == [[i \in SlotIds |-> IF i \in taken THEN Empty ELSE q.slots[i]]
                   EXCEPT ![Idx(s)] = u]
<1>1. b \in SeqNums /\ c \in 0 .. QueueSize /\ e \in 0 .. M - 1 /\ s = Add(b, e)
  BY QueueFields, DistWraps, OffsetOfNumber DEF SeqNums
<1>2. c <= e /\ e <= Half
  BY PushTests
<1>3. n = [begin |-> r.begin, count |-> g + 1, slots |-> f]
  BY PushedBeyondEnd
<1>4. n \in QueueType /\ r \in QueueType /\ g \in 0 .. QueueSize - 1 /\ r.count <= g
  BY PushedType, RoomForNumber
<1>5. PICK y \in 0 .. e :
         /\ r.begin = Add(b, y) /\ g = e - y
         /\ y >= c \/ r.count = c - y
         /\ \A i \in 0 .. c - 1 : i < y <=> Overrun(q, s) /\ i < Excess(q, s)
  BY RoomOffset
<1> HIDE DEF r, g, n
<1>6. \A p \in 0 .. g : Add(r.begin, p) = Add(b, y + p) /\ y + p \in y .. e
  <2>1. TAKE p \in 0 .. g
  <2>2. y \in 0 .. M - 1 /\ p \in 0 .. M - 1 /\ y + p <= M /\ y + p \in y .. e
    BY <1>1, <1>2, <1>4, <1>5, HalfFacts, QueueSizeAssumption, SMT
  <2> QED
    BY <1>1, <1>5, <2>2, OffsetsAdd
<1>7. j \in 0 .. M - 1 /\ y \in 0 .. M - 1 /\ e \in 0 .. M - 1 /\ y .. e \subseteq 0 .. M - 1
  BY <1>1, <1>2, <1>5, HalfFacts, QueueSizeAssumption, SMT
<1>8. CASE j < y
  <2>1. \A p \in 0 .. g : t # Add(r.begin, p)
    <3>1. TAKE p \in 0 .. g
    <3>2. y + p \in 0 .. M - 1 /\ j # y + p
      BY <1>5, <1>6, <1>7, <1>8, SMT
    <3> QED
      BY <1>1, <1>6, <1>7, <3>2, OffsetOrder
  <2>2. (g + 1) - 1 = g
    BY <1>4, SMT
  <2>3. t \notin Window(n)
    BY <1>3, <2>1, <2>2 DEF Window
  <2> QED
    BY <1>5, <1>8, <2>3 DEF n, c, b
<1>9. CASE ~(j < y)
  <2>1. /\ j - y \in 0 .. r.count - 1 /\ j - y \in 0 .. g /\ y + (j - y) = j
        /\ (g + 1) - 1 = g /\ j # e
    BY <1>1, <1>2, <1>4, <1>5, <1>9, QueueSizeAssumption, SMT
  <2>2. t = Add(r.begin, j - y)
    BY <1>6, <2>1
  <2>3. t \in Window(n)
    BY <1>3, <2>1, <2>2 DEF Window
  <2>4. t # s
    BY <1>1, <1>7, <2>1, OffsetOrder
  <2>5. \A p \in r.count .. g : Idx(t) # Idx(Add(r.begin, p))
    <3>1. TAKE p \in r.count .. g
    <3>2. r.begin \in SeqNums /\ r.count \in 0 .. QueueSize
      BY <1>4, QueueFields
    <3>3. p \in 0 .. QueueSize - 1 /\ j - y \in 0 .. QueueSize - 1 /\ p # j - y
          /\ p \in 0 .. M - 1 /\ j - y \in 0 .. M - 1
      BY <1>4, <2>1, <3>2, HalfFacts, QueueSizeAssumption, SMT
    <3>4. Add(r.begin, p) # Add(r.begin, j - y)
      BY <3>2, <3>3, OffsetOrder
    <3> QED
      BY <2>2, <3>2, <3>3, <3>4, IdxInjective
  <2>6. s = Add(r.begin, g) /\ g \in r.count .. g
    <3>1. y + (e - y) = e /\ e - y \in 0 .. g
      BY <1>1, <1>4, <1>5, SMT
    <3> QED
      BY <1>1, <1>4, <1>5, <1>6, <3>1, QueueFields, SMT
  <2>7. Idx(t) \in SlotIds /\ Idx(t) # Idx(s) /\ Idx(t) \notin taken
    <3>1. t \in SeqNums
      BY <1>4, <2>3, PushedType, WindowType DEF n
    <3> QED
      BY <2>5, <2>6, <3>1, IdxInSlots
  <2>8. EntryAt(n, t) = EntryAt(q, t)
    BY <1>3, <2>7 DEF EntryAt
  <2> QED
    BY <1>5, <1>9, <2>3, <2>4, <2>8 DEF n, c, b
<1> QED
  BY <1>8, <1>9

\* The new element is found under its number.
LEMMA PushedHasNew ==
  ASSUME NEW q \in QueueType, NEW s \in SeqNums, NEW u \in Nat,
         NEW st \in {"begin", "end"}, ~AssertFails(q, s), ~Refused(q, s, st)
  PROVE  s \in Window(Pushed(q, s, u, st)) /\ EntryAt(Pushed(q, s, u, st), s) = u
<1> DEFINE n == Pushed(q, s, u, st)
<1>1. Idx(s) \in SlotIds
  BY IdxInSlots
<1>2. CASE InWindow(q, s)
  <2>1. n = Store(q, s, u)
    BY <1>2 DEF Pushed
  <2>2. n.slots = [q.slots EXCEPT ![Idx(s)] = u] /\ Window(n) = Window(q)
    BY <2>1 DEF Store, Window, QueueType
  <2> QED
    BY <1>1, <1>2, <2>2, InWindowMember, QueueFields DEF EntryAt
<1>3. CASE ~InWindow(q, s)
  <2> DEFINE r == Roomy(q, s)
             g == Place(q, s)
             taken == {Idx(Add(r.begin, p)) : p \in r.count .. g}
             f == [[i \in SlotIds |-> IF i \in taken THEN Empty ELSE q.slots[i]]
                     EXCEPT ![Idx(s)] = u]
  <2>1. Ahead(q, s)
    BY <1>3 DEF Ahead, Refused, TooOld
  <2>2. n = [begin |-> r.begin, count |-> g + 1, slots |-> f]
    BY <1>3, <2>1, PushedBeyondEnd
  <2>3. r \in QueueType /\ g \in 0 .. (g + 1) - 1
    BY <2>1, RoomForNumber, QueueSizeAssumption, SMT
  <2>4. s = Add(r.begin, g)
    BY <2>3, QueueFields, OffsetOfNumber DEF Place
  <2>5. s \in Window(n)
    BY <2>2, <2>3, <2>4 DEF Window
  <2>6. EntryAt(n, s) = u
    BY <1>1, <2>2 DEF EntryAt
  <2> QED
    BY <2>5, <2>6
<1> QED
  BY <1>2, <1>3

\* No element is in the window twice.
Separate(q) ==
  \A s, t \in Window(q) : (EntryAt(q, s) = EntryAt(q, t) /\ EntryAt(q, s) # Empty) => s = t

\* An accepted push adds the new element and takes out exactly what it evicts.
LEMMA PushedElements ==
  ASSUME NEW q \in QueueType, NEW s \in SeqNums, NEW u \in Nat,
         NEW st \in {"begin", "end"}, ~AssertFails(q, s), ~Refused(q, s, st), Separate(q)
  PROVE  /\ Elements(Pushed(q, s, u, st)) = (Elements(q) \ Evicted(q, s, st)) \cup {u}
         /\ Evicted(q, s, st) \subseteq Elements(q)
<1> DEFINE n == Pushed(q, s, u, st)
<1>1. s \in Window(n) /\ EntryAt(n, s) = u /\ u # Empty
  BY PushedHasNew, EmptyAssumption
<1>2. CASE InWindow(q, s)
  <2>1. n = Store(q, s, u) /\ Evicted(q, s, st) = {}
    BY <1>2 DEF Pushed, Evicted, Overrun, Ahead
  <2>2. n.slots = [q.slots EXCEPT ![Idx(s)] = u] /\ Window(n) = Window(q)
    BY <2>1 DEF Store, Window, QueueType
  <2>3. s \in Window(q) /\ EntryAt(q, s) = Empty
    BY <1>2, InWindowMember DEF Refused
  <2>4. \A t \in Window(q) : t # s => EntryAt(n, t) = EntryAt(q, t)
    <3>1. SUFFICES ASSUME NEW t \in Window(q), t # s PROVE EntryAt(n, t) = EntryAt(q, t)
      OBVIOUS
    <3>2. Idx(t) # Idx(s)
      BY <2>3, <3>1, WindowIdx
    <3>3. Idx(t) \in SlotIds
      BY WindowType, IdxInSlots
    <3> QED
      BY <2>2, <3>2, <3>3, QueueFields DEF EntryAt
  <2> HIDE DEF n
  <2> QED
    BY <1>1, <2>1, <2>2, <2>3, <2>4 DEF Elements, n
<1>3. CASE ~InWindow(q, s)
  <2>1. Ahead(q, s)
    BY <1>3 DEF Ahead, Refused, TooOld
  <2>2. \A i \in 0 .. Excess(q, s) - 1 : Overrun(q, s) => i \in 0 .. q.count - 1
    <3>1. Overrun(q, s) => Excess(q, s) <= q.count
      BY ExcessInOffsets, QueueFields, DistWraps, QueueSizeAssumption, SMT DEF SeqNums
    <3>2. Overrun(q, s) => Excess(q, s) \in Int
      BY ExcessInOffsets, QueueFields, DistWraps, QueueSizeAssumption, SMT DEF SeqNums
    <3> QED
      BY <3>1, <3>2, QueueFields, SMT
  <2>3. \A j \in 0 .. q.count - 1 :
           IF Overrun(q, s) /\ j < Excess(q, s)
           THEN Add(q.begin, j) \notin Window(n)
           ELSE /\ Add(q.begin, j) \in Window(n)
                /\ EntryAt(n, Add(q.begin, j)) = EntryAt(q, Add(q.begin, j))
    BY <2>1, PushedKeeps
  <2>4. \A t \in Window(n) :
           \/ t = s /\ EntryAt(n, t) = u
           \/ EntryAt(n, t) = Empty
           \/ t \in Window(q) /\ EntryAt(n, t) = EntryAt(q, t)
    BY PushedEntries
  <2> HIDE DEF n
  <2>5. Evicted(q, s, st) \subseteq Elements(q)
    BY <2>2 DEF Evicted, Elements, Window
  <2>6. ASSUME NEW t \in Window(n), EntryAt(n, t) # Empty
        PROVE  EntryAt(n, t) \in (Elements(q) \ Evicted(q, s, st)) \cup {u}
    <3>1. SUFFICES ASSUME t \in Window(q), EntryAt(n, t) = EntryAt(q, t),
                          EntryAt(q, t) \in Evicted(q, s, st)
                   PROVE  FALSE
      BY <2>4, <2>6 DEF Elements
    <3>2. PICK i \in 0 .. Excess(q, s) - 1 :
             Overrun(q, s) /\ EntryAt(q, t) = EntryAt(q, Add(q.begin, i))
      BY <3>1 DEF Evicted
    <3>3. i \in 0 .. q.count - 1 /\ i < Excess(q, s)
      BY <2>2, <3>2, ExcessInOffsets, QueueFields, DistWraps, QueueSizeAssumption, SMT
         DEF SeqNums
    <3>4. t = Add(q.begin, i)
      BY <2>6, <3>1, <3>2, <3>3 DEF Separate, Window
    <3> QED
      BY <2>3, <2>6, <3>2, <3>3, <3>4
  <2>7. ASSUME NEW t \in Window(q), EntryAt(q, t) # Empty,
               EntryAt(q, t) \notin Evicted(q, s, st)
        PROVE  EntryAt(q, t) \in Elements(n)
    <3>1. PICK j \in 0 .. q.count - 1 : t = Add(q.begin, j)
      BY DEF Window
    <3>2. ~(Overrun(q, s) /\ j < Excess(q, s))
      <4>1. SUFFICES ASSUME Overrun(q, s), j < Excess(q, s) PROVE FALSE
        OBVIOUS
      <4>2. q.count \in 0 .. QueueSize /\ Dist(q.begin, s) \in 0 .. M - 1
        BY QueueFields, DistWraps DEF SeqNums
      <4>3. j \in 0 .. Excess(q, s) - 1
        BY <4>1, <4>2, ExcessInOffsets, ModulusAssumption, QueueSizeAssumption, SMT
      <4>4. st = "begin"
        BY <4>1 DEF Refused
      <4> QED
        BY <2>7, <3>1, <4>1, <4>3, <4>4 DEF Evicted
    <3> QED
      BY <2>3, <2>7, <3>1, <3>2 DEF Elements
  <2> QED
    BY <1>1, <2>5, <2>6, <2>7 DEF Elements, n
<1> QED
  BY <1>2, <1>3

\* A pull takes the front out of the window, and nothing else.
LEMMA PulledWindow ==
  ASSUME NEW q \in QueueType, CanPull(q)
  PROVE  q.begin \in Window(q) /\ Window(Pulled(q)) = Window(q) \ {q.begin}
<1> DEFINE b == q.begin
           n == Pulled(q)
<1>1. b \in SeqNums /\ q.count \in 0 .. QueueSize /\ q.count > 0 /\ b = Add(b, 0)
  BY QueueFields DEF CanPull
<1>2. 0 \in 0 .. q.count - 1 /\ 0 \in 0 .. M - 1
  BY <1>1, ModulusAssumption, QueueSizeAssumption, SMT
<1>3. b \in Window(q)
  BY <1>1, <1>2 DEF Window
<1>4. \A j \in 0 .. q.count - 1 : j # 0 =>
         /\ j - 1 \in 0 .. (q.count - 1) - 1
         /\ Add(Add(b, 1), j - 1) = Add(b, j)
  <2>1. SUFFICES ASSUME NEW j \in 0 .. q.count - 1, j # 0
                 PROVE  j - 1 \in 0 .. (q.count - 1) - 1 /\ Add(Add(b, 1), j - 1) = Add(b, j)
    OBVIOUS
  <2>2. /\ j - 1 \in 0 .. (q.count - 1) - 1 /\ 1 \in 0 .. M - 1 /\ j - 1 \in 0 .. M - 1
        /\ 1 + (j - 1) <= M /\ 1 + (j - 1) = j
    BY <1>1, <2>1, HalfFacts, QueueSizeAssumption, SMT
  <2> QED
    BY <1>1, <2>2, OffsetsAdd
<1>5. Window(n) = {Add(Add(b, 1), p) : p \in 0 .. (q.count - 1) - 1}
  BY DEF Window, Pulled
<1>6. \A t \in Window(q) : t # b => t \in Window(n)
  <2>1. SUFFICES ASSUME NEW j \in 0 .. q.count - 1, Add(b, j) # b
                 PROVE  Add(b, j) \in Window(n)
    BY DEF Window
  <2>2. j # 0
    BY <1>1, <2>1
  <2> QED
    BY <1>4, <1>5, <2>2
<1>7. b \notin Window(n)
  <2>1. SUFFICES ASSUME NEW p \in 0 .. (q.count - 1) - 1 PROVE b # Add(Add(b, 1), p)
    BY <1>5
  <2>2. /\ 1 \in 0 .. M - 1 /\ p \in 0 .. M - 1 /\ 1 + p <= M
        /\ 1 + p \in 0 .. M - 1 /\ 1 + p # 0
    BY <1>1, <2>1, HalfFacts, QueueSizeAssumption, SMT
  <2>3. Add(Add(b, 1), p) = Add(b, 1 + p)
    BY <1>1, <2>2, OffsetsAdd
  <2> QED
    BY <1>1, <1>2, <2>2, <2>3, OffsetOrder
<1>8. Window(n) \subseteq Window(q)
  BY PulledEntries
<1> QED
  BY <1>3, <1>6, <1>7, <1>8

\* A pull takes out the element at the front, and nothing else.
LEMMA PulledElements ==
  ASSUME NEW q \in QueueType, CanPull(q), Separate(q)
  PROVE  /\ Elements(Pulled(q)) = Elements(q) \ {EntryAt(q, q.begin)}
         /\ EntryAt(q, q.begin) \in Elements(q)
<1>1. /\ q.begin \in Window(q) /\ EntryAt(q, q.begin) # Empty
      /\ Window(Pulled(q)) = Window(q) \ {q.begin}
      /\ \A t : EntryAt(Pulled(q), t) = EntryAt(q, t)
  BY PulledWindow, PulledEntries DEF CanPull
<1> QED
  BY <1>1 DEF Elements, Separate

-----------------------------------------------------------------------------
(* Which end gives way                                                      *)

\* What a push evicts lies in front of all that stays, the new number included.
LEMMA EvictedIsOldest ==
  ASSUME NEW q \in QueueType, NEW s \in SeqNums, NEW st,
         NEW t \in Evicted(q, s, st)
  PROVE  \E j \in 0 .. q.count - 1 :
           /\ t = EntryAt(q, Add(q.begin, j)) /\ t # Empty
           /\ ~Lt(s, Add(q.begin, j))
           /\ \A k \in 0 .. q.count - 1 :
                EntryAt(q, Add(q.begin, k)) \notin Evicted(q, s, st) \cup {Empty}
                  => ~Lt(Add(q.begin, k), Add(q.begin, j))
<1> DEFINE b == q.begin
           c == q.count
           e == Dist(b, s)
           x == Excess(q, s)
<1>1. Overrun(q, s) /\ st = "begin"
  BY DEF Evicted
<1>2. PICK j \in 0 .. x - 1 : t = EntryAt(q, Add(b, j)) /\ t # Empty
  BY <1>1 DEF Evicted
<1>3. x = IF (e + 1) - QueueSize < c THEN (e + 1) - QueueSize ELSE c
  BY <1>1, ExcessInOffsets
<1>4. /\ b \in SeqNums /\ c \in 0 .. QueueSize /\ e \in 0 .. M - 1 /\ s = Add(b, e)
      /\ QueueSize <= e /\ e <= Half
  BY <1>1, QueueFields, DistWraps, OffsetOfNumber, PushTests DEF SeqNums
<1>5. \A k \in 0 .. c - 1 : k < x => EntryAt(q, Add(b, k)) \in Evicted(q, s, st) \cup {Empty}
  <2>1. x \in Nat
    BY <1>3, <1>4, QueueSizeAssumption, SMT
  <2>2. \A k \in 0 .. c - 1 : k < x => k \in 0 .. x - 1
    BY <1>4, <2>1, QueueSizeAssumption, SMT
  <2> QED
    BY <1>1, <2>2 DEF Evicted
<1> HIDE DEF b, c, e, x
<1>6. /\ j \in 0 .. c - 1 /\ j \in 0 .. M - 1 /\ j < x /\ j < e /\ e - j <= Half
      /\ c <= M /\ c < Half /\ x \in Nat
  BY <1>2, <1>3, <1>4, HalfFacts, QueueSizeAssumption, SMT
<1>7. ~Lt(s, Add(b, j))
  <2>1. Lt(Add(b, e), Add(b, j)) <=> \/ e < j /\ j - e < Half
                                     \/ e > j /\ e - j > Half
    BY <1>4, <1>6, OffsetOrder
  <2> QED
    BY <1>4, <1>6, <2>1, HalfFacts, SMT
<1>8. ASSUME NEW k \in 0 .. c - 1, ~(k < x)
      PROVE  ~Lt(Add(b, k), Add(b, j))
  <2>1. k \in 0 .. M - 1 /\ k > j /\ k - j < Half
    BY <1>4, <1>6, <1>8, HalfFacts, QueueSizeAssumption, SMT
  <2>2. Lt(Add(b, k), Add(b, j)) <=> \/ k < j /\ j - k < Half
                                     \/ k > j /\ k - j > Half
    BY <1>4, <1>6, <2>1, OffsetOrder
  <2> QED
    BY <1>4, <1>6, <2>1, <2>2, HalfFacts, SMT
<1> QED
  BY <1>2, <1>5, <1>6, <1>7, <1>8 DEF b, c

-----------------------------------------------------------------------------
(* What is held after a push                                                *)

\* The numbers that have an element waiting, while the queue lives.
Holding(q) == {t \in Window(q) : EntryAt(q, t) # Empty}

\* A number of the window is less than a ring away from its front.
LEMMA WindowDist ==
  ASSUME NEW q \in QueueType, NEW j \in 0 .. q.count - 1
  PROVE  Dist(q.begin, Add(q.begin, j)) = j /\ j < QueueSize
<1>1. /\ q.begin \in SeqNums /\ q.begin = Add(q.begin, 0)
      /\ j \in 0 .. M - 1 /\ 0 \in 0 .. M - 1 /\ j < QueueSize
  BY QueueFields, HalfFacts, QueueSizeAssumption, SMT
<1>2. \A k \in 0 .. M - 1 : Dist(Add(q.begin, 0), Add(q.begin, k)) = IF 0 <= k THEN k - 0 ELSE (k - 0) + M
  BY <1>1, OffsetDist
<1> QED
  BY <1>1, <1>2, SMT

\* The window after a push that went beyond its end begins where it did, or
\* moved just far enough for s, or to s.
LEMMA PushedFront ==
  ASSUME NEW q \in QueueType, NEW s \in SeqNums, NEW u \in Nat,
         NEW st \in {"begin", "end"}, ~AssertFails(q, s), Ahead(q, s), ~Refused(q, s, st)
  PROVE  IF Overrun(q, s)
         THEN Pushed(q, s, u, st).begin \in {s, Add(s, (M + 1) - QueueSize)}
         ELSE Pushed(q, s, u, st).begin = q.begin
<1> DEFINE b == q.begin
           c == q.count
           e == Dist(b, s)
           x == Excess(q, s)
<1>1. Pushed(q, s, u, st).begin = Roomy(q, s).begin
  BY PushedBeyondEnd
<1>2. CASE ~Overrun(q, s)
  BY <1>1, <1>2 DEF Roomy
<1>3. CASE Overrun(q, s)
  <2>1. Roomy(q, s).begin = IF x = c THEN s ELSE Add(b, x)
    BY <1>3 DEF Roomy, MakeRoom
  <2>2. x = IF (e + 1) - QueueSize < c THEN (e + 1) - QueueSize ELSE c
    BY <1>3, ExcessInOffsets
  <2>3. CASE x = c
    BY <1>1, <1>3, <2>1, <2>3
  <2>4. CASE x # c
    <3>1. x = (e + 1) - QueueSize
      BY <2>2, <2>4
    <3>2. b \in SeqNums /\ e \in 0 .. M - 1 /\ s = Add(b, e) /\ QueueSize <= e /\ e <= Half
      BY <1>3, QueueFields, DistWraps, OffsetOfNumber, PushTests DEF SeqNums
    <3> HIDE DEF x, b, c, e
    <3>3. /\ x \in 0 .. M /\ e \in 0 .. M /\ (M + 1) - QueueSize \in 0 .. M
          /\ M \in Nat /\ QueueSize \in Nat
      BY <3>1, <3>2, HalfFacts, QueueSizeAssumption, ModulusAssumption, SMT
    <3>4. Add(b, x) = IF b + x < M THEN b + x ELSE (b + x) - M
      BY <3>2, <3>3, AddWraps
    <3>5. s = IF b + e < M THEN b + e ELSE (b + e) - M
      BY <3>2, <3>3, AddWraps
    <3>6. Add(s, (M + 1) - QueueSize) = IF s + ((M + 1) - QueueSize) < M
                                      THEN s + ((M + 1) - QueueSize)
                                      ELSE (s + ((M + 1) - QueueSize)) - M
      BY <3>3, AddWraps
    <3>7. Add(b, x) = Add(s, (M + 1) - QueueSize)
      BY <3>1, <3>2, <3>3, <3>4, <3>5, <3>6, HalfFacts, QueueSizeAssumption, SMT DEF SeqNums
    <3> QED
      BY <1>1, <1>3, <2>1, <2>4, <3>7
  <2> QED
    BY <2>3, <2>4
<1> QED
  BY <1>2, <1>3

\* What is evicted is what no longer fits into the new window.
LEMMA EvictedDoesNotFit ==
  ASSUME NEW q \in QueueType, NEW s \in SeqNums, NEW u \in Nat,
         NEW st \in {"begin", "end"}, ~AssertFails(q, s), Ahead(q, s), ~Refused(q, s, st),
         NEW j \in 0 .. q.count - 1
  PROVE  Dist(Pushed(q, s, u, st).begin, Add(q.begin, j)) < QueueSize
           <=> ~(Overrun(q, s) /\ j < Excess(q, s))
<1> DEFINE b == q.begin
           e == Dist(b, s)
<1>1. b \in SeqNums /\ e \in 0 .. M - 1 /\ q.count \in 0 .. QueueSize /\ e <= Half
  BY QueueFields, DistWraps, PushTests DEF SeqNums
<1>2. PICK y \in 0 .. e :
         /\ Roomy(q, s).begin = Add(b, y)
         /\ \A i \in 0 .. q.count - 1 : i < y <=> Overrun(q, s) /\ i < Excess(q, s)
  BY RoomOffset
<1>3. Pushed(q, s, u, st).begin = Add(b, y)
  BY <1>2, PushedBeyondEnd
<1> HIDE DEF b, e
<1>4. y \in 0 .. M - 1 /\ j \in 0 .. M - 1 /\ y <= Half /\ j < QueueSize
  BY <1>1, <1>2, HalfFacts, QueueSizeAssumption, SMT
<1>5. Dist(Add(b, y), Add(b, j)) = IF y <= j THEN j - y ELSE (j - y) + M
  BY <1>1, <1>4, OffsetDist
<1>6. Dist(Add(b, y), Add(b, j)) < QueueSize <=> ~(j < y)
  BY <1>4, <1>5, HalfFacts, QueueSizeAssumption, SMT
<1> QED
  BY <1>2, <1>3, <1>6 DEF b

\* What is held after an accepted push: what still fits, and the new element.
LEMMA PushedHolding ==
  ASSUME NEW q \in QueueType, NEW s \in SeqNums, NEW u \in Nat,
         NEW st \in {"begin", "end"}, ~AssertFails(q, s), ~Refused(q, s, st)
  PROVE  LET n == Pushed(q, s, u, st)
             kept == {t \in Holding(q) : Dist(n.begin, t) < QueueSize}
         IN  /\ s \notin Holding(q)
             /\ Holding(n) = kept \cup {s}
             /\ EntryAt(n, s) = u
             /\ \A t \in kept : EntryAt(n, t) = EntryAt(q, t)
<1> DEFINE n == Pushed(q, s, u, st)
           kept == {t \in Holding(q) : Dist(n.begin, t) < QueueSize}
<1>1. s \in Window(n) /\ EntryAt(n, s) = u /\ u # Empty
  BY PushedHasNew, EmptyAssumption
<1>2. CASE InWindow(q, s)
  <2>1. n = Store(q, s, u)
    BY <1>2 DEF Pushed
  <2>2. /\ n.slots = [q.slots EXCEPT ![Idx(s)] = u]
        /\ Window(n) = Window(q) /\ n.begin = q.begin
    BY <2>1 DEF Store, Window, QueueType
  <2>3. s \in Window(q) /\ EntryAt(q, s) = Empty
    BY <1>2, InWindowMember DEF Refused
  <2>4. \A t \in Window(q) : t # s => EntryAt(n, t) = EntryAt(q, t)
    <3>1. SUFFICES ASSUME NEW t \in Window(q), t # s PROVE EntryAt(n, t) = EntryAt(q, t)
      OBVIOUS
    <3>2. Idx(t) # Idx(s)
      BY <2>3, <3>1, WindowIdx
    <3>3. Idx(t) \in SlotIds
      BY WindowType, IdxInSlots
    <3> QED
      BY <2>2, <3>2, <3>3, QueueFields DEF EntryAt
  <2>5. \A t \in Window(q) : Dist(n.begin, t) < QueueSize
    BY <2>2, WindowDist DEF Window
  <2> HIDE DEF n
  <2> QED
    BY <1>1, <2>2, <2>3, <2>4, <2>5 DEF Holding, n
<1>3. CASE ~InWindow(q, s)
  <2>1. Ahead(q, s)
    BY <1>3 DEF Ahead, Refused, TooOld
  <2>2. \A t \in Window(q) :
           IF Dist(n.begin, t) < QueueSize
           THEN t \in Window(n) /\ t # s /\ EntryAt(n, t) = EntryAt(q, t)
           ELSE t \notin Window(n)
    <3>1. SUFFICES ASSUME NEW j \in 0 .. q.count - 1
                   PROVE  IF Dist(n.begin, Add(q.begin, j)) < QueueSize
                          THEN /\ Add(q.begin, j) \in Window(n) /\ Add(q.begin, j) # s
                               /\ EntryAt(n, Add(q.begin, j)) = EntryAt(q, Add(q.begin, j))
                          ELSE Add(q.begin, j) \notin Window(n)
      BY DEF Window
    <3> QED
      BY <2>1, PushedKeeps, EvictedDoesNotFit
  <2>3. \A t \in Window(n) :
           \/ t = s /\ EntryAt(n, t) = u
           \/ EntryAt(n, t) = Empty
           \/ t \in Window(q) /\ EntryAt(n, t) = EntryAt(q, t)
    BY PushedEntries
  <2> HIDE DEF n
  <2> QED
    BY <1>1, <2>2, <2>3 DEF Holding, n
<1> QED
  BY <1>2, <1>3
=============================================================================
