---------------------------- MODULE TakionProofs ----------------------------
(***************************************************************************)
(* Theorems about Takion's thread, for every width of the sequence numbers,*)
(* every first number, every number of packets and every size of its two   *)
(* queues: whatever the network does, data packets are handled in order,   *)
(* without a gap and once, only those are acknowledged, AV packets keep    *)
(* the order of their arrival, and the owner is told of everything between *)
(* CONNECTED and DISCONNECT.                                               *)
(***************************************************************************)
EXTENDS Takion, SequenceTheorems, WellFoundedInduction

\* How many data packets have been given to takion->cb.
Handled == Len(dataCalls)

\* The queue begins where the callbacks stopped, holds nothing beyond the last
\* packet, and holds each packet under its own number.
QueueContinues(q, handled) ==
  /\ q.begin = Number(handled + 1)
  /\ handled + q.count <= DataCount
  /\ \A j \in 0 .. q.count - 1 : EntryAt(q, Add(q.begin, j)) \in {Empty, handled + 1 + j}

\* What has been handled last has been acknowledged.
AckIsLast == ack = IF Handled = 0 THEN Empty ELSE Number(Handled)

\* AV packets wait only for crypt: when the thread reads from the socket with
\* crypt set, or without encryption, nothing waits.
WaitsForCrypt ==
  /\ EnableCrypt = FALSE => postponed = <<>>
  /\ (pc = "recv" /\ crypt = TRUE) => postponed = <<>>

\* The owner has been told of the connection in the loop, and of its end at the end.
OwnerKnows ==
  /\ pc \in {"top", "recv"} => owner = "connected"
  /\ pc = "ended" <=> owner = "disconnected"

\* The invariant: what concerns the thread, the data packets and the AV packets.
\* The types are those of TypeOK.
ThreadInv ==
  /\ pc \in {"send_init", "wait_init_ack", "send_cookie", "wait_cookie_ack",
             "wait_next_packet", "connected", "top", "recv", "ending", "ended", "crashed"}
  /\ tries \in 0 .. MaxTries - 1
  /\ stop \in BOOLEAN
  /\ owner \in {"none", "connected", "disconnected"}
  /\ OwnerKnows

DataInv ==
  /\ queue \in [begin : SeqNums, count : 0 .. QueueSize,
                slots : [SlotIds -> 1 .. DataCount \cup {Empty}]]
  /\ crypt \in BOOLEAN
  /\ dataCalls \in Seq(1 .. DataCount)
  /\ ack \in SeqNums \cup {Empty}
  /\ DataInOrderOnce
  /\ QueueContinues(queue, Handled)
  /\ AckIsLast

AvInv ==
  /\ crypt_available \in BOOLEAN
  /\ postponed \in Seq(1 .. AvCount) /\ Len(postponed) <= PostponeSize
  /\ arrivals \in Seq(1 .. AvCount) /\ lost \in Nat
  /\ avCalls \in Seq(1 .. AvCount)
  /\ AvInArrivalOrder
  /\ WaitsForCrypt

Inv == ThreadInv /\ DataInv /\ AvInv

-----------------------------------------------------------------------------
(* The numbers of the data packets                                          *)

\* There are fewer data packets than half of the circle.
LEMMA PacketFacts ==
  /\ First \in SeqNums /\ DataCount \in Nat /\ DataCount < Half /\ DataCount < M
  /\ 1 \in 0 .. M - 1 /\ M \in Nat
  BY TakionAssumption, HalfFacts, ModulusAssumption, SMT

\* Packets that follow each other have numbers that do.
LEMMA NumberAdd ==
  ASSUME NEW i \in 1 .. DataCount + 1, NEW k \in Nat, i - 1 + k <= DataCount
  PROVE  Number(i) \in SeqNums /\ Add(Number(i), k) = Number(i + k)
<1>1. /\ i - 1 \in 0 .. M - 1 /\ k \in 0 .. M - 1 /\ i - 1 + k <= M /\ i - 1 \in 0 .. M
      /\ (i - 1) + k = (i + k) - 1
  BY PacketFacts, SMT
<1>2. Add(Add(First, i - 1), k) = Add(First, (i - 1) + k)
  BY <1>1, PacketFacts, OffsetsAdd
<1> QED
  BY <1>1, <1>2, PacketFacts, AddWraps DEF Number

\* Different packets have different numbers, and earlier ones compare as such.
LEMMA NumberOrder ==
  ASSUME NEW i \in 1 .. DataCount + 1, NEW j \in 1 .. DataCount + 1
  PROVE  /\ Number(i) = Number(j) <=> i = j
         /\ Le(Number(i), Number(j)) <=> i <= j
         /\ Dist(Number(i), Number(j)) = IF i <= j THEN j - i ELSE (j - i) + M
<1>1. i - 1 \in 0 .. M - 1 /\ j - 1 \in 0 .. M - 1 /\ i \in Int /\ j \in Int
  BY PacketFacts, SMT
<1>2. Add(First, i - 1) = Add(First, j - 1) <=> i - 1 = j - 1
  BY <1>1, PacketFacts, OffsetOrder
<1>3. Lt(Add(First, i - 1), Add(First, j - 1)) <=>
         \/ i - 1 < j - 1 /\ (j - 1) - (i - 1) < Half
         \/ i - 1 > j - 1 /\ (i - 1) - (j - 1) > Half
  BY <1>1, PacketFacts, OffsetOrder
<1>4. Dist(Add(First, i - 1), Add(First, j - 1)) =
         IF i - 1 <= j - 1 THEN (j - 1) - (i - 1) ELSE ((j - 1) - (i - 1)) + M
  BY <1>1, PacketFacts, OffsetDist
<1>5. Number(i) = Number(j) <=> i = j
  BY <1>1, <1>2, SMT DEF Number
<1>6. Lt(Number(i), Number(j)) <=> i < j
  <2>1. (j - 1) - (i - 1) <= DataCount /\ (i - 1) - (j - 1) <= DataCount
    BY SMT, PacketFacts
  <2> QED
    BY <1>1, <1>3, <2>1, PacketFacts, HalfFacts, SMT DEF Number
<1>7. Dist(Number(i), Number(j)) = IF i <= j THEN j - i ELSE (j - i) + M
  BY <1>1, <1>4, ModulusAssumption, SMT DEF Number
<1> QED
  BY <1>1, <1>5, <1>6, <1>7, SMT DEF Le

-----------------------------------------------------------------------------
(* The flush of the queue                                                   *)

\* The order of the natural numbers as a relation.
Less == {ss \in Nat \X Nat : ss[1] < ss[2]}

\* A set of natural numbers has a least one.
LEMMA LeastNat ==
  ASSUME NEW S \in SUBSET Nat, S # {}
  PROVE  \E m \in S : \A k \in S : m <= k
<1>1. IsWellFoundedOn(Less, Nat)
  BY NatLessThanWellFounded DEF OpToRel, Less
<1>2. PICK m \in S : \A k \in S : ~ (<<k, m>> \in Less)
  BY <1>1, WFMin
<1>3. ASSUME NEW k \in S PROVE m <= k
  <2>1. k \in Nat /\ m \in Nat /\ <<k, m>> \notin Less
    BY <1>2
  <2>2. ~ (k < m)
    BY <2>1 DEF Less
  <2> QED
    BY <2>1, <2>2, SMT
<1> QED
  BY <1>3

\* The flush pulls elements only, and stops at the first gap.
LEMMA ReadyType ==
  ASSUME NEW q \in QueueType
  PROVE  /\ ReadyCount(q) \in 0 .. q.count
         /\ \A j \in 0 .. ReadyCount(q) - 1 : EntryAt(q, Add(q.begin, j)) # Empty
<1> DEFINE Stops(k) == k < q.count => EntryAt(q, Add(q.begin, k)) = Empty
           S == {k \in 0 .. q.count : Stops(k)}
<1>1. q.count \in Nat
  BY QueueFields, QueueSizeAssumption, SMT
<1>2. q.count \in S /\ S \in SUBSET Nat
  BY <1>1, SMT
<1>3. PICK m \in S : \A k \in S : m <= k
  BY <1>2, LeastNat
<1>4. m \in 0 .. q.count /\ Stops(m)
  BY <1>3
<1>5. ASSUME NEW j \in 0 .. m - 1 PROVE EntryAt(q, Add(q.begin, j)) # Empty
  <2>1. j \in 0 .. q.count /\ ~ (m <= j)
    BY <1>1, <1>4, SMT
  <2>2. ~Stops(j)
    BY <1>3, <2>1
  <2> QED
    BY <2>2
<1>6. \E k \in 0 .. q.count :
         /\ \A j \in 0 .. k - 1 : EntryAt(q, Add(q.begin, j)) # Empty
         /\ k < q.count => EntryAt(q, Add(q.begin, k)) = Empty
  BY <1>4, <1>5
<1> QED
  BY <1>6, Zenon DEF ReadyCount

-----------------------------------------------------------------------------
(* A data packet arrives                                                    *)

\* The queue that takes the packet still goes on where the callbacks stopped,
\* whether the packet is new, a repetition, or too far ahead.
LEMMA PushContinues ==
  ASSUME NEW q \in QueueType, NEW p \in 0 .. DataCount, QueueContinues(q, p),
         NEW i \in 1 .. DataCount, ~AssertFails(q, Number(i))
  PROVE  /\ Pushed(q, Number(i), i, "end") \in QueueType
         /\ QueueContinues(Pushed(q, Number(i), i, "end"), p)
<1> DEFINE n == Pushed(q, Number(i), i, "end")
           b == q.begin
           s == Number(i)
           e == Dist(b, s)
<1>1. /\ i \in 1 .. DataCount + 1 /\ p + 1 \in 1 .. DataCount + 1 /\ i \in Nat
      /\ p \in Nat /\ 0 \in Nat /\ i - 1 + 0 <= DataCount /\ DataCount \in Nat
  BY PacketFacts, SMT
<1>2. s \in SeqNums /\ b = Number(p + 1)
  BY <1>1, NumberAdd DEF QueueContinues
<1>3. n \in QueueType /\ n.begin = b
  BY <1>1, <1>2, PushedType, PushedBegin
<1>4. e = IF p + 1 <= i THEN i - (p + 1) ELSE (i - (p + 1)) + M
  BY <1>1, <1>2, NumberOrder
<1>5. q.count \in Nat /\ q.count <= QueueSize /\ b \in SeqNums
  BY QueueFields, QueueSizeAssumption, SMT
<1>6. CASE Refused(q, s, "end")
  BY <1>3, <1>6 DEF Pushed
<1>7. CASE ~Refused(q, s, "end")
  <2>1. ~TooOld(q, s) /\ ~Overrun(q, s)
    BY <1>7 DEF Refused
  <2>2. ~ (e > Half)
    BY <1>2, <2>1, PushTests
  <2>3. p + 1 <= i /\ e = i - (p + 1) /\ e \in Nat
    BY <1>1, <1>4, <2>2, PacketFacts, HalfFacts, SMT
  <2>4. n.count = q.count \/ n.count = e + 1
    <3>1. CASE InWindow(q, s)
      <4>1. n = Store(q, s, i)
        BY <1>7, <3>1 DEF Pushed
      <4> QED
        BY <4>1 DEF Store, QueueType
    <3>2. CASE ~InWindow(q, s)
      <4>1. Ahead(q, s) /\ Roomy(q, s) = q /\ Place(q, s) = e
        BY <2>1, <3>2 DEF Ahead, TooOld, Roomy, Place
      <4>2. n.count = Place(q, s) + 1
        BY <1>2, <1>7, <4>1, PushedBeyondEnd
      <4> QED
        BY <4>1, <4>2
    <3> QED
      BY <3>1, <3>2
  <2>5. p + n.count <= DataCount
    BY <1>1, <1>5, <2>3, <2>4, SMT DEF QueueContinues
  <2>6. ASSUME NEW j \in 0 .. n.count - 1
        PROVE  EntryAt(n, Add(b, j)) \in {Empty, p + 1 + j}
    <3> DEFINE t == Add(b, j)
    <3>1. t \in Window(n)
      BY <1>3 DEF Window
    <3>2. \/ t = s /\ EntryAt(n, t) = i
          \/ EntryAt(n, t) = Empty
          \/ t \in Window(q) /\ EntryAt(n, t) = EntryAt(q, t)
      BY <1>1, <1>2, <1>7, <3>1, PushedEntries
    <3>3. j \in 0 .. M - 1 /\ j \in Nat
      <4>1. n.count \in Nat
        BY <1>3, QueueFields, QueueSizeAssumption, SMT
      <4> QED
        BY <1>1, <2>5, <4>1, PacketFacts, SMT
    <3>4. CASE t = s
      <4>1. s = Add(b, e) /\ e \in 0 .. M - 1
        BY <1>1, <1>2, <1>5, <2>3, OffsetOfNumber, PacketFacts, SMT
      <4>2. j = e
        BY <1>5, <3>3, <3>4, <4>1, OffsetOrder
      <4>3. p + 1 + j = i
        BY <1>1, <2>3, <4>2, SMT
      <4>4. CASE t \in Window(q) /\ EntryAt(n, t) = EntryAt(q, t)
        <5>1. EntryAt(n, t) = i
          BY <1>1, <1>2, <1>7, <3>4, PushedHasNew
        <5> QED
          BY <4>3, <5>1
      <4> QED
        BY <3>2, <4>3, <4>4
    <3>5. CASE t \in Window(q) /\ EntryAt(n, t) = EntryAt(q, t)
      <4>1. PICK k \in 0 .. q.count - 1 : t = Add(b, k)
        BY <3>5 DEF Window
      <4>2. k \in 0 .. M - 1
        BY <1>5, <4>1, HalfFacts, QueueSizeAssumption, SMT
      <4>3. j = k
        BY <1>5, <3>3, <4>1, <4>2, OffsetOrder
      <4> QED
        BY <3>5, <4>1, <4>3 DEF QueueContinues
    <3> QED
      BY <3>2, <3>4, <3>5
  <2> QED
    BY <1>2, <1>3, <2>5, <2>6 DEF QueueContinues
<1> QED
  BY <1>6, <1>7

\* The flush hands over the packets that come next, in order, and leaves a queue
\* that goes on behind them; what is acknowledged is the last of them.
LEMMA FlushContinues ==
  ASSUME NEW q \in QueueType, NEW p \in 0 .. DataCount, QueueContinues(q, p)
  PROVE  LET k == ReadyCount(q) IN
         /\ k \in Nat /\ p + k \in 0 .. DataCount
         /\ Flushed(q) \in QueueType /\ QueueContinues(Flushed(q), p + k)
         /\ \A j \in 1 .. k : EntryAt(q, Add(q.begin, j - 1)) = p + j
         /\ k > 0 => Cumulative(q) = Number(p + k)
<1> DEFINE k == ReadyCount(q)
           b == q.begin
           f == Flushed(q)
<1>1. /\ k \in 0 .. q.count
      /\ \A j \in 0 .. k - 1 : EntryAt(q, Add(b, j)) # Empty
  BY ReadyType
<1>2. /\ b \in SeqNums /\ q.count \in 0 .. QueueSize /\ q.count \in Nat
      /\ p + q.count <= DataCount
  BY QueueFields, QueueSizeAssumption, SMT DEF QueueContinues
<1>3. f = [begin |-> Add(b, k), count |-> q.count - k, slots |-> q.slots]
  BY DEF Flushed
<1> HIDE DEF k
<1>4. k \in Nat /\ p + k \in 0 .. DataCount /\ k \in 0 .. M - 1 /\ k \in 0 .. M /\ p \in Nat
  BY <1>1, <1>2, PacketFacts, SMT
<1>5. b = Number(p + 1) /\ p + 1 \in 1 .. DataCount + 1
  BY <1>4, PacketFacts, SMT DEF QueueContinues
<1>6. Add(b, k) = Number(p + k + 1)
  <2>1. (p + 1) - 1 + k <= DataCount /\ (p + 1) + k = p + k + 1
    BY <1>4, PacketFacts, SMT
  <2> QED
    BY <1>4, <1>5, <2>1, NumberAdd
<1>7. f \in QueueType
  <2>1. Add(b, k) \in SeqNums
    BY <1>2, <1>4, AddWraps
  <2>2. q.count - k \in 0 .. QueueSize
    BY <1>1, <1>2, QueueSizeAssumption, SMT
  <2> QED
    BY <1>3, <2>1, <2>2, QueueFields DEF QueueType
<1>8. p + k + (q.count - k) <= DataCount
  BY <1>2, <1>4, SMT
<1>9. ASSUME NEW j \in 0 .. (q.count - k) - 1
      PROVE  EntryAt(f, Add(Add(b, k), j)) \in {Empty, p + k + 1 + j}
  <2>1. /\ j \in 0 .. M - 1 /\ k + j <= M /\ k + j \in 0 .. q.count - 1
        /\ p + 1 + (k + j) = p + k + 1 + j
    BY <1>1, <1>2, <1>4, HalfFacts, QueueSizeAssumption, SMT
  <2>2. Add(Add(b, k), j) = Add(b, k + j)
    BY <1>2, <1>4, <2>1, OffsetsAdd
  <2>3. EntryAt(q, Add(b, k + j)) \in {Empty, p + 1 + (k + j)}
    BY <2>1 DEF QueueContinues
  <2>4. EntryAt(f, Add(b, k + j)) = EntryAt(q, Add(b, k + j))
    BY <1>3 DEF EntryAt
  <2> QED
    BY <2>1, <2>2, <2>3, <2>4
<1>10. QueueContinues(f, p + k)
  BY <1>3, <1>6, <1>8, <1>9 DEF QueueContinues
<1>11. ASSUME NEW j \in 1 .. k PROVE EntryAt(q, Add(b, j - 1)) = p + j
  <2>1. j - 1 \in 0 .. k - 1 /\ j - 1 \in 0 .. q.count - 1 /\ p + 1 + (j - 1) = p + j
    BY <1>1, <1>2, <1>4, SMT
  <2> QED
    BY <1>1, <2>1 DEF QueueContinues
<1>12. k > 0 => Cumulative(q) = Number(p + k)
  <2>1. SUFFICES ASSUME k > 0 PROVE Add(b, k - 1) = Number(p + k)
    BY DEF Cumulative, k
  <2>2. k - 1 \in Nat /\ (p + 1) - 1 + (k - 1) <= DataCount /\ (p + 1) + (k - 1) = p + k
    BY <1>4, <2>1, PacketFacts, SMT
  <2> QED
    BY <1>5, <2>2, NumberAdd
<1> QED
  BY <1>4, <1>7, <1>10, <1>11, <1>12 DEF k

\* What the handling of a data packet changes: the callbacks get the packets
\* that come next, and the last of them is acknowledged.
LEMMA ReceiveDataEffect ==
  ASSUME DataInv, NEW i \in 1 .. DataCount, ReceiveData(i)
  PROVE  /\ queue' \in QueueType
         /\ \A x \in SlotIds : queue'.slots[x] \in 1 .. DataCount \cup {Empty}
         /\ dataCalls' \in Seq(1 .. DataCount)
         /\ DataInOrderOnce'
         /\ QueueContinues(queue, Handled)'
         /\ IF Handled' = Handled THEN ack' = ack ELSE ack' = Number(Handled)'
         /\ Handled' \in 0 .. DataCount /\ Handled' >= Handled
         /\ crypt' \in BOOLEAN
<1> DEFINE q == Pushed(queue, Number(i), i, "end")
           k == ReadyCount(q)
           p == Handled
           ready == [j \in 1 .. k |-> EntryAt(q, Add(q.begin, j - 1))]
<1>1. /\ queue' = Flushed(q) /\ dataCalls' = dataCalls \o ready
      /\ crypt' = (crypt \/ Bang \in {ready[j] : j \in DOMAIN ready})
      /\ ack' = IF ready # <<>> THEN Cumulative(q) ELSE ack
      /\ ~AssertFails(queue, Number(i))
  BY DEF ReceiveData
<1>2. queue \in QueueType /\ \A x \in SlotIds : queue.slots[x] \in 1 .. DataCount \cup {Empty}
  BY TakionAssumption, SMT DEF DataInv, QueueType
<1>3. p \in 0 .. DataCount /\ QueueContinues(queue, p)
  <2>1. p \in Nat /\ queue.count \in Nat /\ p + queue.count <= DataCount
    BY <1>2, QueueFields, QueueSizeAssumption, SMT DEF DataInv, Handled, QueueContinues
  <2>2. p \in 0 .. DataCount
    BY <2>1, PacketFacts, SMT
  <2> QED
    BY <2>2 DEF DataInv
<1>4. q \in QueueType /\ QueueContinues(q, p)
  BY <1>1, <1>2, <1>3, PushContinues
<1>5. \A x \in SlotIds : q.slots[x] \in 1 .. DataCount \cup {Empty}
  <2>1. Number(i) \in SeqNums /\ i \in Nat
    <3>1. i \in 1 .. DataCount + 1 /\ 0 \in Nat /\ i - 1 + 0 <= DataCount /\ i \in Nat
      BY PacketFacts, SMT
    <3> QED
      BY <3>1, NumberAdd
  <2> HIDE DEF q
  <2>2. \A x \in SlotIds : q.slots[x] \in {i, Empty, queue.slots[x]}
    BY <1>1, <1>2, <2>1, PushedSlots DEF q
  <2> QED
    BY <1>2, <2>2
<1> HIDE DEF q
<1>6. /\ k \in Nat /\ p + k \in 0 .. DataCount
      /\ Flushed(q) \in QueueType /\ QueueContinues(Flushed(q), p + k)
      /\ \A j \in 1 .. k : EntryAt(q, Add(q.begin, j - 1)) = p + j
      /\ k > 0 => Cumulative(q) = Number(p + k)
  BY <1>3, <1>4, FlushContinues
<1>7. Flushed(q).slots = q.slots
  BY DEF Flushed
<1> HIDE DEF k
<1>8. ready = [j \in 1 .. k |-> p + j]
  BY <1>6
<1>9. ready \in Seq(1 .. DataCount) /\ Len(ready) = k
  <2>1. \A j \in 1 .. k : p + j \in 1 .. DataCount
    BY <1>3, <1>6, PacketFacts, SMT
  <2>2. ready \in [1 .. k -> 1 .. DataCount]
    BY <1>8, <2>1
  <2> HIDE DEF ready
  <2>3. ready \in Seq(1 .. DataCount)
    <3>1. [j \in 1 .. k |-> p + j] \in Seq(1 .. DataCount)
      BY <1>6, <2>1
    <3> QED
      BY <1>8, <3>1
  <2>4. k = Len(ready)
    <3>1. DOMAIN ready = 1 .. k /\ DOMAIN ready = 1 .. Len(ready) /\ Len(ready) \in Nat
      BY <2>2, <2>3, LenProperties
    <3>2. \A j \in Nat : j \in 1 .. k <=> j \in 1 .. Len(ready)
      BY <3>1
    <3>3. ~ (k < Len(ready))
      BY <1>6, <3>1, <3>2, SMT
    <3>4. ~ (Len(ready) < k)
      BY <1>6, <3>1, <3>2, SMT
    <3> QED
      BY <1>6, <3>1, <3>3, <3>4, SMT
  <2> QED
    BY <2>3, <2>4
<1> HIDE DEF ready
<1>10. dataCalls \in Seq(1 .. DataCount) /\ Len(dataCalls) = p
  BY DEF DataInv, Handled
<1>11. /\ dataCalls' \in Seq(1 .. DataCount) /\ Len(dataCalls') = p + k
       /\ \A j \in 1 .. p + k : dataCalls'[j] = IF j <= p THEN dataCalls[j] ELSE ready[j - p]
  BY <1>1, <1>9, <1>10, ConcatProperties
<1>12. ASSUME NEW j \in 1 .. p + k PROVE dataCalls'[j] = j
  <2>1. p \in Nat /\ k \in Nat /\ j \in Nat
    BY <1>3, <1>6, SMT
  <2>2. CASE j <= p
    <3>1. dataCalls'[j] = dataCalls[j]
      BY <1>11, <2>2
    <3>2. j \in DOMAIN dataCalls
      BY <1>10, <2>1, <2>2, LenProperties, SMT
    <3> QED
      BY <3>1, <3>2 DEF DataInOrderOnce, DataInv
  <2>3. CASE ~ (j <= p)
    <3>1. dataCalls'[j] = ready[j - p]
      BY <1>11, <2>3
    <3>2. j - p \in 1 .. k /\ p + (j - p) = j
      BY <2>1, <2>3, SMT
    <3> QED
      BY <1>8, <3>1, <3>2
  <2> QED
    BY <2>2, <2>3
<1>13. Handled' = p + k
  BY <1>11 DEF Handled
<1>14. DataInOrderOnce'
  <2>1. DOMAIN dataCalls' = 1 .. p + k
    BY <1>11
  <2> QED
    BY <1>12, <2>1 DEF DataInOrderOnce
<1>15. QueueContinues(queue, Handled)'
  BY <1>1, <1>6, <1>13 DEF QueueContinues, Number
<1>16. IF Handled' = Handled THEN ack' = ack ELSE ack' = Number(Handled)'
  <2>1. CASE k = 0
    <3>1. ready = <<>> /\ p + k = p
      BY <1>3, <1>9, <2>1, SMT
    <3> QED
      BY <1>1, <1>13, <3>1
  <2>2. CASE k # 0
    <3>1. ready # <<>> /\ p + k # p /\ k > 0
      BY <1>3, <1>6, <1>9, <2>2, SMT
    <3>2. ack' = Number(p + k)
      BY <1>1, <1>6, <3>1
    <3> QED
      BY <1>13, <3>1, <3>2 DEF Number
  <2> QED
    BY <2>1, <2>2
<1>17. Handled' \in 0 .. DataCount /\ Handled' >= Handled
  BY <1>3, <1>6, <1>13, SMT
<1>18. crypt' \in BOOLEAN
  BY <1>1, Zenon DEF DataInv
<1> QED
  BY <1>1, <1>5, <1>6, <1>7, <1>11, <1>14, <1>15, <1>16, <1>17, <1>18

\* The handling of a data packet keeps the data part of the invariant.
LEMMA ReceiveDataKeeps ==
  ASSUME DataInv, NEW i \in 1 .. DataCount, ReceiveData(i)
  PROVE  DataInv'
<1>1. /\ queue' \in QueueType
      /\ \A x \in SlotIds : queue'.slots[x] \in 1 .. DataCount \cup {Empty}
      /\ dataCalls' \in Seq(1 .. DataCount)
      /\ DataInOrderOnce' /\ QueueContinues(queue, Handled)'
      /\ IF Handled' = Handled THEN ack' = ack ELSE ack' = Number(Handled)'
      /\ Handled' \in 0 .. DataCount /\ Handled' >= Handled
      /\ crypt' \in BOOLEAN
  BY ReceiveDataEffect
<1>2. ack \in SeqNums \cup {Empty} /\ AckIsLast /\ Handled \in Nat
  BY LenProperties DEF DataInv, Handled
<1>3. AckIsLast' /\ ack' \in SeqNums \cup {Empty}
  <2>1. CASE Handled' = Handled
    BY <1>1, <1>2, <2>1 DEF AckIsLast, Number
  <2>2. CASE Handled' # Handled
    <3>1. Handled' # 0 /\ Handled' \in 1 .. DataCount + 1 /\ 0 \in Nat /\ Handled' - 1 + 0 <= DataCount
      <4>1. Handled \in Nat /\ Handled' \in 0 .. DataCount /\ Handled' >= Handled /\ Handled' # Handled
        BY <1>1, <1>2, <2>2
      <4>2. \A n \in Nat : \A h \in 0 .. DataCount :
               h >= n /\ h # n => h # 0 /\ h \in 1 .. DataCount + 1 /\ h - 1 + 0 <= DataCount
        BY PacketFacts, SMT
      <4> QED
        BY <4>1, <4>2
    <3>2. ack' = Number(Handled')
      BY <1>1, <2>2 DEF Number
    <3>3. Number(Handled') \in SeqNums
      BY <3>1, NumberAdd
    <3> QED
      BY <3>1, <3>2, <3>3 DEF AckIsLast, Number
  <2> QED
    BY <2>1, <2>2
<1>4. queue' \in [begin : SeqNums, count : 0 .. QueueSize,
                  slots : [SlotIds -> 1 .. DataCount \cup {Empty}]]
  <2>1. /\ queue'.begin \in SeqNums /\ queue'.count \in 0 .. QueueSize
        /\ queue'.slots \in [SlotIds -> Nat \cup {Empty}]
        /\ queue' = [begin |-> queue'.begin, count |-> queue'.count, slots |-> queue'.slots]
    BY <1>1, QueueFields
  <2>2. queue'.slots \in [SlotIds -> 1 .. DataCount \cup {Empty}]
    BY <1>1, <2>1
  <2> QED
    BY <2>1, <2>2
<1> QED
  BY <1>1, <1>3, <1>4 DEF DataInv

\* What does not touch the data packets keeps what is said of them.
LEMMA DataKept ==
  ASSUME DataInv, UNCHANGED dataVars
  PROVE  DataInv'
  BY DEF DataInv, dataVars, DataInOrderOnce, QueueContinues, Handled, AckIsLast, Number, EntryAt

-----------------------------------------------------------------------------
(* The AV packets                                                           *)

\* Nothing comes to wait, and nothing that waits is forgotten, unless the thread
\* goes to read or a packet is handled.
LEMMA AvKept ==
  ASSUME AvInv, UNCHANGED avVars, pc' # "recv" \/ (pc' = pc /\ crypt' = crypt)
  PROVE  AvInv'
<1>1. UNCHANGED <<crypt_available, postponed, arrivals, lost, avCalls>>
  BY DEF avVars
<1>2. AvInArrivalOrder'
  BY <1>1 DEF AvInv, AvInArrivalOrder
<1>3. WaitsForCrypt'
  BY <1>1 DEF AvInv, WaitsForCrypt
<1> QED
  BY <1>1, <1>2, <1>3 DEF AvInv

\* At the top of the loop everything that waits is handled once crypt is there.
LEMMA LoopTopKeepsAv ==
  ASSUME AvInv, crypt \in BOOLEAN, LoopTop
  PROVE  AvInv'
<1>1. /\ crypt' = crypt /\ arrivals' = arrivals /\ lost' = lost /\ pc' = "recv"
      /\ crypt_available' = (crypt_available \/ CryptSwitch)
      /\ IF crypt THEN avCalls' = avCalls \o postponed /\ postponed' = <<>>
         ELSE avCalls' = avCalls /\ postponed' = postponed
  BY DEF LoopTop, FlushesPostponed, dataVars
<1>2. /\ crypt_available \in BOOLEAN /\ lost \in Nat
      /\ postponed \in Seq(1 .. AvCount) /\ avCalls \in Seq(1 .. AvCount)
      /\ arrivals \in Seq(1 .. AvCount)
      /\ Len(postponed) <= PostponeSize
      /\ avCalls \o postponed = arrivals /\ WaitsForCrypt
  BY DEF AvInv, AvInArrivalOrder
<1>3. crypt_available' \in BOOLEAN
  <2>1. crypt_available' \in {TRUE, FALSE}
    BY <1>1, <1>2, Zenon
  <2> QED
    BY <2>1
<1>4. CASE crypt = TRUE
  <2>1. avCalls' = avCalls \o postponed /\ postponed' = <<>>
    BY <1>1, <1>4
  <2>2. avCalls' \in Seq(1 .. AvCount) /\ avCalls' \o <<>> = avCalls'
    BY <1>2, <2>1, ConcatProperties, ConcatEmptySeq
  <2>3. postponed' \in Seq(1 .. AvCount) /\ Len(postponed') <= PostponeSize
    <3>1. <<>> \in Seq(1 .. AvCount) /\ Len(<<>>) = 0
      BY EmptySeq
    <3> QED
      BY <2>1, <3>1, TakionAssumption, SMT
  <2>4. AvInArrivalOrder' /\ WaitsForCrypt'
    BY <1>1, <1>2, <2>1, <2>2 DEF AvInArrivalOrder, WaitsForCrypt
  <2> QED
    BY <1>1, <1>2, <1>3, <2>2, <2>3, <2>4 DEF AvInv
<1>5. CASE crypt = FALSE
  <2>1. avCalls' = avCalls /\ postponed' = postponed
    BY <1>1, <1>5
  <2>2. AvInArrivalOrder' /\ WaitsForCrypt'
    BY <1>1, <1>2, <1>5, <2>1 DEF AvInArrivalOrder, WaitsForCrypt
  <2> QED
    BY <1>1, <1>2, <1>3, <2>1, <2>2 DEF AvInv
<1> QED
  BY <1>4, <1>5

\* An AV packet that arrives is handled only if none waits, waits behind the
\* others, or is forgotten before it counts as arrived.
LEMMA ReceiveAvKeeps ==
  ASSUME AvInv, crypt \in BOOLEAN, NEW k \in 1 .. AvCount, ReceiveAv(k)
  PROVE  AvInv'
<1>1. /\ pc = "recv" /\ pc' = "top" /\ crypt' = crypt /\ crypt_available' = crypt_available
      /\ arrivals' = IF lost' = lost THEN Append(arrivals, k) ELSE arrivals
  BY DEF ReceiveAv, MayReceive, dataVars
<1>2. /\ crypt_available \in BOOLEAN /\ lost \in Nat
      /\ postponed \in Seq(1 .. AvCount) /\ avCalls \in Seq(1 .. AvCount)
      /\ arrivals \in Seq(1 .. AvCount)
      /\ Len(postponed) <= PostponeSize
      /\ avCalls \o postponed = arrivals /\ WaitsForCrypt
      /\ EnableCrypt \in BOOLEAN /\ PostponeSize \in Nat
  BY TakionAssumption DEF AvInv, AvInArrivalOrder
<1>3. CASE ~MustPostpone
  <2>1. avCalls' = Append(avCalls, k) /\ postponed' = postponed /\ lost' = lost
    BY <1>3 DEF ReceiveAv
  <2>2. arrivals' = Append(arrivals, k)
    BY <1>1, <2>1
  <2>3. postponed = <<>>
    <3>1. EnableCrypt = FALSE \/ crypt = TRUE
      BY <1>2, <1>3, Zenon DEF MustPostpone
    <3> QED
      BY <1>1, <1>2, <3>1 DEF WaitsForCrypt
  <2>4. /\ avCalls = arrivals /\ avCalls' \in Seq(1 .. AvCount)
        /\ avCalls' \o <<>> = avCalls'
    <3>1. avCalls \o <<>> = avCalls
      BY <1>2, ConcatEmptySeq
    <3>2. avCalls' \in Seq(1 .. AvCount)
      BY <1>2, <2>1
    <3> QED
      BY <1>2, <2>3, <3>1, <3>2, ConcatEmptySeq
  <2>5. AvInArrivalOrder' /\ WaitsForCrypt'
    BY <1>1, <2>1, <2>2, <2>3, <2>4 DEF AvInArrivalOrder, WaitsForCrypt
  <2>6. arrivals' \in Seq(1 .. AvCount)
    BY <2>1, <2>2, <2>4
  <2> QED
    BY <1>1, <1>2, <2>1, <2>4, <2>5, <2>6 DEF AvInv
<1>4. CASE MustPostpone /\ PostponeFull
  <2>1. lost' = lost + 1 /\ avCalls' = avCalls /\ postponed' = postponed
    BY <1>4 DEF ReceiveAv
  <2>2. lost' # lost /\ lost' \in Nat
    BY <1>2, <2>1, SMT
  <2>3. arrivals' = arrivals
    BY <1>1, <2>2
  <2>4. AvInArrivalOrder' /\ WaitsForCrypt'
    BY <1>1, <1>2, <2>1, <2>3 DEF AvInArrivalOrder, WaitsForCrypt
  <2> QED
    BY <1>1, <1>2, <2>1, <2>2, <2>3, <2>4 DEF AvInv
<1>5. CASE MustPostpone /\ ~PostponeFull
  <2>1. postponed' = Append(postponed, k) /\ avCalls' = avCalls /\ lost' = lost
    BY <1>5 DEF ReceiveAv
  <2>2. arrivals' = Append(arrivals, k)
    BY <1>1, <2>1
  <2>3. postponed' \in Seq(1 .. AvCount) /\ Len(postponed') = Len(postponed) + 1
    BY <1>2, <2>1
  <2>4. Len(postponed') <= PostponeSize
    BY <1>2, <1>5, <2>3, LenProperties, SMT DEF PostponeFull
  <2>5. avCalls' \o postponed' = arrivals'
    <3>1. /\ postponed' = postponed \o <<k>> /\ arrivals' = arrivals \o <<k>>
          /\ <<k>> \in Seq(1 .. AvCount)
      BY <1>2, <2>1, <2>2, AppendIsConcat
    <3>2. avCalls \o (postponed \o <<k>>) = (avCalls \o postponed) \o <<k>>
      BY <1>2, <3>1, ConcatAssociative
    <3> QED
      BY <1>2, <2>1, <3>1, <3>2
  <2>6. WaitsForCrypt'
    <3>1. EnableCrypt = TRUE
      BY <1>2, <1>5, Zenon DEF MustPostpone
    <3> QED
      BY <1>1, <3>1 DEF WaitsForCrypt
  <2>7. arrivals' \in Seq(1 .. AvCount)
    BY <1>2, <2>2
  <2> QED
    BY <1>1, <1>2, <2>1, <2>3, <2>4, <2>5, <2>6, <2>7 DEF AvInv, AvInArrivalOrder
<1> QED
  BY <1>3, <1>4, <1>5

-----------------------------------------------------------------------------
(* The thread                                                               *)

\* A retry starts the step again, or gives up with a fresh count.
LEMMA RetryTypes ==
  ASSUME ThreadInv, NEW send \in {"send_init", "send_cookie"}, Retry(send),
         pc # "ended", UNCHANGED <<stop, owner>>
  PROVE  ThreadInv'
<1>1. tries' \in 0 .. MaxTries - 1
  BY TakionAssumption, SMT DEF ThreadInv, Retry
<1>2. pc' \in {send, "ending"}
  BY DEF Retry
<1> QED
  BY <1>1, <1>2 DEF ThreadInv, OwnerKnows

\* The owner hears of the connection on the way into the loop and of its end at
\* the end, whatever else the thread does.
LEMMA ThreadStepKeepsThread ==
  ASSUME ThreadInv, ThreadStep
  PROVE  ThreadInv'
<1>1. 0 \in 0 .. MaxTries - 1
  BY TakionAssumption, SMT
<1>2. CASE SendInit
  BY <1>2 DEF ThreadInv, OwnerKnows, SendInit, HandshakeUnchanged
<1>3. CASE HandshakeSendFails
  BY <1>3 DEF ThreadInv, OwnerKnows, HandshakeSendFails, HandshakeUnchanged
<1>4. CASE InitAckMissing
  BY <1>4, RetryTypes DEF InitAckMissing, HandshakeUnchanged
<1>5. ASSUME NEW ok \in BOOLEAN, ReceiveInitAck(ok) PROVE ThreadInv'
  <2>1. pc' \in {"send_cookie", "ending"}
    BY <1>5 DEF ReceiveInitAck
  <2> QED
    BY <1>1, <1>5, <2>1 DEF ThreadInv, OwnerKnows, ReceiveInitAck, HandshakeUnchanged
<1>6. CASE SendCookie
  BY <1>6 DEF ThreadInv, OwnerKnows, SendCookie, HandshakeUnchanged
<1>7. CASE ReceiveInitAckAgain
  BY <1>7 DEF ThreadInv, OwnerKnows, ReceiveInitAckAgain, HandshakeUnchanged
<1>8. CASE CookieAckMissing
  BY <1>8, RetryTypes DEF CookieAckMissing, HandshakeUnchanged
<1>9. CASE ReceiveCookieAck
  BY <1>9 DEF ThreadInv, OwnerKnows, ReceiveCookieAck, HandshakeUnchanged
<1>10. CASE EnterLoop
  BY <1>10 DEF ThreadInv, OwnerKnows, EnterLoop
<1>11. CASE SetupFails
  BY <1>11 DEF ThreadInv, OwnerKnows, SetupFails
<1>12. CASE RecheckCrashes
  BY <1>12 DEF ThreadInv, OwnerKnows, RecheckCrashes
<1>13. CASE LoopTop
  BY <1>13 DEF ThreadInv, OwnerKnows, LoopTop
<1>14. CASE RecvCanceled
  BY <1>14 DEF ThreadInv, OwnerKnows, RecvCanceled
<1>15. CASE RecvFails
  BY <1>15 DEF ThreadInv, OwnerKnows, RecvFails
<1>16. ASSUME NEW i \in 1 .. DataCount, ReceiveData(i) PROVE ThreadInv'
  BY <1>16 DEF ThreadInv, OwnerKnows, ReceiveData, MayReceive
<1>17. ASSUME NEW k \in 1 .. AvCount, ReceiveAv(k) PROVE ThreadInv'
  <2>1. pc = "recv" /\ pc' = "top" /\ UNCHANGED <<tries, stop, owner>>
    BY <1>17 DEF ReceiveAv, MayReceive
  <2> QED
    BY <2>1 DEF ThreadInv, OwnerKnows
<1>18. CASE Finish
  BY <1>18 DEF ThreadInv, OwnerKnows, Finish
<1> QED
  BY <1>2, <1>3, <1>4, <1>5, <1>6, <1>7, <1>8, <1>9, <1>10, <1>11, <1>12, <1>13, <1>14,
     <1>15, <1>16, <1>17, <1>18 DEF ThreadStep, Handshake, ReceivePacket

\* Everything but LoopTop and the handling of a packet leaves the packets alone,
\* and does not go to read.
LEMMA OtherStepsKeepPackets ==
  ASSUME ThreadStep, ~LoopTop, ~ReceivePacket
  PROVE  UNCHANGED <<dataVars, avVars>> /\ pc' # "recv"
<1>1. CASE Handshake
  <2>1. UNCHANGED <<dataVars, avVars>>
    BY <1>1 DEF Handshake, SendInit, InitAckMissing, SendCookie, CookieAckMissing, HandshakeSendFails,
       ReceiveInitAckAgain, ReceiveCookieAck, ReceiveInitAck, HandshakeUnchanged, loopVars
  <2>2. pc' # "recv"
    BY <1>1 DEF Handshake, SendInit, InitAckMissing, SendCookie, CookieAckMissing, HandshakeSendFails,
       ReceiveInitAckAgain, ReceiveCookieAck, ReceiveInitAck, Retry
  <2> QED
    BY <2>1, <2>2
<1>2. CASE EnterLoop \/ SetupFails \/ RecheckCrashes \/ RecvCanceled \/ RecvFails \/ Finish
  BY <1>2 DEF EnterLoop, SetupFails, RecheckCrashes, RecvCanceled, RecvFails, Finish, loopVars
<1> QED
  BY <1>1, <1>2 DEF ThreadStep

-----------------------------------------------------------------------------
(* The invariant                                                            *)

LEMMA InitInv == Init => Inv
<1> SUFFICES ASSUME Init PROVE Inv
  OBVIOUS
<1>1. dataCalls = <<>> /\ postponed = <<>> /\ arrivals = <<>> /\ avCalls = <<>> /\ lost = 0
  BY DEF Init
<1>2. /\ <<>> \in Seq(1 .. DataCount) /\ <<>> \in Seq(1 .. AvCount) /\ Len(<<>>) = 0
      /\ <<>> \o <<>> = <<>> /\ DOMAIN <<>> = {}
  BY EmptySeq, ConcatEmptySeq
<1>3. ThreadInv
  <2>1. 0 \in 0 .. MaxTries - 1
    BY TakionAssumption, SMT
  <2> QED
    BY <2>1 DEF Init, ThreadInv, OwnerKnows
<1>4. DataInv
  <2>1. First \in SeqNums /\ Number(1) = First
    <3>1. Add(First, 0) = First
      BY PacketFacts, AddWraps, ModulusAssumption, SMT DEF SeqNums
    <3> QED
      BY <3>1, PacketFacts DEF Number
  <2>2. /\ queue = [begin |-> First, count |-> 0, slots |-> [x \in SlotIds |-> Empty]]
        /\ 0 \in 0 .. QueueSize
    BY QueueSizeAssumption, SMT DEF Init, NewQueue
  <2>3. queue \in [begin : SeqNums, count : 0 .. QueueSize,
                   slots : [SlotIds -> 1 .. DataCount \cup {Empty}]]
    BY <2>1, <2>2
  <2>4. Handled = 0
    BY <1>1, <1>2 DEF Handled
  <2>5. QueueContinues(queue, Handled)
    <3>1. queue.begin = Number(Handled + 1) /\ Handled + queue.count <= DataCount
      BY <2>1, <2>2, <2>4, PacketFacts, SMT
    <3>2. 0 .. queue.count - 1 = {}
      BY <2>2, SMT
    <3> QED
      BY <3>1, <3>2 DEF QueueContinues
  <2>6. DataInOrderOnce /\ AckIsLast /\ ack \in SeqNums \cup {Empty} /\ crypt \in BOOLEAN
    BY <1>1, <1>2, <2>4 DEF Init, DataInOrderOnce, AckIsLast
  <2> QED
    BY <1>1, <1>2, <2>3, <2>5, <2>6 DEF DataInv
<1>5. AvInv
  <2>1. AvInArrivalOrder /\ WaitsForCrypt /\ crypt_available \in BOOLEAN
    BY <1>1, <1>2 DEF Init, AvInArrivalOrder, WaitsForCrypt
  <2>2. Len(postponed) <= PostponeSize /\ lost \in Nat
    BY <1>1, <1>2, TakionAssumption, SMT
  <2> QED
    BY <1>1, <1>2, <2>1, <2>2 DEF AvInv
<1> QED
  BY <1>3, <1>4, <1>5 DEF Inv

LEMMA NextInv == Inv /\ [Next]_vars => Inv'
<1> SUFFICES ASSUME Inv, [Next]_vars PROVE Inv'
  OBVIOUS
<1>1. ThreadInv /\ DataInv /\ AvInv /\ crypt \in BOOLEAN
  BY DEF Inv, DataInv
<1>2. CASE ThreadStep
  <2>1. ThreadInv'
    BY <1>1, <1>2, ThreadStepKeepsThread
  <2>2. CASE LoopTop
    <3>1. DataInv'
      BY <1>1, <2>2, DataKept DEF LoopTop
    <3>2. AvInv'
      BY <1>1, <2>2, LoopTopKeepsAv
    <3> QED
      BY <2>1, <3>1, <3>2 DEF Inv
  <2>3. ASSUME NEW i \in 1 .. DataCount, ReceiveData(i) PROVE Inv'
    <3>1. DataInv'
      BY <1>1, <2>3, ReceiveDataKeeps
    <3>2. UNCHANGED avVars /\ pc' # "recv"
      BY <2>3 DEF ReceiveData
    <3>3. AvInv'
      BY <1>1, <3>2, AvKept
    <3> QED
      BY <2>1, <3>1, <3>3 DEF Inv
  <2>4. ASSUME NEW k \in 1 .. AvCount, ReceiveAv(k) PROVE Inv'
    <3>1. UNCHANGED dataVars
      BY <2>4 DEF ReceiveAv
    <3>2. DataInv'
      BY <1>1, <3>1, DataKept
    <3>3. AvInv'
      BY <1>1, <2>4, ReceiveAvKeeps
    <3> QED
      BY <2>1, <3>2, <3>3 DEF Inv
  <2>5. CASE ~LoopTop /\ ~ReceivePacket
    <3>1. UNCHANGED dataVars /\ UNCHANGED avVars /\ pc' # "recv"
      BY <1>2, <2>5, OtherStepsKeepPackets
    <3>2. DataInv' /\ AvInv'
      BY <1>1, <3>1, DataKept, AvKept
    <3> QED
      BY <2>1, <3>2 DEF Inv
  <2> QED
    BY <2>2, <2>3, <2>4, <2>5 DEF ReceivePacket
<1>3. CASE Console \/ Close \/ UNCHANGED vars
  <2>1. UNCHANGED <<pc, tries, owner>> /\ UNCHANGED dataVars /\ UNCHANGED avVars
    BY <1>3 DEF Console, ConsoleAnswersInit, ConsoleAnswersCookie, ConsoleSendsData, ConsoleSendsAv,
       ConsoleUnchanged, Close, vars, loopVars
  <2>2. stop' = stop \/ stop' = TRUE
    BY <1>3 DEF Console, ConsoleAnswersInit, ConsoleAnswersCookie, ConsoleSendsData, ConsoleSendsAv,
       ConsoleUnchanged, Close, vars
  <2>3. crypt' = crypt
    BY <2>1 DEF dataVars
  <2>4. ThreadInv'
    BY <1>1, <2>1, <2>2 DEF ThreadInv, OwnerKnows
  <2>5. DataInv' /\ AvInv'
    BY <1>1, <2>1, <2>3, DataKept, AvKept
  <2> QED
    BY <2>4, <2>5 DEF Inv
<1> QED
  BY <1>2, <1>3 DEF Next

THEOREM Invariance == Spec => []Inv
  BY InitInv, NextInv, PTL DEF Spec

-----------------------------------------------------------------------------
(* What Takion promises                                                     *)

\* Every variable has its type, and neither queue outgrows its limit.
THEOREM TypeCorrect == Spec => []TypeOK
<1>1. Inv => TypeOK
  BY DEF Inv, ThreadInv, DataInv, AvInv, TypeOK
<1> QED
  BY <1>1, Invariance, PTL

\* The data packets are handed to the callback in order, without a gap, and each
\* of them once.
THEOREM DataCorrect == Spec => []DataInOrderOnce
<1>1. Inv => DataInOrderOnce
  BY DEF Inv, DataInv
<1> QED
  BY <1>1, Invariance, PTL

\* An acknowledgement covers only packets that have been handed to the callback.
THEOREM AcksCorrect == Spec => []AcksOnlyHandled
<1>1. Inv => AcksOnlyHandled
  <2> SUFFICES ASSUME Inv, NEW i \in 1 .. DataCount, ack # Empty, Le(Number(i), ack)
               PROVE  \E j \in DOMAIN dataCalls : dataCalls[j] = i
    BY DEF AcksOnlyHandled
  <2>1. AckIsLast /\ DataInOrderOnce /\ QueueContinues(queue, Handled) /\ dataCalls \in Seq(1 .. DataCount)
    BY DEF Inv, DataInv
  <2>2. Handled # 0 /\ ack = Number(Handled)
    BY <2>1 DEF AckIsLast
  <2>3. Handled \in Nat /\ DOMAIN dataCalls = 1 .. Handled
    BY <2>1, LenProperties DEF Handled
  <2>4. queue.count \in Nat /\ Handled + queue.count <= DataCount
    BY <2>1, QueueSizeAssumption, SMT DEF Inv, DataInv, QueueContinues
  <2>5. Handled \in 1 .. DataCount + 1 /\ i \in 1 .. DataCount + 1 /\ i \in Int
    BY <2>2, <2>3, <2>4, PacketFacts, SMT
  <2>6. i <= Handled
    BY <2>2, <2>5, NumberOrder
  <2>7. i \in DOMAIN dataCalls
    BY <2>3, <2>6, SMT
  <2> QED
    BY <2>1, <2>7 DEF DataInOrderOnce
<1> QED
  BY <1>1, Invariance, PTL

\* AV packets are handled in the order of their arrival, those that had to wait
\* for crypt before any that came later.
THEOREM AvCorrect == Spec => []AvInArrivalOrder
<1>1. Inv => AvInArrivalOrder
  BY DEF Inv, AvInv
<1> QED
  BY <1>1, Invariance, PTL

\* The owner is told of packets between CONNECTED and DISCONNECT only, and of the
\* end exactly when the thread ends.
THEOREM CallbacksCorrect == Spec => CallbackProtocol
<1>1. Inv /\ Inv' /\ [Next]_vars =>
        [/\ dataCalls' # dataCalls \/ avCalls' # avCalls => owner = "connected"
         /\ pc' = "ended" <=> owner' = "disconnected"]_vars
  <2> SUFFICES ASSUME Inv, Inv', [Next]_vars
               PROVE  /\ dataCalls' # dataCalls \/ avCalls' # avCalls => owner = "connected"
                      /\ pc' = "ended" <=> owner' = "disconnected"
    OBVIOUS
  <2>1. pc' = "ended" <=> owner' = "disconnected"
    BY DEF Inv, ThreadInv, OwnerKnows
  <2>2. ASSUME dataCalls' # dataCalls \/ avCalls' # avCalls
        PROVE  pc \in {"top", "recv"}
    <3>1. ~ (UNCHANGED <<dataVars, avVars>>)
      BY <2>2 DEF dataVars, avVars
    <3>2. ThreadStep
      BY <3>1 DEF Next, Console, ConsoleAnswersInit, ConsoleAnswersCookie, ConsoleSendsData, ConsoleSendsAv,
         ConsoleUnchanged, Close, vars, loopVars
    <3>3. LoopTop \/ ReceivePacket
      BY <3>1, <3>2, OtherStepsKeepPackets
    <3> QED
      BY <3>3 DEF LoopTop, ReceivePacket, ReceiveData, ReceiveAv, MayReceive
  <2> QED
    BY <2>1, <2>2 DEF Inv, ThreadInv, OwnerKnows
<1> QED
  BY <1>1, Invariance, PTL DEF Spec, CallbackProtocol
=============================================================================
