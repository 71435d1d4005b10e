------------------------- MODULE ReorderQueueProofs -------------------------
(***************************************************************************)
(* Theorems about the reorder queue, for every width of the sequence       *)
(* numbers, every size of the ring and every sequence of calls.            *)
(***************************************************************************)
EXTENDS ReorderQueue

-----------------------------------------------------------------------------
(* Types                                                                    *)

\* The queue is created with every slot unset.
LEMMA InitTypeOK == Init => TypeOK
<1> SUFFICES ASSUME Init PROVE TypeOK
  OBVIOUS
<1>1. PICK start \in Starts : queue = NewQueue(start)
  BY DEF Init
<1>2. start \in SeqNums /\ 0 \in 0 .. QueueSize
  BY <1>1, ReorderQueueAssumption, QueueSizeAssumption, SMT
<1>3. queue \in QueueType
  BY <1>1, <1>2 DEF NewQueue, QueueType
<1> QED
  BY <1>3 DEF Init, TypeOK

\* Every call keeps the types.
LEMMA NextTypeOK == TypeOK /\ [Next]_vars => TypeOK'
<1> SUFFICES ASSUME TypeOK, [Next]_vars PROVE TypeOK'
  OBVIOUS
<1> USE DEF TypeOK
<1>1. ASSUME NEW s \in Arrivals, Push(s) PROVE TypeOK'
  <2>1. s \in SeqNums
    BY ReorderQueueAssumption
  <2>2. Len(pushed) \in Nat /\ Len(pushed) + 1 \in Nat
    BY SMT
  <2>3. queue' \in QueueType
    BY <1>1, <2>1, <2>2, PushedType DEF Push
  <2>4. returned' \subseteq Nat
    BY <1>1, <2>1, <2>2, EvictedType DEF Push
  <2>5. pushed' \in Seq(SeqNums)
    BY <1>1, <2>1, SMT DEF Push
  <2> QED
    BY <1>1, <2>3, <2>4, <2>5 DEF Push
<1>2. ASSUME NEW s \in Arrivals, PushAborts(s) PROVE TypeOK'
  BY <1>2 DEF PushAborts
<1>3. CASE Pull
  <2>1. queue' \in QueueType /\ returned' \subseteq Nat
    BY <1>3, PulledType DEF Pull
  <2>2. delivered' \in Seq(SeqNums)
    BY <1>3, QueueFields, SMT DEF Pull
  <2> QED
    BY <1>3, <2>1, <2>2 DEF Pull
<1>4. ASSUME NEW i \in SlotIds, Drop(i) PROVE TypeOK'
  <2>1. i \in 0 .. M
    BY HalfFacts, QueueSizeAssumption, SMT DEF SlotIds
  <2>2. EntryAt(queue, Add(queue.begin, i)) \in Nat
    BY <1>4, <2>1, QueueFields, AddWraps, EntryType DEF Drop
  <2> QED
    BY <1>4, <2>2 DEF Drop
<1>5. ASSUME NEW st \in Strategies, SetDropStrategy(st) PROVE TypeOK'
  BY <1>5, ReorderQueueAssumption DEF SetDropStrategy, Strategies
<1>6. CASE Fini
  BY <1>6, WindowType DEF Fini
<1>7. CASE UNCHANGED vars
  BY <1>7 DEF vars
<1> QED
  BY <1>1, <1>2, <1>3, <1>4, <1>5, <1>6, <1>7 DEF Next

\* The queue keeps its type, "count <= QUEUE_SIZE" in particular: the
\* assertions about it in reorderqueue.c never fail.
THEOREM TypeCorrect == Spec => []TypeOK
  BY InitTypeOK, NextTypeOK, PTL DEF Spec

-----------------------------------------------------------------------------
(* Elements stay under their numbers                                        *)

FiledInv == TypeOK /\ FiledUnderOwnNumber

\* Every call keeps the elements under their numbers.
LEMMA NextFiled == FiledInv /\ [Next]_vars => FiledInv'
<1> SUFFICES ASSUME FiledInv, [Next]_vars PROVE FiledInv'
  OBVIOUS
<1> USE DEF FiledInv
<1>1. TypeOK'
  BY NextTypeOK
<1> SUFFICES FiledUnderOwnNumber'
  BY <1>1
<1>2. queue \in QueueType /\ pushed \in Seq(SeqNums) /\ strategy \in {"begin", "end"}
  BY DEF TypeOK
<1>3. ASSUME NEW s \in Arrivals, Push(s) PROVE FiledUnderOwnNumber'
  <2> DEFINE u == Len(pushed) + 1
  <2>1. /\ s \in SeqNums /\ u \in Nat /\ Len(pushed) \in Nat /\ u = Len(pushed) + 1
        /\ pushed' = Append(pushed, s) /\ queue' = Pushed(queue, s, u, strategy)
        /\ ~AssertFails(queue, s)
    BY <1>2, <1>3, ReorderQueueAssumption, SMT DEF Push
  <2>2. /\ Len(pushed') = u /\ pushed'[u] = s /\ u \in 1 .. u
        /\ \A i \in 1 .. Len(pushed) : i \in 1 .. u /\ pushed'[i] = pushed[i]
    BY <1>2, <2>1, SMT
  <2> HIDE DEF u
  <2>3. CASE Refused(queue, s, strategy)
    <3>1. queue' = queue
      BY <2>1, <2>3 DEF Pushed
    <3>2. \A t : EntryAt(queue', t) = EntryAt(queue, t) /\ Window(queue') = Window(queue)
      BY <3>1
    <3> QED
      BY <2>2, <3>2 DEF FiledUnderOwnNumber
  <2>4. CASE ~Refused(queue, s, strategy)
    <3>1. \A t \in Window(queue') :
             \/ t = s /\ EntryAt(queue', t) = u
             \/ EntryAt(queue', t) = Empty
             \/ t \in Window(queue) /\ EntryAt(queue', t) = EntryAt(queue, t)
      BY <1>2, <2>1, <2>4, PushedEntries
    <3> QED
      BY <2>2, <3>1 DEF FiledUnderOwnNumber
  <2> QED
    BY <2>3, <2>4
<1>4. CASE Pull
  <2>1. /\ Window(queue') \subseteq Window(queue)
        /\ \A t : EntryAt(queue', t) = EntryAt(queue, t)
    BY <1>2, <1>4, PulledEntries DEF Pull
  <2>2. pushed' = pushed
    BY <1>4 DEF Pull
  <2> QED
    BY <2>1, <2>2 DEF FiledUnderOwnNumber
<1>5. CASE UNCHANGED <<queue, pushed>>
  BY <1>5 DEF FiledUnderOwnNumber, Window, EntryAt
<1> QED
  BY <1>3, <1>4, <1>5 DEF Next, vars, PushAborts, Drop, SetDropStrategy, Fini

\* An element is only ever seen under the number it was pushed with, whatever
\* arrives and however often the ring wraps.
THEOREM FiledCorrect == Spec => []FiledUnderOwnNumber
<1>1. Init => FiledInv
  <2> SUFFICES ASSUME Init PROVE FiledInv
    OBVIOUS
  <2>1. \A s : EntryAt(queue, s) = Empty \/ s \notin Window(queue)
    <3>1. PICK start \in Starts : queue = NewQueue(start)
      BY DEF Init
    <3>2. Window(queue) = {}
      BY <3>1, SMT DEF Window, NewQueue
    <3> QED
      BY <3>2
  <2> QED
    BY <2>1, InitTypeOK DEF FiledInv, FiledUnderOwnNumber
<1>2. FiledInv => FiledUnderOwnNumber
  BY DEF FiledInv
<1> QED
  BY <1>1, <1>2, NextFiled, PTL DEF Spec

-----------------------------------------------------------------------------
(* Nothing is skipped with the strategy "end"                               *)

LEMMA NextSkipsNothing == TypeOK /\ [Next]_vars => [SkipsNothing]_vars
<1> SUFFICES ASSUME TypeOK, [Next]_vars, strategy = "end", queue'.begin # queue.begin
             PROVE  /\ queue'.begin = Add(queue.begin, 1)
                    /\ delivered' = Append(delivered, queue.begin)
  BY DEF SkipsNothing
<1>1. ASSUME NEW s \in Arrivals, Push(s) PROVE FALSE
  <2>1. queue \in QueueType /\ s \in SeqNums
    BY ReorderQueueAssumption DEF TypeOK
  <2> QED
    BY <1>1, <2>1, PushedBegin DEF Push
<1>2. CASE Pull
  BY <1>2 DEF Pull, Pulled
<1>3. CASE UNCHANGED queue
  BY <1>3
<1> QED
  BY <1>1, <1>2, <1>3 DEF Next, vars, PushAborts, Drop, SetDropStrategy, Fini

\* With the strategy that Takion uses, the window only ever moves past a number
\* that is being pulled: what the owner gets is free of gaps, for every size of
\* the ring and however far ahead numbers arrive.
THEOREM NoGapsCorrect == Spec => NoGaps
<1>1. Spec => []TypeOK
  BY TypeCorrect
<1> QED
  BY <1>1, NextSkipsNothing, PTL DEF Spec, NoGaps

-----------------------------------------------------------------------------
(* Each element of a reorder queue is handed back to its owner once        *)

OwnedInv == FiledInv /\ EachElementOwnedOnce

\* An element that sits under its own number sits in one place.
LEMMA FiledIsSeparate ==
  ASSUME FiledUnderOwnNumber
  PROVE  Separate(queue) /\ Elements(queue) \subseteq 1 .. Len(pushed)
  BY DEF FiledUnderOwnNumber, Separate, Elements

\* Every call keeps the accounts of the elements.
LEMMA NextOwned == OwnedInv /\ [Next]_vars => OwnedInv'
<1> SUFFICES ASSUME OwnedInv, [Next]_vars PROVE OwnedInv'
  OBVIOUS
<1> USE DEF OwnedInv
<1>1. FiledInv'
  BY NextFiled
<1> SUFFICES EachElementOwnedOnce'
  BY <1>1
<1>2. /\ queue \in QueueType /\ pushed \in Seq(SeqNums) /\ strategy \in {"begin", "end"}
      /\ Separate(queue) /\ Elements(queue) \subseteq 1 .. Len(pushed)
  BY FiledIsSeparate DEF FiledInv, TypeOK
<1>3. ASSUME NEW s \in Arrivals, Push(s) PROVE EachElementOwnedOnce'
  <2> DEFINE u == Len(pushed) + 1
  <2>1. /\ s \in SeqNums /\ u \in Nat /\ Len(pushed) \in Nat
        /\ Len(pushed') = u /\ 1 .. u = (1 .. Len(pushed)) \cup {u} /\ u \notin 1 .. Len(pushed)
    BY <1>2, <1>3, ReorderQueueAssumption, SMT DEF Push
  <2>2. /\ ~AssertFails(queue, s) /\ queue' = Pushed(queue, s, u, strategy)
        /\ phase = "open" /\ phase' = "open"
        /\ returned' = returned \cup (IF Refused(queue, s, strategy) THEN {u}
                                      ELSE Evicted(queue, s, strategy))
    BY <1>3 DEF Push
  <2>3. Elements(queue) \cap returned = {} /\ Elements(queue) \cup returned = 1 .. Len(pushed)
    BY <2>2 DEF EachElementOwnedOnce
  <2> HIDE DEF u
  <2>4. CASE Refused(queue, s, strategy)
    <3>1. queue' = queue /\ returned' = returned \cup {u}
      BY <2>2, <2>4 DEF Pushed
    <3>2. Elements(queue') = Elements(queue)
      BY <3>1
    <3> QED
      BY <1>2, <2>1, <2>2, <2>3, <3>1, <3>2 DEF EachElementOwnedOnce
  <2>5. CASE ~Refused(queue, s, strategy)
    <3>1. /\ Elements(queue') = (Elements(queue) \ Evicted(queue, s, strategy)) \cup {u}
          /\ Evicted(queue, s, strategy) \subseteq Elements(queue)
      BY <1>2, <2>1, <2>2, <2>5, PushedElements
    <3>2. returned' = returned \cup Evicted(queue, s, strategy)
      BY <2>2, <2>5
    <3> QED
      BY <2>1, <2>2, <2>3, <3>1, <3>2 DEF EachElementOwnedOnce
  <2> QED
    BY <2>4, <2>5
<1>4. CASE Pull
  <2>1. /\ CanPull(queue) /\ queue' = Pulled(queue) /\ phase = "open" /\ phase' = "open"
        /\ returned' = returned \cup {EntryAt(queue, queue.begin)} /\ pushed' = pushed
    BY <1>4 DEF Pull
  <2>2. /\ Elements(queue') = Elements(queue) \ {EntryAt(queue, queue.begin)}
        /\ EntryAt(queue, queue.begin) \in Elements(queue)
    BY <1>2, <2>1, PulledElements
  <2> QED
    BY <2>1, <2>2 DEF EachElementOwnedOnce
<1>5. CASE Fini
  BY <1>5 DEF Fini, EachElementOwnedOnce
<1>6. ASSUME NEW s \in Arrivals, PushAborts(s) PROVE EachElementOwnedOnce'
  BY <1>6 DEF PushAborts, EachElementOwnedOnce
<1>7. CASE UNCHANGED <<queue, phase, pushed, returned>>
  BY <1>7 DEF EachElementOwnedOnce, Elements, Window, EntryAt
<1> QED
  BY <1>3, <1>4, <1>5, <1>6, <1>7 DEF Next, vars, Drop, SetDropStrategy

\* The invariant holds throughout.
LEMMA OwnedInvariant == Spec => []OwnedInv
<1>1. Init => OwnedInv
  <2> SUFFICES ASSUME Init PROVE OwnedInv
    OBVIOUS
  <2>1. PICK start \in Starts : queue = NewQueue(start)
    BY DEF Init
  <2>2. Window(queue) = {} /\ 1 .. Len(pushed) = {}
    BY <2>1, SMT DEF Init, Window, NewQueue
  <2>3. Elements(queue) = {}
    BY <2>2 DEF Elements
  <2> QED
    BY <2>2, <2>3, InitTypeOK DEF OwnedInv, FiledInv, FiledUnderOwnNumber, EachElementOwnedOnce, Init
<1> QED
  BY <1>1, NextOwned, PTL DEF Spec

\* The owner gets every element back from push, pull and fini, and none of them
\* twice, as long as chiaki_reorder_queue_drop has not handed it out as well.
THEOREM OwnedCorrect == Spec => []EachElementOwnedOnce
<1>1. OwnedInv => EachElementOwnedOnce
  BY DEF OwnedInv
<1> QED
  BY <1>1, OwnedInvariant, PTL

-----------------------------------------------------------------------------
(* Which end gives way                                                      *)

LEMMA NextDrops == OwnedInv /\ [Next]_vars => [IsFreshPush => DropsFrom(strategy)]_vars
<1> SUFFICES ASSUME OwnedInv, Next, IsFreshPush
             PROVE  DropsFrom(strategy)
  BY DEF IsFreshPush, vars
<1>1. PICK s \in Arrivals : Push(s)
  BY DEF Next, IsFreshPush, PushAborts, Pull, Drop, SetDropStrategy, Fini
<1> DEFINE u == Len(pushed) + 1
           gone == returned' \ returned
<1>2. /\ queue \in QueueType /\ pushed \in Seq(SeqNums) /\ strategy \in {"begin", "end"}
      /\ Separate(queue) /\ Elements(queue) \subseteq 1 .. Len(pushed)
  BY FiledIsSeparate DEF OwnedInv, FiledInv, TypeOK
<1>3. /\ s \in SeqNums /\ u \in Nat /\ u \notin 1 .. Len(pushed)
      /\ Len(pushed') = u /\ pushed'[u] = s
      /\ \A i \in 1 .. Len(pushed) : pushed'[i] = pushed[i]
  <2>1. pushed' = Append(pushed, s) /\ s \in SeqNums
    BY <1>1, ReorderQueueAssumption DEF Push
  <2> QED
    BY <1>2, <2>1, SMT
<1>4. /\ phase = "open" /\ ~AssertFails(queue, s)
      /\ queue' = Pushed(queue, s, u, strategy)
      /\ returned' = returned \cup (IF Refused(queue, s, strategy) THEN {u}
                                    ELSE Evicted(queue, s, strategy))
  BY <1>1 DEF Push
<1>5. ~(InWindow(queue, s) /\ EntryAt(queue, s) # Empty)
  BY <1>2, <1>3, <1>4, InWindowMember DEF IsFreshPush, HeldNumbers
<1>6. strategy = "end" => gone \subseteq {u}
  BY <1>4 DEF Evicted
<1> HIDE DEF u
<1>7. ASSUME strategy = "begin"
      PROVE  u \in gone => Lt(s, queue.begin)
  <2>1. Refused(queue, s, strategy) => Lt(s, queue.begin)
    BY <1>5, <1>7 DEF Refused, TooOld
  <2>2. ~Refused(queue, s, strategy) => u \notin gone
    BY <1>2, <1>3, <1>4, PushedElements
  <2> QED
    BY <2>1, <2>2
<1>8. ASSUME NEW t \in gone \ {u}, NEW v \in Elements(queue')
      PROVE  ~Lt(pushed'[v], pushed[t])
  <2>1. ~Refused(queue, s, strategy) /\ t \in Evicted(queue, s, strategy)
    BY <1>4, <1>8
  <2>2. v \in (Elements(queue) \ Evicted(queue, s, strategy)) \cup {u}
    BY <1>2, <1>3, <1>4, <2>1, PushedElements
  <2>3. PICK j \in 0 .. queue.count - 1 :
           /\ t = EntryAt(queue, Add(queue.begin, j)) /\ t # Empty
           /\ ~Lt(s, Add(queue.begin, j))
           /\ \A k \in 0 .. queue.count - 1 :
                EntryAt(queue, Add(queue.begin, k)) \notin Evicted(queue, s, strategy) \cup {Empty}
                  => ~Lt(Add(queue.begin, k), Add(queue.begin, j))
    BY <1>2, <1>3, <2>1, EvictedIsOldest
  <2>4. pushed[t] = Add(queue.begin, j)
    BY <2>3 DEF OwnedInv, FiledInv, FiledUnderOwnNumber, Window
  <2>5. CASE v = u
    BY <1>3, <2>3, <2>4, <2>5
  <2>6. CASE v \in Elements(queue) \ Evicted(queue, s, strategy)
    <3>1. PICK k \in 0 .. queue.count - 1 :
             v = EntryAt(queue, Add(queue.begin, k)) /\ v # Empty
      BY <2>6 DEF Elements, Window
    <3>2. pushed[v] = Add(queue.begin, k)
      BY <3>1 DEF OwnedInv, FiledInv, FiledUnderOwnNumber, Window
    <3>3. pushed'[v] = pushed[v]
      BY <1>2, <1>3, <2>6
    <3> QED
      BY <2>3, <2>4, <2>6, <3>1, <3>2, <3>3
  <2> QED
    BY <2>2, <2>5, <2>6
<1> QED
  BY <1>2, <1>3, <1>6, <1>7, <1>8 DEF DropsFrom

\* Dropping at the begin gives up the oldest, dropping at the end only the new.
THEOREM DropsCorrect == Spec => DropsTheRightEnd
<1>1. Spec => [][Next]_vars
  BY DEF Spec
<1> QED
  BY <1>1, OwnedInvariant, NextDrops, PTL DEF DropsTheRightEnd

-----------------------------------------------------------------------------
(* The ring buffer implements the abstract window: each call is a step of  *)
(* ReorderWindow on the elements that the slots of the window show.        *)

\* The abstract held, while the queue lives.
HeldOf(q) == [t \in Holding(q) |-> EntryAt(q, t)]

held == [t \in HeldNumbers |-> EntryAt(queue, t)]

LEMMA HeldIsHeldOf ==
  /\ phase # "closed" => held = HeldOf(queue)
  /\ phase' # "closed" => held' = HeldOf(queue')
  /\ phase' = "closed" => held' = << >>
<1>1. phase # "closed" => HeldNumbers = Holding(queue)
  BY DEF HeldNumbers, Holding
<1>2. phase' # "closed" => HeldNumbers' = Holding(queue')
  BY DEF HeldNumbers, Holding
<1>3. phase' = "closed" => HeldNumbers' = {}
  BY DEF HeldNumbers
<1>4. held' = [t \in HeldNumbers' |-> EntryAt(queue', t)]
  BY DEF held
<1>5. [t \in {} |-> EntryAt(queue', t)] = << >>
  BY SMT
<1> QED
  BY <1>1, <1>2, <1>3, <1>4, <1>5 DEF held, HeldOf

\* Both modules count in the same circle.
LEMMA SameCircle ==
  /\ Abstract!SeqNums = SeqNums
  /\ \A a, b : Abstract!Add(a, b) = Add(a, b)
  /\ \A b, t : Abstract!Fits(b, t) <=> Dist(b, t) < QueueSize
  BY DEF SeqNums, Add, Dist, Abstract!SeqNums, Abstract!Add, Abstract!Dist, Abstract!Fits

\* The range of held are the elements of the window.
LEMMA RangeOfHeld ==
  ASSUME NEW q
  PROVE  Abstract!Range(HeldOf(q)) = Elements(q)
  BY DEF HeldOf, Holding, Elements, Abstract!Range

\* A push is accepted, refused, or slides the window.
LEMMA PushRefines ==
  ASSUME OwnedInv, NEW s \in Arrivals, Push(s)
  PROVE  Abstract!Next
<1> DEFINE u == Len(pushed) + 1
           n == Pushed(queue, s, u, strategy)
<1>1. /\ queue \in QueueType /\ pushed \in Seq(SeqNums) /\ strategy \in {"begin", "end"}
      /\ Separate(queue) /\ Elements(queue) \subseteq 1 .. Len(pushed)
  BY FiledIsSeparate DEF OwnedInv, FiledInv, TypeOK
<1>2. /\ s \in SeqNums /\ u \in Nat /\ Len(pushed) \in Nat
      /\ u \in 1 .. MaxPush /\ u \notin 1 .. Len(pushed)
  BY <1>1, ReorderQueueAssumption, SMT DEF Push
<1>3. /\ ~AssertFails(queue, s) /\ queue' = n
      /\ phase = "open" /\ phase' = "open"
      /\ returned' = returned \cup (IF Refused(queue, s, strategy) THEN {u}
                                    ELSE Evicted(queue, s, strategy))
  BY DEF Push
<1>4. held = HeldOf(queue) /\ held' = HeldOf(n)
  BY <1>3, HeldIsHeldOf
<1>5. Abstract!Fresh(u)
  <2>1. u \notin Elements(queue) /\ u \notin returned
    BY <1>1, <1>2, <1>3 DEF OwnedInv, EachElementOwnedOnce
  <2> QED
    BY <1>4, <2>1, RangeOfHeld DEF Abstract!Fresh, held
<1> HIDE DEF u
<1>6. CASE Refused(queue, s, strategy)
  <2>1. n = queue /\ returned' = returned \cup {u}
    BY <1>3, <1>6 DEF Pushed
  <2>2. s \in Holding(queue) \/ ~(Dist(queue.begin, s) < QueueSize)
    <3>1. CASE InWindow(queue, s)
      BY <1>1, <1>2, <1>6, <3>1, InWindowMember DEF Refused, TooOld, Overrun, Ahead, Holding
    <3>2. CASE ~InWindow(queue, s)
      <4>1. Dist(queue.begin, s) \in SeqNums
        BY <1>1, <1>2, QueueFields, DistWraps
      <4>2. Dist(queue.begin, s) > Half \/ QueueSize <= Dist(queue.begin, s)
        BY <1>1, <1>2, <1>6, <3>2, PushTests DEF Refused
      <4> QED
        BY <4>1, <4>2, HalfFacts, QueueSizeAssumption, ModulusAssumption, SMT DEF SeqNums
    <3> QED
      BY <3>1, <3>2
  <2>3. Abstract!Refuse(s, u)
    BY <1>3, <1>4, <1>5, <2>1, <2>2, SameCircle DEF Abstract!Refuse, held, HeldOf
  <2> QED
    BY <1>2, <2>3, SameCircle DEF Abstract!Next
<1>7. CASE ~Refused(queue, s, strategy)
  <2> DEFINE kept == {t \in Holding(queue) : Dist(n.begin, t) < QueueSize}
  <2>1. /\ s \notin Holding(queue) /\ Holding(n) = kept \cup {s} /\ EntryAt(n, s) = u
        /\ \A t \in kept : EntryAt(n, t) = EntryAt(queue, t)
    BY <1>1, <1>2, <1>3, <1>7, PushedHolding
  <2>2. /\ Elements(n) = (Elements(queue) \ Evicted(queue, s, strategy)) \cup {u}
        /\ Evicted(queue, s, strategy) \subseteq Elements(queue)
    BY <1>1, <1>2, <1>3, <1>7, PushedElements
  <2>3. returned' = returned \cup Evicted(queue, s, strategy)
    BY <1>3, <1>7
  <2>4. \A t \in Window(queue) : Dist(queue.begin, t) < QueueSize
    BY <1>1, WindowDist DEF Window
  <2> HIDE DEF n
  <2>5. CASE ~Overrun(queue, s)
    <3>1. n.begin = queue.begin /\ Dist(queue.begin, s) < QueueSize
      <4>1. CASE InWindow(queue, s)
        BY <1>1, <1>2, <1>7, <2>4, <4>1, InWindowMember, QueueFields DEF n, Pushed, Store
      <4>2. CASE ~InWindow(queue, s)
        <5>1. Ahead(queue, s)
          BY <1>7, <4>2 DEF Ahead, Refused, TooOld
        <5>2. n.begin = queue.begin
          BY <1>1, <1>2, <1>3, <1>7, <2>5, <5>1, PushedFront DEF n
        <5>3. Dist(queue.begin, s) \in SeqNums
          BY <1>1, <1>2, QueueFields, DistWraps
        <5> QED
          BY <1>1, <1>2, <2>5, <5>1, <5>2, <5>3, PushTests, QueueSizeAssumption, SMT DEF SeqNums
      <4> QED
        BY <4>1, <4>2
    <3>2. kept = Holding(queue)
      BY <2>4, <3>1 DEF Holding
    <3>3. held' = Abstract!With(held, s, u)
      BY <1>4, <2>1, <3>2 DEF HeldOf, Abstract!With
    <3>4. Evicted(queue, s, strategy) = {}
      BY <2>5 DEF Evicted
    <3>5. Abstract!Accept(s, u)
      BY <1>3, <1>4, <1>5, <2>1, <2>3, <3>1, <3>3, <3>4, SameCircle
         DEF Abstract!Accept, held, HeldOf, n
    <3> QED
      BY <1>2, <3>5, SameCircle DEF Abstract!Next
  <2>6. CASE Overrun(queue, s)
    <3>1. Ahead(queue, s)
      BY <2>6 DEF Overrun
    <3>2. n.begin \in {s, Add(s, (M + 1) - QueueSize)}
      BY <1>1, <1>2, <1>3, <1>7, <2>6, <3>1, PushedFront DEF n
    <3>3. ~(Dist(queue.begin, s) < QueueSize)
      <4>1. Dist(queue.begin, s) \in SeqNums
        BY <1>1, <1>2, QueueFields, DistWraps
      <4> QED
        BY <1>1, <1>2, <2>6, <4>1, PushTests, QueueSizeAssumption, SMT DEF SeqNums
    <3>4. Abstract!Kept(n.begin) = [t \in kept |-> EntryAt(queue, t)]
      BY <1>4, SameCircle DEF Abstract!Kept, Abstract!Restrict, held, HeldOf
    <3>5. held' = Abstract!With(Abstract!Kept(n.begin), s, u)
      BY <1>4, <2>1, <3>4 DEF HeldOf, Abstract!With
    <3>6. Abstract!Range(held) \ Abstract!Range(Abstract!Kept(n.begin))
            = Evicted(queue, s, strategy)
      <4>1. Abstract!Range(Abstract!Kept(n.begin)) = {EntryAt(n, t) : t \in kept}
        BY <2>1, <3>4 DEF Abstract!Range
      <4>2. Elements(n) = {EntryAt(n, t) : t \in kept} \cup {u}
        <5>1. Elements(n) = {EntryAt(n, t) : t \in Holding(n)}
          BY DEF Elements, Holding
        <5> QED
          BY <2>1, <5>1
      <4>3. {EntryAt(n, t) : t \in kept} \subseteq Elements(queue)
        BY <2>1 DEF Elements, Holding
      <4>4. u \notin Elements(queue)
        BY <1>1, <1>2
      <4>5. Abstract!Range(held) = Elements(queue)
        BY <1>4, RangeOfHeld
      <4> HIDE DEF kept
      <4> QED
        BY <2>2, <4>1, <4>2, <4>3, <4>4, <4>5
    <3>7. Abstract!Slide(s, u)
      <4> DEFINE newBase == n.begin
      <4>1. queue'.begin = newBase
        BY <1>3 DEF n
      <4>2. newBase \in {s, Abstract!Add(s, (M + 1) - QueueSize)}
        <5>1. Abstract!Add(s, (M + 1) - QueueSize) = Add(s, (M + 1) - QueueSize)
          BY SameCircle, Zenon
        <5> QED
          BY <3>2, <5>1
      <4>3. /\ held' = Abstract!With(Abstract!Kept(newBase), s, u)
            /\ returned' = returned \cup
                 (Abstract!Range(held) \ Abstract!Range(Abstract!Kept(newBase)))
        BY <2>3, <3>5, <3>6
      <4>4. ~Abstract!Fits(queue.begin, s)
        BY <3>3, SameCircle
      <4> HIDE DEF newBase
      <4> QED
        BY <1>5, <4>1, <4>2, <4>3, <4>4 DEF Abstract!Slide, held
    <3> QED
      BY <1>2, <3>7, SameCircle DEF Abstract!Next
  <2> QED
    BY <2>5, <2>6
<1> QED
  BY <1>6, <1>7

\* A pull delivers the element at the front.
LEMMA PullRefines ==
  ASSUME OwnedInv, Pull
  PROVE  Abstract!Next
<1> DEFINE b == queue.begin
<1>1. queue \in QueueType /\ Separate(queue)
  BY FiledIsSeparate DEF OwnedInv, FiledInv, TypeOK
<1>2. /\ CanPull(queue) /\ queue' = Pulled(queue) /\ phase = "open" /\ phase' = "open"
      /\ returned' = returned \cup {EntryAt(queue, b)}
  BY DEF Pull
<1>3. held = HeldOf(queue) /\ held' = HeldOf(Pulled(queue))
  BY <1>2, HeldIsHeldOf
<1>4. /\ b \in Holding(queue) /\ Window(Pulled(queue)) = Window(queue) \ {b}
      /\ \A t : EntryAt(Pulled(queue), t) = EntryAt(queue, t)
  BY <1>1, <1>2, PulledElements, PulledEntries, PulledWindow DEF Holding, CanPull
<1>5. Holding(Pulled(queue)) = Holding(queue) \ {b}
  BY <1>4 DEF Holding
<1>6. held' = Abstract!Restrict(held, Holding(queue) \ {b})
  BY <1>3, <1>4, <1>5 DEF HeldOf, Abstract!Restrict
<1>7. Pulled(queue).begin = Add(b, 1)
  BY DEF Pulled
<1>8. Abstract!Deliver
  BY <1>2, <1>3, <1>4, <1>6, <1>7, SameCircle DEF Abstract!Deliver, held, HeldOf
<1> QED
  BY <1>8 DEF Abstract!Next

\* fini gives back what is held.
LEMMA FiniRefines ==
  ASSUME Fini
  PROVE  Abstract!Next
<1>1. /\ phase = "open" /\ phase' = "closed" /\ queue' = queue
      /\ returned' = returned \cup Elements(queue)
  BY DEF Fini
<1>2. held = HeldOf(queue) /\ held' = << >>
  BY <1>1, HeldIsHeldOf
<1>3. Abstract!Range(held) = Elements(queue)
  BY <1>2, RangeOfHeld
<1>4. Abstract!Close
  BY <1>1, <1>2, <1>3 DEF Abstract!Close, held
<1> QED
  BY <1>4 DEF Abstract!Next

\* Whatever sequence of calls it gets, a reorder queue with a ring buffer does
\* only what the abstract window may do.
THEOREM WindowImplemented == Spec => ImplementsWindow
<1>1. Init => Abstract!Init
  <2> SUFFICES ASSUME Init PROVE Abstract!Init
    OBVIOUS
  <2>1. PICK start \in Starts : queue = NewQueue(start)
    BY DEF Init
  <2>2. queue.begin \in SeqNums /\ Window(queue) = {}
    BY <2>1, ReorderQueueAssumption, SMT DEF Window, NewQueue
  <2>3. HeldNumbers = {}
    BY <2>2 DEF HeldNumbers
  <2>4. [t \in HeldNumbers |-> EntryAt(queue, t)] = << >>
    BY <2>3, SMT
  <2> QED
    BY <2>2, <2>4, SameCircle DEF Abstract!Init, Init
<1>2. OwnedInv /\ [Next]_vars => [Abstract!Next]_Abstract!windowVars
  <2> SUFFICES ASSUME OwnedInv, [Next]_vars PROVE [Abstract!Next]_Abstract!windowVars
    OBVIOUS
  <2>1. ASSUME NEW s \in Arrivals, Push(s) PROVE Abstract!Next
    BY <2>1, PushRefines
  <2>2. CASE Pull
    BY <2>2, PullRefines
  <2>3. CASE Fini
    BY <2>3, FiniRefines
  <2>4. ASSUME NEW s \in Arrivals, PushAborts(s) PROVE UNCHANGED Abstract!windowVars
    <3>1. phase # "closed" /\ phase' # "closed" /\ queue' = queue /\ returned' = returned
      BY <2>4 DEF PushAborts
    <3>2. held' = held
      BY <3>1, HeldIsHeldOf
    <3> QED
      BY <3>1, <3>2 DEF Abstract!windowVars, held
  <2>5. CASE UNCHANGED <<queue, phase, returned>>
    <3>1. HeldNumbers' = HeldNumbers
      BY <2>5 DEF HeldNumbers, Window, EntryAt
    <3>2. held' = held
      BY <2>5, <3>1 DEF held, EntryAt
    <3> QED
      BY <2>5, <3>2 DEF Abstract!windowVars, held
  <2> QED
    BY <2>1, <2>2, <2>3, <2>4, <2>5 DEF Next, vars, Drop, SetDropStrategy
<1>3. Spec => []OwnedInv
  BY OwnedInvariant
<1> QED
  BY <1>1, <1>2, <1>3, PTL DEF Spec, ImplementsWindow, Abstract!Spec
=============================================================================
