---------------------------- MODULE ReorderQueue ----------------------------
(***************************************************************************)
(* A reorder queue (lib/src/reorderqueue.c) under every sequence of calls  *)
(* of its interface.  Each pushed element is a fresh allocation, numbered  *)
(* 1, 2, ... in the order of the pushes; the caller gets it back when       *)
(* drop_cb or pull hands it over.                                          *)
(***************************************************************************)
EXTENDS ReorderQueueOps, Sequences, FiniteSets

CONSTANTS Starts,       \* sequence numbers the queue may be created with
          Arrivals,     \* sequence numbers that reach push
          MaxPush,      \* bound: number of calls of push
          MaxDrop       \* bound: number of elements given to chiaki_reorder_queue_drop

ASSUME ReorderQueueAssumption ==
         /\ Starts \subseteq SeqNums /\ Arrivals \subseteq SeqNums
         /\ MaxPush \in Nat /\ MaxDrop \in Nat

VARIABLES queue,       \* the ring buffer
          strategy,    \* queue->drop_strategy
          phase,       \* "open", "closed" by fini, "aborted" by a failed assert
          pushed,      \* history: pushed[t] is the number element t came with
          returned,    \* history: elements that push, pull and fini handed back
          dropped,     \* history: elements that chiaki_reorder_queue_drop handed back
          delivered    \* history: numbers returned by pull, in order

vars == <<queue, strategy, phase, pushed, returned, dropped, delivered>>

Strategies == {"begin", "end"}

Init ==
  /\ \E start \in Starts : queue = NewQueue(start)
  /\ strategy = "end"
  /\ phase = "open"
  /\ pushed = <<>>
  /\ returned = {} /\ dropped = {}
  /\ delivered = <<>>

Push(s) ==
  LET t == Len(pushed) + 1 IN
  /\ phase = "open"
  /\ Len(pushed) < MaxPush
  /\ ~AssertFails(queue, s)
  /\ pushed' = Append(pushed, s)
  /\ queue' = Pushed(queue, s, t, strategy)
  /\ returned' = returned \cup (IF Refused(queue, s, strategy) THEN {t}
                                ELSE Evicted(queue, s, strategy))
  /\ UNCHANGED <<strategy, phase, dropped, delivered>>

\* A number exactly half the circle away from an empty queue.
PushAborts(s) ==
  /\ phase = "open"
  /\ Len(pushed) < MaxPush
  /\ AssertFails(queue, s)
  /\ phase' = "aborted"
  /\ UNCHANGED <<queue, strategy, pushed, returned, dropped, delivered>>

Pull ==
  /\ phase = "open"
  /\ CanPull(queue)
  /\ returned' = returned \cup {EntryAt(queue, queue.begin)}
  /\ delivered' = Append(delivered, queue.begin)
  /\ queue' = Pulled(queue)
  /\ UNCHANGED <<strategy, phase, pushed, dropped>>

\* chiaki_reorder_queue_drop hands the element to drop_cb and then shrinks the
\* count "while(!entry->set)".  It has not unset the entry, so that loop ends
\* at once and the queue is left as it was.
Drop(index) ==
  LET s == Add(queue.begin, index) IN
  /\ phase = "open"
  /\ index < queue.count
  /\ EntryAt(queue, s) # Empty
  /\ EntryAt(queue, s) \in dropped \/ Cardinality(dropped) < MaxDrop
  /\ dropped' = dropped \cup {EntryAt(queue, s)}
  /\ UNCHANGED <<queue, strategy, phase, pushed, returned, delivered>>

SetDropStrategy(st) ==
  /\ phase = "open"
  /\ strategy' = st
  /\ UNCHANGED <<queue, phase, pushed, returned, dropped, delivered>>

Fini ==
  /\ phase = "open"
  /\ phase' = "closed"
  /\ returned' = returned \cup Elements(queue)
  /\ UNCHANGED <<queue, strategy, pushed, dropped, delivered>>

Next ==
  \/ \E s \in Arrivals : Push(s)
  \/ \E s \in Arrivals : PushAborts(s)
  \/ Pull
  \/ \E i \in SlotIds : Drop(i)
  \/ \E st \in Strategies : SetDropStrategy(st)
  \/ Fini

Spec == Init /\ [][Next]_vars

-----------------------------------------------------------------------------

\* Every variable has its type; "count <= QUEUE_SIZE", the assertion that push
\* and pull make, is part of it.
TypeOK ==
  /\ queue \in QueueType
  /\ strategy \in {"begin", "end"}
  /\ phase \in {"open", "closed", "aborted"}
  /\ pushed \in Seq(SeqNums)
  /\ returned \subseteq Nat /\ dropped \subseteq Nat
  /\ delivered \in Seq(SeqNums)

\* An element sits in the window under the number it was pushed with: a slot
\* that the wrapping ring reuses never shows an older element.
FiledUnderOwnNumber ==
  \A s \in Window(queue) :
    EntryAt(queue, s) # Empty => /\ EntryAt(queue, s) \in 1 .. Len(pushed)
                                 /\ pushed[EntryAt(queue, s)] = s

\* The owner gets every element back, and none of them twice, from push, pull
\* and fini: while the queue lives an element is either inside it or handed
\* back, and fini hands back whatever is left.  (The owner frees the elements.)
EachElementOwnedOnce ==
  /\ phase = "open"   => /\ Elements(queue) \cap returned = {}
                         /\ Elements(queue) \cup returned = 1 .. Len(pushed)
  /\ phase = "closed" => returned = 1 .. Len(pushed)

\* With the strategy that Takion uses no number is skipped: the window moves
\* only when its first number is pulled, and only past that number.
SkipsNothing ==
  (strategy = "end" /\ queue'.begin # queue.begin) =>
    /\ queue'.begin = Add(queue.begin, 1)
    /\ delivered' = Append(delivered, queue.begin)

NoGaps == [][SkipsNothing]_vars

\* The numbers that have an element waiting.
HeldNumbers == IF phase = "closed" THEN {}
               ELSE {s \in Window(queue) : EntryAt(queue, s) # Empty}

\* What a push gives back, next to the number it came with.
DropsFrom(end) ==
  LET new  == Len(pushed')
      gone == returned' \ returned
  IN  IF end = "begin"
      THEN /\ new \in gone => Lt(pushed'[new], queue.begin)
           /\ \A t \in gone \ {new}, u \in Elements(queue') : ~Lt(pushed'[u], pushed[t])
      ELSE gone \subseteq {new}

IsFreshPush == pushed' # pushed /\ pushed'[Len(pushed')] \notin HeldNumbers

\* "drop packet with lowest number": unless it is a duplicate or too old, the
\* new element stays, and what it evicts is not newer than anything that stays.
\* "drop packet with highest number": a push gives back only its own element.
DropsTheRightEnd == [][IsFreshPush => DropsFrom(strategy)]_vars

\* The ring buffer implements the abstract window: each step of it is a step of
\* ReorderWindow on the elements that the slots of the window show.
Abstract == INSTANCE ReorderWindow WITH
              Size  <- QueueSize,
              Elems <- 1 .. MaxPush,
              base  <- queue.begin,
              held  <- [s \in HeldNumbers |-> EntryAt(queue, s)],
              given <- returned

ImplementsWindow == Abstract!Spec
=============================================================================
