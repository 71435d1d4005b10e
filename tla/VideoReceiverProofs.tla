------------------------- MODULE VideoReceiverProofs -------------------------
(***************************************************************************)
(* Theorems about the video receiver, for every number of units in a       *)
(* frame, every length of the stream, every width of the frame numbers and *)
(* every moment at which the profile changes: the decoder gets samples     *)
(* that are made of the units of one frame, each with its own profile, and *)
(* in order, and each other frame is reported or dropped.  The network may *)
(* drop, repeat and reorder packets as long as a packet is less than half  *)
(* the circle of frame numbers away from the newest frame, on either side. *)
(***************************************************************************)
EXTENDS VideoReceiver, SequenceTheorems, FiniteSetTheorems

-----------------------------------------------------------------------------
(* The invariant                                                            *)

\* What the structures of the C code hold.
FrameProcessors == [slots : [Slots -> Nat], sourceReceived : Nat, fecReceived : Nat]

Receivers ==
  [frame_index_cur : -1 .. M - 1, frame_index_prev : -1 .. M - 1,
   frame_index_prev_complete : SeqNums, profile_cur : -1 .. 1,
   frame_processor : FrameProcessors, reference_frames : Seq(SeqNums), frames_lost : Int]

UnitsReceived(fp) == fp.sourceReceived + fp.fecReceived

\* The slots hold units of one frame, and some unit for what was counted.
HoldsOnly(fp, frame) ==
  /\ \A i \in Slots : fp.slots[i] \in {None, frame}
  /\ fp.sourceReceived > 0 => \E i \in Sources : fp.slots[i] = frame
  /\ fp.fecReceived > 0 => \E i \in Slots : fp.slots[i] = frame

\* The frame being filled is the newest one.
FillsNewest ==
  /\ newest \in Nat
  /\ vr.frame_index_cur = IF newest = 0 THEN -1 ELSE Index(newest)
  /\ HoldsOnly(vr.frame_processor, newest)

\* A frame that has not been flushed has too few units for the decoder.
FlushedIfComplete ==
  vr.frame_index_prev # vr.frame_index_cur => UnitsReceived(vr.frame_processor) < Source

\* The last frame given to the decoder has been flushed.
GivenIsFlushed ==
  /\ given \in Nat /\ given <= newest
  /\ given = newest => vr.frame_index_prev = vr.frame_index_cur

\* Of n frames so far the first a are accounted for, those up to the last complete
\* one among them and all but the newest. The last complete one is not far back.
Accounted(v, a, n) ==
  /\ a \in Nat /\ a <= n /\ n <= a + 1
  /\ \E c \in 0 .. n :
       /\ v.frame_index_prev_complete = Index(c)
       /\ c <= a
       /\ c = n => a = n
       /\ IF v.frame_index_prev = v.frame_index_cur THEN n - c <= MaxStall
          ELSE c < n /\ n - c <= MaxStall + Skip

\* A unit that was counted is in a slot, and the list of references is not too long.
FecUnits == Source .. Source + Fec - 1

Stored(fp, units) == {i \in units : fp.slots[i] # None}

Counted(fp) ==
  /\ fp.sourceReceived <= Cardinality(Stored(fp, Sources))
  /\ fp.fecReceived <= Cardinality(Stored(fp, FecUnits))

Sized(v) == Counted(v.frame_processor) /\ Len(v.reference_frames) <= MaxRefs

\* What holds between the packets.
Inv ==
  /\ vr \in Receivers /\ switchAt \in SwitchFrames
  /\ FillsNewest
  /\ FlushedIfComplete
  /\ GivenIsFlushed
  /\ SamplesOwnUnits
  /\ HeaderMatches
  /\ Accounted(vr, accounted, newest)

-----------------------------------------------------------------------------
(* Frame numbers                                                            *)

\* The larger of two numbers.
LEMMA MaxOfTwo ==
  ASSUME NEW a \in Int, NEW b \in Int
  PROVE  Max({a, b}) = IF a >= b THEN a ELSE b
<1>1. \A x \in {a, b} : (\A y \in {a, b} : x >= y) => x = IF a >= b THEN a ELSE b
  BY SMT
<1>2. \E x \in {a, b} : \A y \in {a, b} : x >= y
  BY SMT
<1> QED
  BY <1>1, <1>2 DEF Max

\* Following frames have following numbers, across any number of wraps.
LEMMA IndexAdds ==
  ASSUME NEW f \in Nat, NEW d \in 0 .. M
  PROVE  Index(f) \in SeqNums /\ Index(f + d) = Add(Index(f), d)
<1>1. M \in Nat /\ M > 0
  BY ModulusAssumption, SMT
<1>2. f \div M \in Nat /\ f % M \in 0 .. M - 1 /\ f = (M * (f \div M)) + (f % M)
  BY <1>1, Division
<1>3. Index(f) \in SeqNums
  BY <1>2 DEF Index, SeqNums
<1>4. (f % M) + d \in Nat
  BY <1>1, <1>2, SMT
<1>5. ((M * (f \div M)) + ((f % M) + d)) % M = ((f % M) + d) % M
  BY <1>1, <1>2, <1>4, WholeTurns
<1>6. (M * (f \div M)) + ((f % M) + d) = f + d
  <2>1. M * (f \div M) \in Nat
    BY <1>1, <1>2, SMT
  <2> QED
    BY <1>1, <1>2, <2>1, SMT
<1> QED
  BY <1>3, <1>5, <1>6 DEF Index, Add

\* Less than half the circle apart, frames are in the order of their numbers.
LEMMA FrameOrder ==
  ASSUME NEW n \in Nat, NEW f \in Nat, f - n < Half, n - f < Half
  PROVE  /\ Index(n) \in SeqNums /\ Index(f) \in SeqNums
         /\ Index(f) = Index(n) <=> f = n
         /\ Lt(Index(f), Index(n)) <=> f < n
         /\ Gt(Index(f), Index(n)) <=> f > n
<1>1. CASE f >= n
  <2> DEFINE d == f - n
  <2>1. d \in 0 .. M - 1 /\ d \in 0 .. M /\ 0 \in 0 .. M - 1 /\ 0 \in 0 .. M /\ f = n + d /\ n = n + 0
    BY <1>1, HalfFacts, SMT
  <2>2. Index(n) \in SeqNums /\ Index(f) = Add(Index(n), d) /\ Index(n) = Add(Index(n), 0)
    BY <2>1, IndexAdds
  <2>3. Index(f) \in SeqNums
    BY <2>1, IndexAdds
  <2>4. d \in Nat /\ d < Half /\ Half \in Nat /\ (f = n <=> d = 0) /\ (f > n <=> d > 0) /\ ~(f < n)
    BY <1>1, HalfFacts, SMT
  <2> HIDE DEF d
  <2>5. Add(Index(n), d) = Add(Index(n), 0) <=> d = 0
    BY <2>1, <2>2, OffsetOrder
  <2>6. Lt(Add(Index(n), d), Add(Index(n), 0)) <=> (d < 0 /\ 0 - d < Half) \/ (d > 0 /\ d - 0 > Half)
    BY <2>1, <2>2, OffsetOrder
  <2>7. Gt(Add(Index(n), d), Add(Index(n), 0)) <=> (d < 0 /\ 0 - d > Half) \/ (d > 0 /\ d - 0 < Half)
    BY <2>1, <2>2, OffsetOrder
  <2>8. ~Lt(Index(f), Index(n))
    BY <2>2, <2>4, <2>6, SMT
  <2>9. Gt(Index(f), Index(n)) <=> d > 0
    BY <2>2, <2>4, <2>7, SMT
  <2> QED
    BY <2>2, <2>3, <2>4, <2>5, <2>8, <2>9
<1>2. CASE f < n
  <2> DEFINE d == n - f
  <2>1. d \in 0 .. M - 1 /\ d \in 0 .. M /\ 0 \in 0 .. M - 1 /\ 0 \in 0 .. M /\ n = f + d /\ f = f + 0
    BY <1>2, HalfFacts, SMT
  <2>2. Index(f) \in SeqNums /\ Index(n) = Add(Index(f), d) /\ Index(f) = Add(Index(f), 0)
    BY <2>1, IndexAdds
  <2>3. Index(n) \in SeqNums
    BY <2>1, IndexAdds
  <2>4. d \in Nat /\ d > 0 /\ d < Half /\ Half \in Nat /\ ~(f = n) /\ ~(f > n)
    BY <1>2, HalfFacts, SMT
  <2> HIDE DEF d
  <2>5. Add(Index(f), 0) = Add(Index(f), d) <=> 0 = d
    BY <2>1, <2>2, OffsetOrder
  <2>6. Lt(Add(Index(f), 0), Add(Index(f), d)) <=> (0 < d /\ d - 0 < Half) \/ (0 > d /\ 0 - d > Half)
    BY <2>1, <2>2, OffsetOrder
  <2>7. Gt(Add(Index(f), 0), Add(Index(f), d)) <=> (0 < d /\ d - 0 > Half) \/ (0 > d /\ 0 - d < Half)
    BY <2>1, <2>2, OffsetOrder
  <2>8. Lt(Index(f), Index(n))
    BY <2>2, <2>4, <2>6, SMT
  <2>9. ~Gt(Index(f), Index(n))
    BY <2>2, <2>4, <2>7, SMT
  <2>10. Index(f) # Index(n)
    BY <2>2, <2>4, <2>5, SMT
  <2> QED
    BY <1>2, <2>2, <2>3, <2>4, <2>8, <2>9, <2>10
<1> QED
  BY <1>1, <1>2, SMT

-----------------------------------------------------------------------------
(* The frame processor                                                      *)

\* The units of a frame have slots, and a frame has at least one source unit.
LEMMA UnitFacts ==
  /\ Units \subseteq Slots /\ Sources \subseteq Slots /\ FecExpected \in Nat
  /\ Source \in Nat /\ Source > 0
  BY UnitsAssumption, SMT DEF Units, Slots, Sources, FecExpected

\* An empty frame.
LEMMA EmptyFrameHolds ==
  ASSUME NEW frame
  PROVE  /\ EmptyFrame \in FrameProcessors /\ HoldsOnly(EmptyFrame, frame)
         /\ UnitsReceived(EmptyFrame) = 0
         /\ EmptyFrame.sourceReceived = 0 /\ EmptyFrame.fecReceived = 0
  BY SMT DEF EmptyFrame, FrameProcessors, HoldsOnly, UnitsReceived, None

\* A unit is stored in a slot of its frame.
LEMMA PutUnitHolds ==
  ASSUME NEW fp \in FrameProcessors, NEW frame \in Nat \ {0}, NEW unit \in Units, HoldsOnly(fp, frame)
  PROVE  /\ PutUnit(fp, frame, unit) \in FrameProcessors
         /\ HoldsOnly(PutUnit(fp, frame, unit), frame)
<1> DEFINE new == [slots          |-> [fp.slots EXCEPT ![unit] = frame],
                   sourceReceived |-> fp.sourceReceived + (IF unit < Source THEN 1 ELSE 0),
                   fecReceived    |-> fp.fecReceived + (IF unit < Source THEN 0 ELSE 1)]
<1>1. fp.slots \in [Slots -> Nat] /\ fp.sourceReceived \in Nat /\ fp.fecReceived \in Nat
  BY DEF FrameProcessors
<1>2. unit \in Slots /\ unit \in Nat /\ Source \in Nat
  BY UnitFacts, UnitsAssumption, SMT DEF Units
<1>3. CASE fp.slots[unit] # None
  BY <1>3 DEF PutUnit
<1>4. CASE fp.slots[unit] = None
  <2>1. PutUnit(fp, frame, unit) = new
    BY <1>4 DEF PutUnit
  <2>2. /\ new.slots \in [Slots -> Nat] /\ new.sourceReceived \in Nat /\ new.fecReceived \in Nat
        /\ new = [slots |-> new.slots, sourceReceived |-> new.sourceReceived, fecReceived |-> new.fecReceived]
    BY <1>1, <1>2, SMT
  <2>3. \A i \in Slots : new.slots[i] = IF i = unit THEN frame ELSE fp.slots[i]
    BY <1>1
  <2>4. new \in FrameProcessors
    BY <2>2 DEF FrameProcessors
  <2>5. unit < Source => unit \in Sources
    BY <1>2, SMT DEF Sources
  <2>6. IF unit < Source THEN new.fecReceived = fp.fecReceived
                         ELSE new.sourceReceived = fp.sourceReceived
    BY <1>1, SMT
  <2> HIDE DEF new
  <2>7. HoldsOnly(new, frame)
    <3>1. \A i \in Slots : new.slots[i] \in {None, frame}
      BY <2>3 DEF HoldsOnly
    <3>2. new.sourceReceived > 0 => \E i \in Sources : new.slots[i] = frame
      <4>1. CASE unit < Source
        BY <1>2, <2>3, <2>5, <4>1
      <4>2. CASE ~(unit < Source)
        BY <2>3, <2>6, <4>2, UnitFacts DEF HoldsOnly
      <4> QED
        BY <4>1, <4>2
    <3>3. new.fecReceived > 0 => \E i \in Slots : new.slots[i] = frame
      BY <1>2, <2>3
    <3> QED
      BY <3>1, <3>2, <3>3 DEF HoldsOnly
  <2> QED
    BY <2>1, <2>4, <2>7
<1> QED
  BY <1>3, <1>4

\* With too few units a flush fails and changes nothing.
LEMMA TooFewUnits ==
  ASSUME NEW fp \in FrameProcessors, UnitsReceived(fp) < Source
  PROVE  FlushResult(fp) = "fec_failed" /\ Flush(fp) = fp
<1>1. fp.sourceReceived \in Nat /\ fp.fecReceived \in Nat
  BY DEF FrameProcessors
<1>2. ~(fp.sourceReceived >= Source) /\ ~(Erasures(fp) <= FecExpected)
  BY <1>1, UnitFacts, SMT DEF UnitsReceived, Erasures
<1> QED
  BY <1>2 DEF FlushResult, Flush

\* What a flush returns when there are units enough, and what it leaves behind.
LEMMA FlushHolds ==
  ASSUME NEW fp \in FrameProcessors, NEW frame \in Nat \ {0}, HoldsOnly(fp, frame), FlushPossible(fp)
  PROVE  /\ FlushResult(fp) # "fec_failed"
         /\ Flush(fp) \in FrameProcessors /\ HoldsOnly(Flush(fp), frame)
         /\ Contents(Flush(fp)) = {frame}
<1>1. fp.slots \in [Slots -> Nat] /\ fp.sourceReceived \in Nat /\ fp.fecReceived \in Nat
  BY DEF FrameProcessors
<1>2. frame # None /\ frame \in Nat
  BY DEF None
<1>3. CASE fp.sourceReceived >= Source
  <2>1. FlushResult(fp) = "success" /\ Flush(fp) = fp
    BY <1>3 DEF FlushResult, Flush
  <2>2. fp.sourceReceived > 0
    BY <1>1, <1>3, UnitFacts, SMT
  <2>3. Contents(fp) = {fp.slots[i] : i \in Sources} \ {None}
    BY <2>1 DEF Contents
  <2>4. PICK i \in Sources : fp.slots[i] = frame
    BY <2>2 DEF HoldsOnly
  <2>5. \A j \in Sources : fp.slots[j] \in {None, frame}
    BY UnitFacts DEF HoldsOnly
  <2>6. Contents(fp) = {frame}
    BY <1>2, <2>3, <2>4, <2>5
  <2> QED
    BY <2>1, <2>6
<1>4. CASE ~(fp.sourceReceived >= Source)
  <2>1. Erasures(fp) <= FecExpected
    BY <1>1, UnitFacts, SMT DEF Erasures, FlushPossible
  <2>2. FlushResult(fp) = "fec_success"
    BY <1>4, <2>1 DEF FlushResult
  <2>3. Contents(fp) = {fp.slots[i] : i \in Slots} \ {None}
    BY <2>2 DEF Contents
  <2>4. fp.sourceReceived > 0 \/ fp.fecReceived > 0
    BY <1>1, UnitFacts, SMT DEF FlushPossible
  <2>5. PICK i \in Slots : fp.slots[i] = frame
    BY <2>4, UnitFacts DEF HoldsOnly
  <2>6. Contents(fp) = {frame}
    BY <1>2, <2>3, <2>5 DEF HoldsOnly
  <2> DEFINE filled == [j \in Slots |-> IF j \in Sources /\ fp.slots[j] = None
                                        THEN CHOOSE f \in Contents(fp) : TRUE ELSE fp.slots[j]]
  <2>7. (CHOOSE f \in Contents(fp) : TRUE) = frame
    BY <2>6
  <2>8. filled \in [Slots -> Nat]
    BY <1>1, <1>2, <2>7
  <2>9. \A j \in Slots : filled[j] \in {None, frame} /\ (fp.slots[j] = frame => filled[j] = frame)
    BY <1>2, <2>7 DEF HoldsOnly
  <2>10. /\ Flush(fp) = [fp EXCEPT !.slots = filled]
    BY <2>2 DEF Flush
  <2> HIDE DEF filled
  <2>11. /\ Flush(fp).slots = filled /\ Flush(fp).sourceReceived = fp.sourceReceived
         /\ Flush(fp).fecReceived = fp.fecReceived /\ Flush(fp) \in FrameProcessors
    BY <1>1, <2>8, <2>10 DEF FrameProcessors
  <2>12. HoldsOnly(Flush(fp), frame)
    BY <2>9, <2>11, UnitFacts DEF HoldsOnly
  <2>13. FlushResult(Flush(fp)) = "fec_success"
    BY <2>2, <2>11 DEF FlushResult, Erasures
  <2>14. Contents(Flush(fp)) = {Flush(fp).slots[j] : j \in Slots} \ {None}
    BY <2>13 DEF Contents
  <2>15. Contents(Flush(fp)) = {frame}
    BY <1>2, <2>5, <2>9, <2>11, <2>14
  <2> QED
    BY <2>2, <2>11, <2>12, <2>15
<1> QED
  BY <1>3, <1>4

\* No more units can be stored than a frame has.
LEMMA StoredFinite ==
  ASSUME NEW fp
  PROVE  /\ IsFiniteSet(Stored(fp, Sources)) /\ Cardinality(Stored(fp, Sources)) \in 0 .. Source
         /\ IsFiniteSet(Stored(fp, FecUnits)) /\ Cardinality(Stored(fp, FecUnits)) \in 0 .. Fec
<1>1. /\ Source \in Nat /\ Fec \in Nat /\ 0 \in Int /\ Source - 1 \in Int /\ Source + Fec - 1 \in Int
  BY UnitsAssumption, SMT
<1>2. /\ IsFiniteSet(Sources) /\ Cardinality(Sources) = Source
      /\ IsFiniteSet(FecUnits) /\ Cardinality(FecUnits) = Fec
  <2>1. /\ IsFiniteSet(0 .. Source - 1)
        /\ Cardinality(0 .. Source - 1) = IF 0 > Source - 1 THEN 0 ELSE (Source - 1) - 0 + 1
    BY <1>1, FS_Interval
  <2>2. /\ IsFiniteSet(Source .. Source + Fec - 1)
        /\ Cardinality(Source .. Source + Fec - 1)
             = IF Source > Source + Fec - 1 THEN 0 ELSE (Source + Fec - 1) - Source + 1
    BY <1>1, FS_Interval
  <2>3. /\ (IF 0 > Source - 1 THEN 0 ELSE (Source - 1) - 0 + 1) = Source
        /\ (IF Source > Source + Fec - 1 THEN 0 ELSE (Source + Fec - 1) - Source + 1) = Fec
    BY UnitsAssumption, SMT
  <2> QED
    BY <2>1, <2>2, <2>3 DEF Sources, FecUnits
<1>3. /\ Stored(fp, Sources) \in SUBSET Sources /\ Stored(fp, FecUnits) \in SUBSET FecUnits
  BY DEF Stored
<1>4. /\ IsFiniteSet(Stored(fp, Sources)) /\ Cardinality(Stored(fp, Sources)) <= Source
      /\ IsFiniteSet(Stored(fp, FecUnits)) /\ Cardinality(Stored(fp, FecUnits)) <= Fec
  BY <1>2, <1>3, FS_Subset
<1>5. Cardinality(Stored(fp, Sources)) \in Nat /\ Cardinality(Stored(fp, FecUnits)) \in Nat
  BY <1>4, FS_CardinalityType
<1> QED
  BY <1>1, <1>4, <1>5, SMT

\* Storing a unit and filling gaps keep the counts, and an empty frame has none.
LEMMA PutUnitCounts ==
  ASSUME NEW fp \in FrameProcessors, NEW frame \in Nat \ {0}, NEW unit \in Units, Counted(fp)
  PROVE  Counted(PutUnit(fp, frame, unit))
<1> DEFINE new == [slots          |-> [fp.slots EXCEPT ![unit] = frame],
                   sourceReceived |-> fp.sourceReceived + (IF unit < Source THEN 1 ELSE 0),
                   fecReceived    |-> fp.fecReceived + (IF unit < Source THEN 0 ELSE 1)]
<1>1. fp.slots \in [Slots -> Nat] /\ fp.sourceReceived \in Nat /\ fp.fecReceived \in Nat
  BY DEF FrameProcessors
<1>2. /\ unit \in Slots /\ unit \in Int /\ Source \in Int /\ Sources \subseteq Slots /\ FecUnits \subseteq Slots
      /\ unit < Source => unit \in Sources /\ unit \notin FecUnits
      /\ ~(unit < Source) => unit \in FecUnits /\ unit \notin Sources
  BY UnitFacts, UnitsAssumption, SMT DEF Units, Sources, FecUnits, Slots, FecExpected
<1>3. CASE fp.slots[unit] # None
  BY <1>3 DEF PutUnit
<1>4. CASE fp.slots[unit] = None
  <2>1. PutUnit(fp, frame, unit) = new
    BY <1>4 DEF PutUnit
  <2>2. frame # None
    BY DEF None
  <2>3. /\ \A i \in Slots : new.slots[i] = IF i = unit THEN frame ELSE fp.slots[i]
        /\ new.sourceReceived = fp.sourceReceived + (IF unit < Source THEN 1 ELSE 0)
        /\ new.fecReceived = fp.fecReceived + (IF unit < Source THEN 0 ELSE 1)
    BY <1>1
  <2> HIDE DEF new
  <2>4. /\ unit < Source => /\ Stored(new, Sources) = Stored(fp, Sources) \cup {unit}
                            /\ Stored(new, FecUnits) = Stored(fp, FecUnits)
        /\ ~(unit < Source) => /\ Stored(new, Sources) = Stored(fp, Sources)
                               /\ Stored(new, FecUnits) = Stored(fp, FecUnits) \cup {unit}
    <3>1. CASE unit < Source
      BY <1>2, <2>2, <2>3, <3>1, Zenon DEF Stored
    <3>2. CASE ~(unit < Source)
      BY <1>2, <2>2, <2>3, <3>2, Zenon DEF Stored
    <3> QED
      BY <3>1, <3>2
  <2>5. unit \notin Stored(fp, Sources) /\ unit \notin Stored(fp, FecUnits)
    BY <1>4 DEF Stored
  <2>6. /\ Cardinality(Stored(fp, Sources) \cup {unit}) = Cardinality(Stored(fp, Sources)) + 1
        /\ Cardinality(Stored(fp, FecUnits) \cup {unit}) = Cardinality(Stored(fp, FecUnits)) + 1
    BY <2>5, StoredFinite, FS_AddElement
  <2>7. /\ Cardinality(Stored(fp, Sources)) \in Int /\ Cardinality(Stored(fp, FecUnits)) \in Int
    BY StoredFinite, UnitFacts, UnitsAssumption, SMT
  <2>8. CASE unit < Source
    <3>1. new.sourceReceived = fp.sourceReceived + 1 /\ new.fecReceived = fp.fecReceived
      BY <1>1, <2>3, <2>8, SMT
    <3>2. fp.sourceReceived + 1 <= Cardinality(Stored(fp, Sources)) + 1
      BY <1>1, <2>7, SMT DEF Counted
    <3> QED
      BY <2>1, <2>4, <2>6, <2>8, <3>1, <3>2 DEF Counted
  <2>9. CASE ~(unit < Source)
    <3>1. new.fecReceived = fp.fecReceived + 1 /\ new.sourceReceived = fp.sourceReceived
      BY <1>1, <2>3, <2>9, SMT
    <3>2. fp.fecReceived + 1 <= Cardinality(Stored(fp, FecUnits)) + 1
      BY <1>1, <2>7, SMT DEF Counted
    <3> QED
      BY <2>1, <2>4, <2>6, <2>9, <3>1, <3>2 DEF Counted
  <2> QED
    BY <2>8, <2>9
<1> QED
  BY <1>3, <1>4

LEMMA FlushCounts ==
  ASSUME NEW fp \in FrameProcessors, Counted(fp), Flush(fp) \in FrameProcessors
  PROVE  Counted(Flush(fp))
<1>1. fp.slots \in [Slots -> Nat] /\ fp.sourceReceived \in Nat /\ fp.fecReceived \in Nat
  BY DEF FrameProcessors
<1>2. CASE FlushResult(fp) # "fec_success"
  BY <1>2 DEF Flush
<1>3. CASE FlushResult(fp) = "fec_success"
  <2> DEFINE g == Flush(fp)
             filled == [j \in Slots |-> IF j \in Sources /\ fp.slots[j] = None
                                        THEN CHOOSE f \in Contents(fp) : TRUE ELSE fp.slots[j]]
  <2>1. g = [fp EXCEPT !.slots = filled]
    BY <1>3 DEF Flush
  <2>2. \A j \in Slots : fp.slots[j] # None => filled[j] # None
    OBVIOUS
  <2> HIDE DEF filled, g
  <2>3. g.slots = filled /\ g.sourceReceived = fp.sourceReceived /\ g.fecReceived = fp.fecReceived
    BY <2>1 DEF FrameProcessors
  <2>4. Sources \subseteq Slots /\ FecUnits \subseteq Slots
    BY UnitFacts, UnitsAssumption, SMT DEF FecUnits, Slots, FecExpected
  <2>5. /\ Stored(fp, Sources) \in SUBSET Stored(g, Sources)
        /\ Stored(fp, FecUnits) \in SUBSET Stored(g, FecUnits)
    BY <2>2, <2>3, <2>4 DEF Stored
  <2>6. /\ Cardinality(Stored(fp, Sources)) <= Cardinality(Stored(g, Sources))
        /\ Cardinality(Stored(fp, FecUnits)) <= Cardinality(Stored(g, FecUnits))
    BY <2>5, StoredFinite, FS_Subset
  <2>7. /\ Cardinality(Stored(fp, Sources)) \in Int /\ Cardinality(Stored(fp, FecUnits)) \in Int
        /\ Cardinality(Stored(g, Sources)) \in Int /\ Cardinality(Stored(g, FecUnits)) \in Int
    <3>1. \A n \in Nat : \A k \in 0 .. n : k \in Int
      BY SMT
    <3> QED
      BY <3>1, StoredFinite, UnitFacts, UnitsAssumption
  <2>8. Counted(g)
    BY <1>1, <2>3, <2>6, <2>7, SMT DEF Counted
  <2> QED
    BY <2>8 DEF g
<1> QED
  BY <1>2, <1>3

-----------------------------------------------------------------------------
(* The parts of the handling of a packet                                    *)

\* The samples among what is sent.
Samples(o) == {o[i] : i \in {j \in DOMAIN o : o[j].type = "sample"}}

\* The receiver and what it has sent so far, while a packet is handled.
Handling(s) ==
  /\ s = [v |-> s.v, o |-> s.o]
  /\ s.v \in Receivers
  /\ \E S : s.o \in Seq(S)

\* Only a sample adds to the samples.
LEMMA AppendSamples ==
  ASSUME NEW S, NEW o \in Seq(S), NEW e
  PROVE  /\ Append(o, e) \in Seq(S \cup {e})
         /\ Samples(Append(o, e)) = IF e.type = "sample" THEN Samples(o) \cup {e} ELSE Samples(o)
<1>1. o \in Seq(S \cup {e}) /\ e \in S \cup {e}
  BY SeqMonotonic
<1>2. Append(o, e) \in Seq(S \cup {e})
  BY <1>1, SMT
<1>3. /\ DOMAIN o = 1 .. Len(o) /\ DOMAIN Append(o, e) = 1 .. Len(o) + 1 /\ Len(o) \in Nat
      /\ Append(o, e)[Len(o) + 1] = e
      /\ \A i \in 1 .. Len(o) : Append(o, e)[i] = o[i]
  BY <1>1, LenProperties, SMT
<1>4. DOMAIN Append(o, e) = DOMAIN o \cup {Len(o) + 1}
  BY <1>3, SMT
<1>5. \A i \in DOMAIN Append(o, e) : Append(o, e)[i] = IF i \in DOMAIN o THEN o[i] ELSE e
  BY <1>3, <1>4
<1>6. Len(o) + 1 \notin DOMAIN o
  BY <1>3, SMT
<1>7. Samples(Append(o, e)) = IF e.type = "sample" THEN Samples(o) \cup {e} ELSE Samples(o)
  BY <1>4, <1>5, <1>6, Zenon DEF Samples
<1> QED
  BY <1>2, <1>7

\* A reference is added to a list of references.
LEMMA AddRefFrameType ==
  ASSUME NEW refs \in Seq(SeqNums), NEW index \in SeqNums
  PROVE  /\ AddRefFrame(refs, index) \in Seq(SeqNums)
         /\ Len(refs) <= MaxRefs => Len(AddRefFrame(refs, index)) <= MaxRefs
<1>1. <<index>> \in Seq(SeqNums) /\ Len(<<index>>) = 1
  BY SMT
<1>2. CASE Len(refs) < MaxRefs
  <2>1. <<index>> \o refs \in Seq(SeqNums) /\ Len(<<index>> \o refs) = 1 + Len(refs)
    BY <1>1, ConcatProperties
  <2>2. Len(refs) \in Nat
    BY LenProperties
  <2>3. 1 + Len(refs) <= MaxRefs
    BY <1>2, <2>2, StreamAssumption, SMT
  <2> QED
    BY <1>2, <2>1, <2>3 DEF AddRefFrame
<1>3. CASE ~(Len(refs) < MaxRefs)
  <2> DEFINE rest == SubSeq(refs, 1, MaxRefs - 1)
  <2>1. \A i \in 1 .. MaxRefs - 1 : refs[i] \in SeqNums
    BY <1>3, StreamAssumption, LenProperties, SMT
  <2>2. MaxRefs - 1 \in Int /\ 1 \in Int
    BY StreamAssumption, SMT
  <2>3. rest \in Seq(SeqNums) /\ Len(rest) = IF 1 <= MaxRefs - 1 THEN (MaxRefs - 1) - 1 + 1 ELSE 0
    BY <2>1, <2>2, SubSeqProperties
  <2> HIDE DEF rest
  <2>4. <<index>> \o rest \in Seq(SeqNums) /\ Len(<<index>> \o rest) = 1 + Len(rest)
    BY <1>1, <2>3, ConcatProperties
  <2>5. 1 + Len(rest) <= MaxRefs
    BY <2>3, StreamAssumption, SMT
  <2>6. AddRefFrame(refs, index) = <<index>> \o rest
    BY <1>3 DEF AddRefFrame, rest
  <2> QED
    BY <2>4, <2>5, <2>6
<1> QED
  BY <1>2, <1>3

\* A receiver whose current frame is flushed.
FlushedTo(v, complete, refs, lost) ==
  [frame_index_cur |-> v.frame_index_cur, frame_index_prev |-> v.frame_index_cur,
   frame_index_prev_complete |-> complete, profile_cur |-> v.profile_cur,
   frame_processor |-> v.frame_processor, reference_frames |-> refs, frames_lost |-> lost]

LEMMA FlushedToType ==
  ASSUME NEW v \in Receivers, NEW lost \in Int, NEW complete \in SeqNums, NEW refs \in Seq(SeqNums),
         NEW w, w = FlushedTo(v, complete, refs, lost)
  PROVE  /\ w \in Receivers /\ w.frame_index_prev = v.frame_index_cur
         /\ w.frame_index_cur = v.frame_index_cur /\ w.profile_cur = v.profile_cur
         /\ w.frame_processor = v.frame_processor /\ w.reference_frames = refs
<1>1. /\ v.frame_index_cur \in -1 .. M - 1 /\ v.profile_cur \in -1 .. 1
      /\ v.frame_processor \in FrameProcessors
  BY DEF Receivers
<1> QED
  BY <1>1 DEF FlushedTo, Receivers

\* A flush ends the frame. A sample of it consists of what the frame processor
\* returns and has the current profile.
LEMMA FlushFrameEffect ==
  ASSUME NEW s, Handling(s), NEW dec \in Decodings,
         s.v.frame_index_cur # -1, Flush(s.v.frame_processor) \in FrameProcessors
  PROVE  LET t == FlushFrame(s, dec)
             fp == Flush(s.v.frame_processor)
         IN  /\ Handling(t)
             /\ t.v.frame_index_cur = s.v.frame_index_cur
             /\ t.v.frame_index_prev = s.v.frame_index_cur
             /\ t.v.profile_cur = s.v.profile_cur
             /\ t.v.frame_processor = fp
             /\ FlushResult(s.v.frame_processor) = "fec_failed" => Samples(t.o) = Samples(s.o)
             /\ \A e \in Samples(t.o) \ Samples(s.o) :
                  e.units = Contents(fp) /\ e.profile = s.v.profile_cur
             /\ Sized(s.v) => Sized(t.v)
<1> DEFINE fp == Flush(s.v.frame_processor)
           f == [s EXCEPT !.v.frame_processor = Flush(@)]
<1>1. PICK S : s.o \in Seq(S)
  BY DEF Handling
<1>2. /\ s.v.frame_index_cur \in SeqNums /\ s.v.frame_index_prev_complete \in SeqNums
      /\ s.v.reference_frames \in Seq(SeqNums) /\ s.v.frames_lost \in Int
      /\ s.v.profile_cur \in -1 .. 1
  BY SMT DEF Handling, Receivers, SeqNums
<1>3. f = [v |-> f.v, o |-> s.o] /\ f.o = s.o
  BY DEF Handling
<1>4. f.v = [s.v EXCEPT !.frame_processor = fp]
  BY DEF Handling
<1>5. /\ f.v \in Receivers /\ f.v.frame_processor = fp
      /\ f.v.frame_index_cur = s.v.frame_index_cur /\ f.v.profile_cur = s.v.profile_cur
      /\ f.v.frame_index_prev_complete = s.v.frame_index_prev_complete
      /\ f.v.reference_frames = s.v.reference_frames /\ f.v.frames_lost = s.v.frames_lost
  BY <1>4 DEF Handling, Receivers
<1>6. Sized(s.v) => Counted(fp) /\ Len(s.v.reference_frames) <= MaxRefs
  <2>1. s.v.frame_processor \in FrameProcessors
    BY DEF Handling, Receivers
  <2> QED
    BY <2>1, FlushCounts DEF Sized
<1> HIDE DEF f, fp
<1>7. CASE FlushResult(s.v.frame_processor) = "fec_failed"
  <2> DEFINE t == FecFailed(f)
             e == Corrupt(NextExpected(f.v), f.v.frame_index_cur)
             lost == f.v.frames_lost + f.v.frame_index_cur - NextExpected(f.v) + 1
  <2>1. FlushFrame(s, dec) = t
    BY <1>7 DEF FlushFrame, f
  <2>2. t.v = [f.v EXCEPT !.frames_lost = lost, !.frame_index_prev = f.v.frame_index_cur,
                          !.frame_index_prev_complete = f.v.frame_index_cur]
    BY <1>3, <1>5 DEF FecFailed
  <2>3. t.o = Append(s.o, e) /\ t = [v |-> t.v, o |-> t.o]
    BY <1>3, <1>5 DEF FecFailed
  <2>4. lost \in Int
    <3>1. NextExpected(f.v) \in Int
      BY <1>2, <1>5, ModulusAssumption, SMT DEF NextExpected, Add, SeqNums
    <3> QED
      BY <1>2, <1>5, <3>1, SMT DEF SeqNums
  <2>5. e.type # "sample"
    BY DEF Corrupt
  <2> HIDE DEF t, e, lost
  <2>6. t.v = FlushedTo(f.v, f.v.frame_index_cur, f.v.reference_frames, lost)
    BY <1>5, <2>2 DEF FlushedTo, Receivers
  <2>7. /\ t.v \in Receivers /\ t.v.frame_processor = fp
        /\ t.v.frame_index_cur = s.v.frame_index_cur /\ t.v.frame_index_prev = s.v.frame_index_cur
        /\ t.v.profile_cur = s.v.profile_cur /\ t.v.reference_frames = s.v.reference_frames
    <3>1. f.v.frame_index_cur \in SeqNums /\ f.v.reference_frames \in Seq(SeqNums) /\ f.v \in Receivers
      BY <1>2, <1>5
    <3>2. /\ t.v \in Receivers /\ t.v.frame_processor = f.v.frame_processor
          /\ t.v.frame_index_cur = f.v.frame_index_cur /\ t.v.frame_index_prev = f.v.frame_index_cur
          /\ t.v.profile_cur = f.v.profile_cur /\ t.v.reference_frames = f.v.reference_frames
      BY <2>4, <2>6, <3>1, FlushedToType
    <3> QED
      BY <1>5, <3>2
  <2>8. t.o \in Seq(S \cup {e}) /\ Samples(t.o) = Samples(s.o)
    BY <1>1, <2>5, <2>3, AppendSamples
  <2>9. Handling(t) /\ (Sized(s.v) => Sized(t.v))
    BY <1>6, <2>7, <2>8, <2>3 DEF Handling, Sized
  <2> QED
    BY <2>1, <2>7, <2>8, <2>9 DEF fp
<1>8. CASE FlushResult(s.v.frame_processor) # "fec_failed" /\ Reference(s.v, dec) = MaxRefs
  <2> DEFINE t == ReferenceMissing(f)
             e == [type |-> "dropped"]
             lost == f.v.frames_lost + 1
  <2>1. FlushFrame(s, dec) = t
    BY <1>8 DEF FlushFrame, f
  <2>2. t.v = [f.v EXCEPT !.frames_lost = lost, !.frame_index_prev = f.v.frame_index_cur,
                          !.frame_index_prev_complete = f.v.frame_index_cur]
    BY <1>3, <1>5 DEF ReferenceMissing
  <2>3. t.o = Append(s.o, e) /\ t = [v |-> t.v, o |-> t.o]
    BY <1>3, <1>5 DEF ReferenceMissing
  <2>4. lost \in Int
    BY <1>2, <1>5, SMT
  <2>5. e.type # "sample"
    OBVIOUS
  <2> HIDE DEF t, e, lost
  <2>6. t.v = FlushedTo(f.v, f.v.frame_index_cur, f.v.reference_frames, lost)
    BY <1>5, <2>2 DEF FlushedTo, Receivers
  <2>7. /\ t.v \in Receivers /\ t.v.frame_processor = fp
        /\ t.v.frame_index_cur = s.v.frame_index_cur /\ t.v.frame_index_prev = s.v.frame_index_cur
        /\ t.v.profile_cur = s.v.profile_cur /\ t.v.reference_frames = s.v.reference_frames
    <3>1. f.v.frame_index_cur \in SeqNums /\ f.v.reference_frames \in Seq(SeqNums) /\ f.v \in Receivers
      BY <1>2, <1>5
    <3>2. /\ t.v \in Receivers /\ t.v.frame_processor = f.v.frame_processor
          /\ t.v.frame_index_cur = f.v.frame_index_cur /\ t.v.frame_index_prev = f.v.frame_index_cur
          /\ t.v.profile_cur = f.v.profile_cur /\ t.v.reference_frames = f.v.reference_frames
      BY <2>4, <2>6, <3>1, FlushedToType
    <3> QED
      BY <1>5, <3>2
  <2>8. t.o \in Seq(S \cup {e}) /\ Samples(t.o) = Samples(s.o)
    BY <1>1, <2>5, <2>3, AppendSamples
  <2>9. Handling(t) /\ (Sized(s.v) => Sized(t.v))
    BY <1>6, <2>7, <2>8, <2>3 DEF Handling, Sized
  <2> QED
    BY <2>1, <2>7, <2>8, <2>9 DEF fp
<1>9. CASE FlushResult(s.v.frame_processor) # "fec_failed" /\ Reference(s.v, dec) # MaxRefs
  <2> DEFINE t == Sample(f, dec)
             e == [type |-> "sample", units |-> Contents(f.v.frame_processor),
                   profile |-> f.v.profile_cur, lost |-> f.v.frames_lost,
                   ref |-> Reference(f.v, dec), taken |-> dec.taken]
             complete == IF dec.taken THEN f.v.frame_index_cur ELSE f.v.frame_index_prev_complete
             refs == IF dec.taken THEN AddRefFrame(f.v.reference_frames, f.v.frame_index_cur)
                     ELSE f.v.reference_frames
             lost == 0
  <2>1. FlushFrame(s, dec) = t
    BY <1>9 DEF FlushFrame, f
  <2>2. t.v = [f.v EXCEPT !.frames_lost = lost, !.frame_index_prev = f.v.frame_index_cur,
                          !.frame_index_prev_complete = complete, !.reference_frames = refs]
    BY <1>3, <1>5 DEF Sample
  <2>3. t.o = Append(s.o, e) /\ t = [v |-> t.v, o |-> t.o]
    BY <1>3, <1>5 DEF Sample
  <2>4. /\ complete \in SeqNums /\ refs \in Seq(SeqNums) /\ lost \in Int
        /\ Len(s.v.reference_frames) <= MaxRefs => Len(refs) <= MaxRefs
    <3>1. f.v.reference_frames \in Seq(SeqNums) /\ f.v.frame_index_cur \in SeqNums
      BY <1>2, <1>5
    <3> DEFINE old == f.v.reference_frames
               index == f.v.frame_index_cur
    <3>2. old = s.v.reference_frames
      BY <1>5
    <3>3. refs = IF dec.taken THEN AddRefFrame(old, index) ELSE old
      OBVIOUS
    <3>4. old \in Seq(SeqNums) /\ index \in SeqNums
      BY <3>1
    <3>5. complete \in SeqNums /\ lost \in Int
      BY <1>2, <1>5
    <3> HIDE DEF old, index, refs, complete, lost
    <3>6. /\ AddRefFrame(old, index) \in Seq(SeqNums)
          /\ Len(old) <= MaxRefs => Len(AddRefFrame(old, index)) <= MaxRefs
      BY <3>4, AddRefFrameType
    <3> QED
      BY <3>2, <3>3, <3>4, <3>5, <3>6
  <2>5. e.type = "sample"
    OBVIOUS
  <2>6. e.units = Contents(fp) /\ e.profile = s.v.profile_cur
    BY <1>5
  <2> HIDE DEF t, e, complete, refs, lost
  <2>7. t.v = FlushedTo(f.v, complete, refs, lost)
    BY <1>5, <2>2 DEF FlushedTo, Receivers
  <2>8. /\ t.v \in Receivers /\ t.v.frame_processor = fp
        /\ t.v.frame_index_cur = s.v.frame_index_cur /\ t.v.frame_index_prev = s.v.frame_index_cur
        /\ t.v.profile_cur = s.v.profile_cur /\ t.v.reference_frames = refs
    <3>1. f.v.frame_index_cur \in SeqNums /\ f.v.reference_frames \in Seq(SeqNums) /\ f.v \in Receivers
      BY <1>2, <1>5
    <3>2. /\ t.v \in Receivers /\ t.v.frame_processor = f.v.frame_processor
          /\ t.v.frame_index_cur = f.v.frame_index_cur /\ t.v.frame_index_prev = f.v.frame_index_cur
          /\ t.v.profile_cur = f.v.profile_cur /\ t.v.reference_frames = refs
      <4>1. complete \in SeqNums /\ refs \in Seq(SeqNums) /\ lost \in Int
        BY <2>4
      <4> DEFINE v == f.v
      <4>2. t.v = FlushedTo(v, complete, refs, lost) /\ v \in Receivers
        BY <2>7, <3>1
      <4> DEFINE w == t.v
      <4> HIDE DEF v, w
      <4>3. /\ w \in Receivers /\ w.frame_processor = v.frame_processor
            /\ w.frame_index_cur = v.frame_index_cur /\ w.frame_index_prev = v.frame_index_cur
            /\ w.profile_cur = v.profile_cur /\ w.reference_frames = refs
        BY <4>1, <4>2, FlushedToType DEF w
      <4> QED
        BY <4>3 DEF v, w
    <3> QED
      BY <1>5, <3>2
  <2>9. t.o \in Seq(S \cup {e}) /\ Samples(t.o) = Samples(s.o) \cup {e}
    <3>1. /\ Append(s.o, e) \in Seq(S \cup {e})
          /\ Samples(Append(s.o, e)) = IF e.type = "sample" THEN Samples(s.o) \cup {e} ELSE Samples(s.o)
      BY <1>1, AppendSamples
    <3> QED
      BY <2>3, <2>5, <3>1
  <2>10. Handling(t) /\ (Sized(s.v) => Sized(t.v))
    BY <1>6, <2>4, <2>8, <2>9, <2>3 DEF Handling, Sized
  <2> QED
    BY <1>9, <2>1, <2>8, <2>9, <2>10, <2>6 DEF fp
<1> QED
  BY <1>7, <1>8, <1>9

\* The switch to the profile of a packet sends a header at most.
LEMMA SwitchProfileEffect ==
  ASSUME NEW s, Handling(s), NEW profile \in 0 .. 1
  PROVE  LET t == SwitchProfile(s, profile)
         IN  /\ Handling(t)
             /\ t.v.frame_index_cur = s.v.frame_index_cur
             /\ t.v.frame_index_prev = s.v.frame_index_prev
             /\ t.v.frame_processor = s.v.frame_processor
             /\ t.v.profile_cur = profile
             /\ Samples(t.o) = Samples(s.o)
             /\ Sized(s.v) => Sized(t.v)
<1>1. CASE s.v.profile_cur = profile
  BY <1>1 DEF SwitchProfile
<1>2. CASE s.v.profile_cur # profile
  <2> DEFINE t == SwitchProfile(s, profile)
             e == [type |-> "header", profile |-> profile]
  <2>1. PICK S : s.o \in Seq(S)
    BY DEF Handling
  <2>2. t.v = [s.v EXCEPT !.profile_cur = profile]
    BY <1>2 DEF SwitchProfile
  <2>3. t.o = Append(s.o, e) /\ t = [v |-> t.v, o |-> t.o]
    BY <1>2 DEF SwitchProfile
  <2>4. e.type # "sample"
    OBVIOUS
  <2> HIDE DEF t, e
  <2>5. profile \in -1 .. 1
    BY SMT
  <2>6. /\ t.v \in Receivers /\ t.v.frame_index_cur = s.v.frame_index_cur
        /\ t.v.frame_index_prev = s.v.frame_index_prev
        /\ t.v.frame_processor = s.v.frame_processor /\ t.v.profile_cur = profile
        /\ t.v.reference_frames = s.v.reference_frames
    BY <2>2, <2>5 DEF Handling, Receivers
  <2>7. t.o \in Seq(S \cup {e}) /\ Samples(t.o) = Samples(s.o)
    BY <2>1, <2>3, <2>4, AppendSamples
  <2>8. Handling(t) /\ (Sized(s.v) => Sized(t.v))
    BY <2>3, <2>6, <2>7 DEF Handling, Sized
  <2> QED
    BY <2>6, <2>7, <2>8 DEF t
<1> QED
  BY <1>1, <1>2

\* A gap is reported to the console and changes nothing else.
LEMMA ReportGapEffect ==
  ASSUME NEW s, Handling(s), NEW index
  PROVE  LET t == ReportGap(s, index)
         IN  Handling(t) /\ t.v = s.v /\ Samples(t.o) = Samples(s.o)
<1> DEFINE t == ReportGap(s, index)
           e == Corrupt(NextExpected(s.v), Add(index, -1))
<1>1. PICK S : s.o \in Seq(S)
  BY DEF Handling
<1>2. CASE t = s
  BY <1>2
<1>3. CASE t = [s EXCEPT !.o = Append(@, e)]
  <2>1. t.v = s.v /\ t.o = Append(s.o, e) /\ t = [v |-> t.v, o |-> t.o]
    BY <1>3 DEF Handling
  <2>2. e.type # "sample"
    BY DEF Corrupt
  <2> HIDE DEF t, e
  <2>3. t.o \in Seq(S \cup {e}) /\ Samples(t.o) = Samples(s.o)
    BY <1>1, <2>1, <2>2, AppendSamples
  <2>4. Handling(t)
    BY <2>1, <2>3 DEF Handling
  <2> QED
    BY <2>1, <2>3, <2>4 DEF t
<1>4. t = s \/ t = [s EXCEPT !.o = Append(@, e)]
  BY DEF ReportGap
<1> QED
  BY <1>2, <1>3, <1>4

\* When a frame gives way to the next one it is flushed, if it was not before, and
\* then it has too few units for a sample.
LEMMA NextFrameEffect ==
  ASSUME NEW s, Handling(s), NEW index \in SeqNums, NEW dec \in Decodings,
         s.v.frame_index_cur < 0 \/ Gt(index, s.v.frame_index_cur),
         s.v.frame_index_cur < 0 => s.v.frame_index_prev = s.v.frame_index_cur,
         s.v.frame_index_prev # s.v.frame_index_cur => UnitsReceived(s.v.frame_processor) < Source
  PROVE  LET t == NextFrame(s, index, dec)
         IN  /\ Handling(t)
             /\ t.v.frame_index_cur = index
             /\ t.v.frame_index_prev = s.v.frame_index_cur
             /\ t.v.profile_cur = s.v.profile_cur
             /\ t.v.frame_processor = EmptyFrame
             /\ Samples(t.o) = Samples(s.o)
             /\ Sized(s.v) => Sized(t.v)
<1> DEFINE f == FlushLast(s, dec)
           g == ReportGap(f, index)
           t == NextFrame(s, index, dec)
<1>1. /\ s.v.frame_processor \in FrameProcessors /\ s.v.frame_index_cur \in -1 .. M - 1
      /\ M \in Nat /\ index \in -1 .. M - 1
  BY ModulusAssumption, SMT DEF Handling, Receivers, SeqNums
<1>2. /\ Handling(f) /\ f.v.frame_index_prev = s.v.frame_index_cur /\ (Sized(s.v) => Sized(f.v))
      /\ f.v.profile_cur = s.v.profile_cur /\ Samples(f.o) = Samples(s.o)
  <2>1. CASE s.v.frame_index_cur >= 0 /\ s.v.frame_index_prev # s.v.frame_index_cur
    <3>1. f = FlushFrame(s, dec)
      BY <2>1 DEF FlushLast
    <3>2. s.v.frame_index_cur # -1
      BY <1>1, <2>1, SMT
    <3>3. /\ FlushResult(s.v.frame_processor) = "fec_failed"
          /\ Flush(s.v.frame_processor) \in FrameProcessors
      BY <1>1, <2>1, TooFewUnits
    <3> HIDE DEF f
    <3> QED
      BY <3>1, <3>2, <3>3, FlushFrameEffect
  <2>2. CASE ~(s.v.frame_index_cur >= 0 /\ s.v.frame_index_prev # s.v.frame_index_cur)
    <3>1. f = s
      BY <2>2 DEF FlushLast
    <3>2. s.v.frame_index_prev = s.v.frame_index_cur
      BY <1>1, <2>2, SMT
    <3> QED
      BY <3>1, <3>2
  <2> QED
    BY <2>1, <2>2
<1> HIDE DEF f
<1>3. Handling(g) /\ g.v = f.v /\ Samples(g.o) = Samples(f.o)
  BY <1>2, ReportGapEffect
<1>4. t = [g EXCEPT !.v.frame_index_cur = index, !.v.frame_processor = AllocFrame(@)]
  BY DEF NextFrame, f
<1> HIDE DEF g, t
<1>5. g = [v |-> g.v, o |-> g.o] /\ g.v \in Receivers
  BY <1>3 DEF Handling
<1>6. /\ t = [v |-> t.v, o |-> g.o] /\ t.o = g.o
      /\ t.v = [g.v EXCEPT !.frame_index_cur = index, !.frame_processor = EmptyFrame]
  BY <1>4, <1>5 DEF AllocFrame, Receivers
<1>7. EmptyFrame \in FrameProcessors
  BY EmptyFrameHolds
<1>8. /\ t.v \in Receivers /\ t.v.frame_index_cur = index /\ t.v.frame_processor = EmptyFrame
      /\ t.v.frame_index_prev = g.v.frame_index_prev /\ t.v.profile_cur = g.v.profile_cur
      /\ t.v.reference_frames = g.v.reference_frames
  BY <1>1, <1>5, <1>6, <1>7 DEF Receivers
<1>9. Handling(t) /\ Samples(t.o) = Samples(g.o)
  BY <1>3, <1>6, <1>8 DEF Handling
<1>10. Counted(EmptyFrame)
  <2>1. \A n \in Nat : \A k \in 0 .. n : 0 <= k
    BY SMT
  <2>2. EmptyFrame.sourceReceived = 0 /\ EmptyFrame.fecReceived = 0
    BY EmptyFrameHolds
  <2>3. Source \in Nat /\ Fec \in Nat
    BY UnitsAssumption
  <2> QED
    BY <2>1, <2>2, <2>3, StoredFinite DEF Counted
<1>11. Sized(s.v) => Sized(t.v)
  BY <1>2, <1>3, <1>8, <1>10 DEF Sized
<1> QED
  BY <1>2, <1>3, <1>8, <1>9, <1>11 DEF t

\* A unit is put into the frame, and nothing else happens.
LEMMA StoreUnitEffect ==
  ASSUME NEW s, Handling(s), NEW frame \in Nat \ {0}, NEW unit \in Units,
         HoldsOnly(s.v.frame_processor, frame)
  PROVE  LET t == StoreUnit(s, frame, unit)
         IN  /\ Handling(t) /\ t.o = s.o
             /\ t.v.frame_index_cur = s.v.frame_index_cur
             /\ t.v.frame_index_prev = s.v.frame_index_prev
             /\ t.v.frame_index_prev_complete = s.v.frame_index_prev_complete
             /\ t.v.profile_cur = s.v.profile_cur
             /\ HoldsOnly(t.v.frame_processor, frame)
             /\ Sized(s.v) => Sized(t.v)
<1> DEFINE t == StoreUnit(s, frame, unit)
           fp == PutUnit(s.v.frame_processor, frame, unit)
<1>1. s = [v |-> s.v, o |-> s.o] /\ s.v \in Receivers /\ s.v.frame_processor \in FrameProcessors
  BY DEF Handling, Receivers
<1>2. /\ fp \in FrameProcessors /\ HoldsOnly(fp, frame)
      /\ Counted(s.v.frame_processor) => Counted(fp)
  BY <1>1, PutUnitHolds, PutUnitCounts
<1>3. /\ t = [v |-> t.v, o |-> s.o] /\ t.o = s.o
      /\ t.v = [s.v EXCEPT !.frame_processor = fp]
  BY <1>1 DEF StoreUnit
<1> HIDE DEF t, fp
<1>4. /\ t.v \in Receivers /\ t.v.frame_processor = fp
      /\ t.v.frame_index_cur = s.v.frame_index_cur
      /\ t.v.frame_index_prev = s.v.frame_index_prev /\ t.v.profile_cur = s.v.profile_cur
      /\ t.v.frame_index_prev_complete = s.v.frame_index_prev_complete
      /\ t.v.reference_frames = s.v.reference_frames
  BY <1>1, <1>2, <1>3 DEF Receivers
<1>5. Handling(t) /\ (Sized(s.v) => Sized(t.v))
  BY <1>2, <1>3, <1>4 DEF Handling, Sized
<1> QED
  BY <1>2, <1>3, <1>4, <1>5 DEF t

\* A frame that has units enough is flushed once: all its units are its own.
LEMMA FlushIfPossibleEffect ==
  ASSUME NEW s, Handling(s), NEW frame \in Nat \ {0}, NEW dec \in Decodings,
         s.v.frame_index_cur # -1, HoldsOnly(s.v.frame_processor, frame), Samples(s.o) = {}
  PROVE  LET t == FlushIfPossible(s, dec)
         IN  /\ Handling(t)
             /\ t.v.frame_index_cur = s.v.frame_index_cur
             /\ t.v.frame_index_prev \in {s.v.frame_index_prev, s.v.frame_index_cur}
             /\ HoldsOnly(t.v.frame_processor, frame)
             /\ t.v.frame_index_prev # t.v.frame_index_cur => UnitsReceived(t.v.frame_processor) < Source
             /\ \A e \in Samples(t.o) : e.units = {frame} /\ e.profile = s.v.profile_cur
             /\ Samples(t.o) # {} => /\ s.v.frame_index_prev # s.v.frame_index_cur
                                     /\ t.v.frame_index_prev = t.v.frame_index_cur
             /\ Sized(s.v) => Sized(t.v)
<1> DEFINE t == FlushIfPossible(s, dec)
           fp == s.v.frame_processor
<1>1. fp \in FrameProcessors
  BY DEF Handling, Receivers
<1>2. CASE s.v.frame_index_cur # s.v.frame_index_prev /\ FlushPossible(fp)
  <2>1. t = FlushFrame(s, dec)
    BY <1>2 DEF FlushIfPossible
  <2>2. /\ Flush(fp) \in FrameProcessors /\ HoldsOnly(Flush(fp), frame)
        /\ Contents(Flush(fp)) = {frame}
    BY <1>1, <1>2, FlushHolds
  <2> HIDE DEF t
  <2>3. /\ Handling(t) /\ t.v.frame_index_cur = s.v.frame_index_cur
        /\ t.v.frame_index_prev = s.v.frame_index_cur
        /\ t.v.frame_processor = Flush(fp)
        /\ \A e \in Samples(t.o) \ Samples(s.o) :
             e.units = Contents(Flush(fp)) /\ e.profile = s.v.profile_cur
        /\ Sized(s.v) => Sized(t.v)
    BY <2>1, <2>2, FlushFrameEffect
  <2>4. \A e \in Samples(t.o) : e.units = {frame} /\ e.profile = s.v.profile_cur
    BY <2>2, <2>3
  <2> QED
    BY <1>2, <2>2, <2>3, <2>4 DEF t
<1>3. CASE ~(s.v.frame_index_cur # s.v.frame_index_prev /\ FlushPossible(fp))
  <2>1. t = s
    BY <1>3 DEF FlushIfPossible
  <2>2. s.v.frame_index_prev # s.v.frame_index_cur => UnitsReceived(fp) < Source
    <3>1. fp.sourceReceived \in Nat /\ fp.fecReceived \in Nat
      BY <1>1 DEF FrameProcessors
    <3> QED
      BY <1>3, <3>1, UnitFacts, SMT DEF FlushPossible, UnitsReceived
  <2> QED
    BY <2>1, <2>2
<1> QED
  BY <1>2, <1>3

-----------------------------------------------------------------------------
(* What becomes of each frame                                               *)

\* An index stands for the frame it was made from, if that is not a circle back.
LEMMA FrameOfIndex ==
  ASSUME NEW n \in Nat, NEW f \in Nat, f <= n, n - f < M
  PROVE  Dist(Index(f), Index(n)) = n - f /\ FrameOf(Index(f), n) = f
<1> DEFINE d == n - f
<1>1. d \in 0 .. M - 1 /\ d \in 0 .. M /\ 0 \in 0 .. M - 1 /\ 0 \in 0 .. M /\ n = f + d /\ f = f + 0
      /\ d >= 0 /\ d - 0 = d /\ n - d = f
  BY ModulusAssumption, SMT
<1> HIDE DEF d
<1>2. Index(f) \in SeqNums /\ Index(n) = Add(Index(f), d) /\ Index(f) = Add(Index(f), 0)
  BY <1>1, IndexAdds
<1>3. Dist(Add(Index(f), 0), Add(Index(f), d)) = IF 0 <= d THEN d - 0 ELSE (d - 0) + M
  BY <1>1, <1>2, OffsetDist
<1>4. Dist(Index(f), Index(n)) = d
  BY <1>1, <1>2, <1>3
<1> QED
  BY <1>1, <1>4 DEF FrameOf, d

\* The number before that of the next frame.
LEMMA IndexBefore ==
  ASSUME NEW f \in Nat
  PROVE  Index(f + 1) \in SeqNums /\ Add(Index(f), 1) = Index(f + 1) /\ Add(Index(f + 1), -1) = Index(f)
<1>1. 1 \in 0 .. M /\ f + 1 \in Nat /\ M \in Nat /\ M > 2 /\ 0 \in 0 .. M
  BY ModulusAssumption, SMT
<1>2. Index(f) \in SeqNums /\ Index(f + 1) = Add(Index(f), 1) /\ Index(f + 1) \in SeqNums
  BY <1>1, IndexAdds
<1>3. Add(Index(f), 1) = IF Index(f) + 1 < M THEN Index(f) + 1 ELSE (Index(f) + 1) - M
  BY <1>1, <1>2, AddWraps
<1>4. (Index(f + 1) + (-1)) % M = Index(f)
  <2>1. CASE Index(f) + 1 < M
    BY <1>1, <1>2, <1>3, <2>1, SMT DEF SeqNums
  <2>2. CASE ~(Index(f) + 1 < M)
    BY <1>1, <1>2, <1>3, <2>2, SMT DEF SeqNums
  <2> QED
    BY <2>1, <2>2
<1> QED
  BY <1>2, <1>4 DEF Add

\* A report accounts for the frames it names, if there is no gap before them.
LEMMA CorruptAccounts ==
  ASSUME NEW n \in Nat, NEW upTo \in Nat, NEW a \in Nat, NEW b \in Nat,
         a <= b, b <= n, n - a < M, a <= upTo + 1
  PROVE  Accounts(n, upTo, Corrupt(Index(a), Index(b))) = IF upTo >= b THEN upTo ELSE b
<1> DEFINE e == Corrupt(Index(a), Index(b))
<1>1. e.type = "corrupt" /\ e.from = Index(a) /\ e.to = Index(b)
  BY DEF Corrupt
<1> HIDE DEF e
<1>2. a <= n /\ n - b < M
  BY ModulusAssumption, SMT
<1>3. FrameOf(Index(a), n) = a /\ FrameOf(Index(b), n) = b
  BY <1>2, FrameOfIndex
<1>4. Accounts(n, upTo, e) = IF FrameOf(e.from, n) <= upTo + 1 THEN Max({upTo, FrameOf(e.to, n)}) ELSE upTo
  BY <1>1 DEF Accounts
<1>5. Max({upTo, b}) = IF upTo >= b THEN upTo ELSE b
  BY MaxOfTwo
<1> QED
  BY <1>1, <1>3, <1>4, <1>5 DEF e

\* Neither a header nor a sample that is not taken accounts for anything, and
\* a frame that is taken or dropped only for itself.
LEMMA OtherAccounts ==
  ASSUME NEW n \in Nat, NEW upTo \in Nat, upTo <= n, n <= upTo + 1, NEW e
  PROVE  /\ e.type = "header" => Accounts(n, upTo, e) = upTo
         /\ e.type = "sample" /\ ~e.taken => Accounts(n, upTo, e) = upTo
         /\ e.type = "dropped" \/ (e.type = "sample" /\ e.taken) => Accounts(n, upTo, e) = n
<1>1. Max({upTo, n}) = n /\ upTo >= n - 1
  <2>1. Max({upTo, n}) = IF upTo >= n THEN upTo ELSE n
    BY MaxOfTwo
  <2> QED
    BY <2>1, SMT
<1> QED
  BY <1>1 DEF Accounts

\* One more event is accounted for after those before it.
LEMMA AppendAccountsAt ==
  ASSUME NEW n, NEW u, NEW S, NEW o \in Seq(S), NEW e, NEW i \in Nat \ {0}
  PROVE  /\ i <= Len(o) => AccountsAt(i, n, u, Append(o, e)) = AccountsAt(i, n, u, o)
         /\ i = Len(o) + 1 => AccountsAt(i, n, u, Append(o, e)) = Accounts(n, u, e)
         /\ i > Len(o) => AccountsAt(i, n, u, o) = u
         /\ i > Len(o) + 1 => AccountsAt(i, n, u, Append(o, e)) = u
<1> DEFINE p == Append(o, e)
<1>1. o \in Seq(S \cup {e}) /\ e \in S \cup {e}
  BY SeqMonotonic
<1>2. /\ Len(o) \in Nat /\ DOMAIN o = 1 .. Len(o) /\ DOMAIN p = 1 .. Len(o) + 1
      /\ p[Len(o) + 1] = e
      /\ \A j \in 1 .. Len(o) : p[j] = o[j]
  BY <1>1, LenProperties, SMT
<1> HIDE DEF p
<1>3. /\ i \in DOMAIN o <=> i <= Len(o)
      /\ i \in DOMAIN p <=> i <= Len(o) + 1
      /\ i <= Len(o) => i <= Len(o) + 1
      /\ i > Len(o) => ~(i <= Len(o))
      /\ i > Len(o) + 1 => ~(i <= Len(o) + 1)
      /\ i = Len(o) + 1 => i <= Len(o) + 1
  BY <1>2, SMT
<1>4. i <= Len(o) => p[i] = o[i]
  BY <1>2, <1>3
<1> QED
  BY <1>2, <1>3, <1>4 DEF AccountsAt, p

\* Events are accounted for in the order in which they are sent.
LEMMA AppendAccounts ==
  ASSUME NEW n, NEW upTo, NEW S, NEW o \in Seq(S), Len(o) < 4, NEW e
  PROVE  /\ AccountsAll(n, upTo, Append(o, e)) = Accounts(n, AccountsAll(n, upTo, o), e)
         /\ Len(Append(o, e)) = Len(o) + 1 /\ Len(o) \in Nat
<1> DEFINE p == Append(o, e)
           a1 == AccountsAt(1, n, upTo, o)
           a2 == AccountsAt(2, n, a1, o)
           a3 == AccountsAt(3, n, a2, o)
           a4 == AccountsAt(4, n, a3, o)
           b1 == AccountsAt(1, n, upTo, p)
           b2 == AccountsAt(2, n, b1, p)
           b3 == AccountsAt(3, n, b2, p)
           b4 == AccountsAt(4, n, b3, p)
           k == Len(o)
           At(i, u, v, w) == /\ i <= k => v = w
                             /\ i = k + 1 => v = Accounts(n, u, e)
                             /\ i > k => w = u
                             /\ i > k + 1 => v = u
<1>1. k \in Nat /\ Len(p) = k + 1
  <2>1. o \in Seq(S \cup {e}) /\ e \in S \cup {e}
    BY SeqMonotonic
  <2> QED
    BY <2>1, LenProperties, SMT
<1>2. \A u : /\ At(1, u, AccountsAt(1, n, u, p), AccountsAt(1, n, u, o))
             /\ At(2, u, AccountsAt(2, n, u, p), AccountsAt(2, n, u, o))
             /\ At(3, u, AccountsAt(3, n, u, p), AccountsAt(3, n, u, o))
             /\ At(4, u, AccountsAt(4, n, u, p), AccountsAt(4, n, u, o))
  <2> TAKE u
  <2>1. 1 \in Nat \ {0} /\ 2 \in Nat \ {0} /\ 3 \in Nat \ {0} /\ 4 \in Nat \ {0}
    BY SMT
  <2> QED
    BY <2>1, AppendAccountsAt
<1>3. /\ AccountsAll(n, upTo, o) = a4 /\ AccountsAll(n, upTo, p) = b4
  BY DEF AccountsAll
<1> HIDE DEF k, p
<1>4. k = 0 => a4 = upTo /\ b4 = Accounts(n, upTo, e)
  BY <1>2
<1>5. k = 1 => a4 = a1 /\ b4 = Accounts(n, a1, e)
  BY <1>2
<1>6. k = 2 => a4 = a2 /\ b4 = Accounts(n, a2, e)
  BY <1>2
<1>7. k = 3 => a4 = a3 /\ b4 = Accounts(n, a3, e)
  BY <1>2
<1>8. k \in {0, 1, 2, 3}
  <2>1. k < 4
    BY DEF k
  <2> QED
    BY <1>1, <2>1, SMT
<1> HIDE DEF a1, a2, a3, a4, b1, b2, b3, b4
<1>9. b4 = Accounts(n, a4, e)
  BY <1>4, <1>5, <1>6, <1>7, <1>8
<1> QED
  BY <1>1, <1>3, <1>9 DEF p, k

\* What a flush of a frame tells.
LEMMA FlushFrameEvent ==
  ASSUME NEW s, Handling(s), NEW dec \in Decodings
  PROVE  LET t == FlushFrame(s, dec)
         IN  \E e :
               /\ t.o = Append(s.o, e)
               /\ \/ /\ e = Corrupt(NextExpected(s.v), s.v.frame_index_cur)
                     /\ t.v.frame_index_prev_complete = s.v.frame_index_cur
                  \/ /\ e.type = "dropped" \/ (e.type = "sample" /\ e.taken)
                     /\ t.v.frame_index_prev_complete = s.v.frame_index_cur
                  \/ /\ e.type = "sample" /\ ~e.taken /\ ~dec.taken
                     /\ t.v.frame_index_prev_complete = s.v.frame_index_prev_complete
               /\ FlushResult(s.v.frame_processor) = "fec_failed" =>
                    /\ e = Corrupt(NextExpected(s.v), s.v.frame_index_cur)
                    /\ t.v.frame_index_prev_complete = s.v.frame_index_cur
<1> DEFINE f == [s EXCEPT !.v.frame_processor = Flush(@)]
           t == FlushFrame(s, dec)
<1>1. /\ f.o = s.o /\ f.v = [s.v EXCEPT !.frame_processor = Flush(@)]
      /\ f = [v |-> f.v, o |-> f.o] /\ dec.taken \in BOOLEAN
  BY DEF Handling, Decodings
<1>2. s.v \in Receivers
  BY DEF Handling
<1>3. /\ f.v.frame_index_cur = s.v.frame_index_cur
      /\ f.v.frame_index_prev_complete = s.v.frame_index_prev_complete
      /\ DOMAIN f.v = DOMAIN s.v /\ f.v = [i \in DOMAIN f.v |-> f.v[i]]
      /\ "frame_index_prev_complete" \in DOMAIN f.v
  BY <1>1, <1>2 DEF Receivers
<1> HIDE DEF f
<1>4. CASE FlushResult(s.v.frame_processor) = "fec_failed"
  <2> DEFINE lost == f.v.frames_lost + f.v.frame_index_cur - NextExpected(f.v) + 1
             e == Corrupt(NextExpected(s.v), s.v.frame_index_cur)
  <2>1. t = FecFailed(f)
    BY <1>4 DEF FlushFrame, f
  <2>2. NextExpected(f.v) = NextExpected(s.v)
    BY <1>3 DEF NextExpected
  <2>3. /\ t.v = [f.v EXCEPT !.frames_lost = lost, !.frame_index_prev = f.v.frame_index_cur,
                             !.frame_index_prev_complete = f.v.frame_index_cur]
        /\ t.o = Append(s.o, e)
    BY <1>1, <1>3, <2>1, <2>2 DEF FecFailed
  <2> HIDE DEF t, e, lost
  <2>4. t.v.frame_index_prev_complete = s.v.frame_index_cur
    BY <1>3, <2>3
  <2> QED
    BY <2>3, <2>4 DEF e, t
<1>5. CASE FlushResult(s.v.frame_processor) # "fec_failed" /\ Reference(s.v, dec) = MaxRefs
  <2> DEFINE lost == f.v.frames_lost + 1
             e == [type |-> "dropped"]
  <2>1. t = ReferenceMissing(f)
    BY <1>5 DEF FlushFrame, f
  <2>2. /\ t.v = [f.v EXCEPT !.frames_lost = lost, !.frame_index_prev = f.v.frame_index_cur,
                             !.frame_index_prev_complete = f.v.frame_index_cur]
        /\ t.o = Append(s.o, e)
    BY <1>1, <1>3, <2>1 DEF ReferenceMissing
  <2>3. e.type = "dropped"
    OBVIOUS
  <2> HIDE DEF t, e, lost
  <2>4. t.v.frame_index_prev_complete = s.v.frame_index_cur
    BY <1>3, <2>2
  <2> QED
    BY <1>5, <2>2, <2>3, <2>4 DEF t
<1>6. CASE FlushResult(s.v.frame_processor) # "fec_failed" /\ Reference(s.v, dec) # MaxRefs
  <2> DEFINE e == [type |-> "sample", units |-> Contents(f.v.frame_processor),
                   profile |-> f.v.profile_cur, lost |-> f.v.frames_lost,
                   ref |-> Reference(f.v, dec), taken |-> dec.taken]
             complete == IF dec.taken THEN f.v.frame_index_cur ELSE f.v.frame_index_prev_complete
             refs == IF dec.taken THEN AddRefFrame(f.v.reference_frames, f.v.frame_index_cur)
                     ELSE f.v.reference_frames
             lost == 0
  <2>1. t = Sample(f, dec)
    BY <1>6 DEF FlushFrame, f
  <2>2. /\ t.v = [f.v EXCEPT !.frames_lost = lost, !.frame_index_prev = f.v.frame_index_cur,
                             !.frame_index_prev_complete = complete, !.reference_frames = refs]
        /\ t.o = Append(s.o, e)
    BY <1>1, <1>3, <2>1 DEF Sample
  <2>3. e.type = "sample" /\ e.taken = dec.taken
    OBVIOUS
  <2>4. complete = IF dec.taken THEN s.v.frame_index_cur ELSE s.v.frame_index_prev_complete
    BY <1>3
  <2> HIDE DEF t, e, lost, complete, refs
  <2>5. t.v.frame_index_prev_complete = complete
    BY <1>3, <2>2
  <2> QED
    BY <1>1, <1>6, <2>2, <2>3, <2>4, <2>5 DEF t
<1> QED
  BY <1>4, <1>5, <1>6

\* The number of a frame that is less than half the circle back.
LEMMA FrameAgo ==
  ASSUME NEW n \in Nat, NEW c \in Nat, c <= n, n - c < Half
  PROVE  /\ Index(n) \in SeqNums /\ Dist(Index(c), Index(n)) = n - c
         /\ Add(Index(c), 1) = Index(c + 1)
         /\ Gt(Index(n), Index(c + 1)) <=> n > c + 1
         /\ Index(n) = Index(c) <=> n = c
<1>1. c + 1 \in Nat /\ n - (c + 1) < Half /\ (c + 1) - n < Half /\ n - c < M /\ c - n < Half
  BY HalfFacts, SMT
<1>2. Gt(Index(n), Index(c + 1)) <=> n > c + 1
  BY <1>1, FrameOrder
<1>3. Index(n) \in SeqNums /\ (Index(n) = Index(c) <=> n = c)
  BY <1>1, FrameOrder
<1>4. Dist(Index(c), Index(n)) = n - c
  BY <1>1, FrameOfIndex
<1>5. Add(Index(c), 1) = Index(c + 1)
  BY IndexBefore
<1> QED
  BY <1>2, <1>3, <1>4, <1>5

\* Before frame n begins, frame f of which it takes the place is accounted for.
LEMMA FlushLastAccounts ==
  ASSUME NEW s, Handling(s), NEW dec \in Decodings, NEW a0, NEW f \in Nat, NEW n \in Nat,
         f < n, n - f <= Skip, Len(s.o) <= 1,
         s.v.frame_index_cur = IF f = 0 THEN -1 ELSE Index(f),
         s.v.frame_index_prev # s.v.frame_index_cur => UnitsReceived(s.v.frame_processor) < Source,
         f = 0 => s.v.frame_index_prev = s.v.frame_index_cur,
         Accounted(s.v, AccountsAll(n, a0, s.o), f)
  PROVE  LET t == FlushLast(s, dec)
             a == AccountsAll(n, a0, t.o)
         IN  /\ Len(t.o) <= 2 /\ a \in Nat /\ a <= f
             /\ \E d \in 0 .. f :
                  /\ t.v.frame_index_prev_complete = Index(d) /\ d <= a
                  /\ n - d <= MaxStall + Skip
                  /\ n - d <= Dist(s.v.frame_index_prev_complete, Index(n))
<1> DEFINE t == FlushLast(s, dec)
           a1 == AccountsAll(n, a0, s.o)
<1>1. PICK S : s.o \in Seq(S)
  BY DEF Handling
<1>2. /\ a1 \in Nat /\ a1 <= f
  BY DEF Accounted
<1> HIDE DEF a1
<1>3. PICK c \in 0 .. f :
        /\ s.v.frame_index_prev_complete = Index(c) /\ c <= a1
        /\ IF s.v.frame_index_prev = s.v.frame_index_cur THEN f - c <= MaxStall
           ELSE c < f /\ f - c <= MaxStall + Skip
  BY DEF Accounted, a1
<1>4. /\ MaxStall \in Nat /\ Skip \in Nat /\ MaxStall + Skip < Half /\ Half \in Nat /\ M = 2 * Half
      /\ c \in Nat /\ c + 1 \in Nat
  BY HalfFacts, StreamAssumption, SMT
<1>5. n - c < M /\ c <= n /\ f - c <= MaxStall + Skip
  BY <1>3, <1>4, SMT
<1>6. Dist(s.v.frame_index_prev_complete, Index(n)) = n - c
  BY <1>3, <1>4, <1>5, FrameOfIndex
<1>7. CASE s.v.frame_index_prev = s.v.frame_index_cur
  <2>1. t = s
    BY <1>7 DEF FlushLast
  <2>2. n - c <= MaxStall + Skip /\ Len(s.o) <= 2
    <3>1. Len(s.o) \in Nat
      BY <1>1, LenProperties
    <3> QED
      BY <1>3, <1>4, <1>7, <3>1, SMT
  <2>3. n - c <= n - c
    BY <1>4, SMT
  <2> HIDE DEF t
  <2> QED
    BY <1>2, <1>3, <1>6, <2>1, <2>2, <2>3 DEF a1, t
<1>8. CASE s.v.frame_index_prev # s.v.frame_index_cur
  <2>1. f # 0 /\ s.v.frame_index_cur = Index(f) /\ Index(f) \in SeqNums /\ Index(f) >= 0
    <3>1. Index(f) \in SeqNums
      BY <1>4, FrameOrder, SMT
    <3> QED
      BY <1>8, <3>1, ModulusAssumption, SMT DEF SeqNums
  <2>2. t = FlushFrame(s, dec)
    BY <1>8, <2>1 DEF FlushLast
  <2>3. FlushResult(s.v.frame_processor) = "fec_failed"
    <3>1. s.v.frame_processor \in FrameProcessors
      BY DEF Handling, Receivers
    <3> QED
      BY <1>8, <3>1, TooFewUnits
  <2> DEFINE e == Corrupt(NextExpected(s.v), Index(f))
  <2>4. t.o = Append(s.o, e) /\ t.v.frame_index_prev_complete = Index(f)
    BY <2>1, <2>2, <2>3, FlushFrameEvent
  <2>5. NextExpected(s.v) = Index(c + 1)
    BY <1>3, <1>4, IndexBefore DEF NextExpected
  <2>6. e = Corrupt(Index(c + 1), Index(f))
    BY <2>5
  <2> HIDE DEF e, t
  <2>7. Len(s.o) < 4 /\ Len(s.o) \in Nat
    BY <1>1, LenProperties, SMT
  <2>8. AccountsAll(n, a0, t.o) = Accounts(n, a1, e) /\ Len(t.o) = Len(s.o) + 1
    BY <1>1, <2>4, <2>7, AppendAccounts DEF a1
  <2>9. c + 1 <= f /\ f <= n /\ n - (c + 1) < M /\ c + 1 <= a1 + 1
    BY <1>2, <1>3, <1>4, <1>5, <1>8, SMT
  <2>10. Accounts(n, a1, e) = IF a1 >= f THEN a1 ELSE f
    BY <1>2, <1>4, <2>6, <2>9, CorruptAccounts
  <2>11. Accounts(n, a1, e) = f
    BY <1>2, <2>10, SMT
  <2>12. /\ f \in 0 .. f /\ f <= f /\ n - f <= MaxStall + Skip /\ n - f <= n - c /\ Len(t.o) <= 2
    BY <1>3, <1>4, <2>7, <2>8, SMT
  <2> QED
    BY <1>6, <2>4, <2>8, <2>11, <2>12 DEF t
<1> QED
  BY <1>7, <1>8

\* A gap before frame n is reported, so that all frames before it are accounted for.
LEMMA ReportGapAccounts ==
  ASSUME NEW s, Handling(s), NEW a0, NEW f \in Nat, NEW n \in Nat, NEW d \in Nat,
         f < n, d <= f, n - d < Half, Len(s.o) <= 2,
         s.v.frame_index_cur = IF f = 0 THEN -1 ELSE Index(f),
         s.v.frame_index_prev_complete = Index(d),
         AccountsAll(n, a0, s.o) \in Nat, d <= AccountsAll(n, a0, s.o), AccountsAll(n, a0, s.o) <= f
  PROVE  LET t == ReportGap(s, Index(n))
         IN  AccountsAll(n, a0, t.o) = n - 1 /\ Len(t.o) <= 3
<1> DEFINE t == ReportGap(s, Index(n))
           a1 == AccountsAll(n, a0, s.o)
<1>1. PICK S : s.o \in Seq(S)
  BY DEF Handling
<1>2. a1 \in Nat /\ d <= a1 /\ a1 <= f
  OBVIOUS
<1> HIDE DEF a1
<1>3. /\ NextExpected(s.v) = Index(d + 1)
      /\ Gt(Index(n), Index(d + 1)) <=> n > d + 1
  <2>1. d <= n
    BY SMT
  <2> QED
    BY <2>1, FrameAgo DEF NextExpected
<1>4. Len(s.o) \in Nat /\ Len(s.o) <= 3
  BY <1>1, LenProperties, SMT
<1>5. CASE Gt(Index(n), NextExpected(s.v)) /\ ~(Index(n) = 1 /\ s.v.frame_index_cur < 0)
  <2> DEFINE e == Corrupt(NextExpected(s.v), Add(Index(n), -1))
             b == n - 1
  <2>1. t = [s EXCEPT !.o = Append(@, e)]
    BY <1>5 DEF ReportGap
  <2>2. t.o = Append(s.o, e)
    BY <2>1 DEF Handling
  <2>3. /\ b \in Nat /\ n = b + 1 /\ d + 1 \in Nat /\ d + 1 <= b /\ b <= n /\ n - (d + 1) < M
        /\ d + 1 <= a1 + 1 /\ ~(a1 > b)
    BY <1>2, <1>3, <1>5, HalfFacts, SMT
  <2> HIDE DEF b
  <2>4. Add(Index(n), -1) = Index(b)
    BY <2>3, IndexBefore
  <2>5. e = Corrupt(Index(d + 1), Index(b))
    BY <1>3, <2>4
  <2> HIDE DEF e, t
  <2>6. AccountsAll(n, a0, t.o) = Accounts(n, a1, e) /\ Len(t.o) = Len(s.o) + 1
    <3>1. Len(s.o) < 4
      BY <1>4, SMT
    <3> QED
      BY <1>1, <2>2, <3>1, AppendAccounts DEF a1
  <2>7. Accounts(n, a1, e) = IF a1 >= b THEN a1 ELSE b
    BY <1>2, <2>3, <2>5, CorruptAccounts
  <2>8. Accounts(n, a1, e) = b
    BY <1>2, <2>3, <2>7, SMT
  <2>9. Len(t.o) <= 3
    BY <1>4, <2>6, SMT
  <2> QED
    BY <2>6, <2>8, <2>9 DEF t, b
<1>6. CASE ~(Gt(Index(n), NextExpected(s.v)) /\ ~(Index(n) = 1 /\ s.v.frame_index_cur < 0))
  <2>1. t = s
    BY <1>6 DEF ReportGap
  <2>2. n = f + 1 /\ d = f
    <3>1. CASE ~(Gt(Index(n), NextExpected(s.v)))
      BY <1>3, <3>1, SMT
    <3>2. CASE Index(n) = 1 /\ s.v.frame_index_cur < 0
      <4>1. Index(f) \in SeqNums
        <5>1. f - f < Half
          BY HalfFacts, SMT
        <5> QED
          BY <5>1, FrameOrder
      <4>2. f = 0
        BY <3>2, <4>1, ModulusAssumption, SMT DEF SeqNums
      <4>3. 1 % M = 1
        BY ModulusAssumption, SMT
      <4> DEFINE one == 1
      <4>4. one \in Nat /\ one - n < Half /\ n - one < Half /\ Index(one) = one /\ d = 0
        BY <4>2, <4>3, HalfFacts, SMT DEF Index
      <4>5. one = 1
        OBVIOUS
      <4> HIDE DEF one
      <4>6. Index(n) = Index(one) => n = one
        BY <4>4, FrameOrder
      <4> QED
        BY <3>2, <4>2, <4>4, <4>5, <4>6, SMT
    <3> QED
      BY <1>6, <3>1, <3>2
  <2>3. a1 = n - 1
    BY <1>2, <2>2, SMT
  <2> QED
    BY <1>4, <2>1, <2>3 DEF a1
<1> QED
  BY <1>5, <1>6

\* When frame n begins, all frames before it are accounted for.
LEMMA NextFrameAccounts ==
  ASSUME NEW s, Handling(s), NEW dec \in Decodings, NEW a0, NEW f \in Nat, NEW n \in Nat,
         f < n, n - f <= Skip, Len(s.o) <= 1,
         s.v.frame_index_cur = IF f = 0 THEN -1 ELSE Index(f),
         s.v.frame_index_prev # s.v.frame_index_cur => UnitsReceived(s.v.frame_processor) < Source,
         f = 0 => s.v.frame_index_prev = s.v.frame_index_cur,
         Accounted(s.v, AccountsAll(n, a0, s.o), f)
  PROVE  LET t == NextFrame(s, Index(n), dec)
         IN  /\ Len(t.o) <= 3 /\ Accounted(t.v, AccountsAll(n, a0, t.o), n)
             /\ Dist(t.v.frame_index_prev_complete, Index(n)) <= Dist(s.v.frame_index_prev_complete, Index(n))
<1> DEFINE l == FlushLast(s, dec)
           g == ReportGap(l, Index(n))
           t == NextFrame(s, Index(n), dec)
           a1 == AccountsAll(n, a0, l.o)
<1>1. /\ Len(l.o) <= 2 /\ a1 \in Nat /\ a1 <= f
      /\ \E d \in 0 .. f :
           /\ l.v.frame_index_prev_complete = Index(d) /\ d <= a1
           /\ n - d <= MaxStall + Skip
           /\ n - d <= Dist(s.v.frame_index_prev_complete, Index(n))
  BY FlushLastAccounts
<1> HIDE DEF a1
<1>2. PICK d \in 0 .. f : /\ l.v.frame_index_prev_complete = Index(d) /\ d <= a1
                          /\ n - d <= MaxStall + Skip
                          /\ n - d <= Dist(s.v.frame_index_prev_complete, Index(n))
  BY <1>1
<1>3. /\ f - n < Half /\ n - f < Half /\ d \in Nat /\ d <= f /\ n - d < Half /\ n - d < M /\ d <= n
      /\ n - 1 \in Nat /\ n - 1 <= n /\ n <= (n - 1) + 1 /\ d \in 0 .. n /\ d <= n - 1 /\ d < n /\ d # n
  BY <1>2, HalfFacts, StreamAssumption, SMT
<1>4. /\ Index(f) \in SeqNums /\ Index(n) \in SeqNums /\ Index(n) # Index(f)
      /\ Gt(Index(n), Index(f))
  BY <1>3, FrameOrder
<1>5. /\ s.v.frame_index_cur < 0 <=> f = 0
      /\ s.v.frame_index_cur \in {-1, Index(f)} /\ s.v.frame_index_cur # Index(n)
  BY <1>4, ModulusAssumption, SMT DEF SeqNums
<1>6. s.v.frame_index_cur < 0 \/ Gt(Index(n), s.v.frame_index_cur)
  BY <1>4, <1>5
<1>7. /\ Handling(t) /\ t.v.frame_index_cur = Index(n) /\ t.v.frame_index_prev = s.v.frame_index_cur
  BY <1>4, <1>5, <1>6, NextFrameEffect
<1>8. Handling(l) /\ l.v.frame_index_cur = s.v.frame_index_cur
  <2>1. CASE s.v.frame_index_cur >= 0 /\ s.v.frame_index_prev # s.v.frame_index_cur
    <3>1. l = FlushFrame(s, dec)
      BY <2>1 DEF FlushLast
    <3>2. s.v.frame_processor \in FrameProcessors
      BY DEF Handling, Receivers
    <3>3. Flush(s.v.frame_processor) \in FrameProcessors
      BY <2>1, <3>2, TooFewUnits
    <3>4. s.v.frame_index_cur # -1
      BY <2>1, SMT
    <3> HIDE DEF l
    <3> QED
      BY <3>1, <3>3, <3>4, FlushFrameEffect
  <2>2. CASE ~(s.v.frame_index_cur >= 0 /\ s.v.frame_index_prev # s.v.frame_index_cur)
    BY <2>2 DEF FlushLast
  <2> QED
    BY <2>1, <2>2
<1> HIDE DEF l
<1>9. AccountsAll(n, a0, g.o) = n - 1 /\ Len(g.o) <= 3
  BY <1>1, <1>2, <1>3, <1>8, ReportGapAccounts DEF a1
<1>10. Handling(g) /\ g.v = l.v
  BY <1>8, ReportGapEffect
<1>11. t = [g EXCEPT !.v.frame_index_cur = Index(n), !.v.frame_processor = AllocFrame(@)]
  BY <1>6 DEF NextFrame, l
<1> HIDE DEF g, t
<1>12. t.o = g.o /\ t.v.frame_index_prev_complete = g.v.frame_index_prev_complete
  BY <1>10, <1>11 DEF Handling, Receivers
<1>13. t.v.frame_index_prev_complete = Index(d) /\ t.v.frame_index_prev # t.v.frame_index_cur
  BY <1>2, <1>5, <1>7, <1>10, <1>12
<1>14. Accounted(t.v, n - 1, n)
  BY <1>2, <1>3, <1>13 DEF Accounted
<1>15. Dist(Index(d), Index(n)) = n - d
  BY <1>3, FrameOfIndex
<1> QED
  BY <1>2, <1>9, <1>12, <1>13, <1>14, <1>15 DEF t

\* A flush of frame n accounts for it, unless the decoder fails on it.
LEMMA FlushIfPossibleAccounts ==
  ASSUME NEW s, Handling(s), NEW dec \in Decodings, NEW a0, NEW n \in Nat, Len(s.o) <= 3,
         s.v.frame_index_cur = Index(n), n > 0, HoldsOnly(s.v.frame_processor, n),
         Accounted(s.v, AccountsAll(n, a0, s.o), n),
         dec.taken \/ Dist(s.v.frame_index_prev_complete, Index(n)) <= MaxStall
  PROVE  LET t == FlushIfPossible(s, dec)
         IN  Accounted(t.v, AccountsAll(n, a0, t.o), n)
<1> DEFINE t == FlushIfPossible(s, dec)
           a1 == AccountsAll(n, a0, s.o)
<1>1. CASE ~(s.v.frame_index_cur # s.v.frame_index_prev /\ FlushPossible(s.v.frame_processor))
  BY <1>1 DEF FlushIfPossible
<1>2. CASE s.v.frame_index_cur # s.v.frame_index_prev /\ FlushPossible(s.v.frame_processor)
  <2>1. t = FlushFrame(s, dec)
    BY <1>2 DEF FlushIfPossible
  <2>2. PICK S : s.o \in Seq(S)
    BY DEF Handling
  <2>3. a1 \in Nat /\ a1 <= n /\ n <= a1 + 1
    BY DEF Accounted
  <2> HIDE DEF a1
  <2>4. PICK c \in 0 .. n : /\ s.v.frame_index_prev_complete = Index(c) /\ c <= a1
                            /\ c < n /\ n - c <= MaxStall + Skip
    BY <1>2 DEF Accounted, a1
  <2>5. /\ c \in Nat /\ c + 1 \in Nat /\ n - c < M /\ n - (c + 1) < M /\ c + 1 <= n /\ c <= n
        /\ c + 1 <= a1 + 1 /\ n \in 0 .. n /\ n - n <= MaxStall /\ n <= n + 1 /\ n <= n /\ c # n
        /\ Len(s.o) < 4 /\ MaxStall \in Nat
    <3>1. Len(s.o) \in Nat
      BY <2>2, LenProperties
    <3> QED
      BY <2>3, <2>4, <3>1, HalfFacts, StreamAssumption, SMT
  <2>6. t.v.frame_index_prev = t.v.frame_index_cur
    <3>1. s.v.frame_processor \in FrameProcessors
      BY DEF Handling, Receivers
    <3>2. n \in Nat \ {0}
      BY SMT
    <3>3. Flush(s.v.frame_processor) \in FrameProcessors
      BY <1>2, <3>1, <3>2, FlushHolds
    <3>4. s.v.frame_index_cur # -1
      <4>1. Index(n) \in SeqNums
        BY FrameOrder, HalfFacts, SMT
      <4> QED
        BY <4>1, ModulusAssumption, SMT DEF SeqNums
    <3> HIDE DEF t
    <3> QED
      BY <2>1, <3>3, <3>4, FlushFrameEffect
  <2>7. PICK e :
          /\ t.o = Append(s.o, e)
          /\ \/ /\ e = Corrupt(NextExpected(s.v), Index(n))
                /\ t.v.frame_index_prev_complete = Index(n)
             \/ /\ e.type = "dropped" \/ (e.type = "sample" /\ e.taken)
                /\ t.v.frame_index_prev_complete = Index(n)
             \/ /\ e.type = "sample" /\ ~e.taken /\ ~dec.taken
                /\ t.v.frame_index_prev_complete = Index(c)
    BY <2>1, <2>4, FlushFrameEvent
  <2> HIDE DEF t
  <2>8. AccountsAll(n, a0, t.o) = Accounts(n, a1, e)
    BY <2>2, <2>5, <2>7, AppendAccounts DEF a1
  <2>9. Accounted(t.v, n, n) \/ ~(t.v.frame_index_prev_complete = Index(n))
    BY <2>5, <2>6 DEF Accounted
  <2>10. CASE e = Corrupt(NextExpected(s.v), Index(n)) /\ t.v.frame_index_prev_complete = Index(n)
    <3>1. NextExpected(s.v) = Index(c + 1)
      BY <2>4, <2>5, IndexBefore DEF NextExpected
    <3>2. e = Corrupt(Index(c + 1), Index(n))
      BY <2>10, <3>1
    <3>3. /\ n <= n /\ c + 1 <= n /\ n - (c + 1) < M /\ c + 1 <= a1 + 1
          /\ c + 1 \in Nat /\ a1 \in Nat
      BY <2>3, <2>5
    <3> DEFINE next == c + 1
    <3> HIDE DEF next
    <3>4. Accounts(n, a1, Corrupt(Index(next), Index(n))) = IF a1 >= n THEN a1 ELSE n
      BY <3>3, CorruptAccounts DEF next
    <3>5. Accounts(n, a1, e) = n
      BY <2>3, <3>2, <3>4, SMT DEF next
    <3> QED
      BY <2>8, <2>9, <2>10, <3>5 DEF t
  <2>11. CASE /\ e.type = "dropped" \/ (e.type = "sample" /\ e.taken)
              /\ t.v.frame_index_prev_complete = Index(n)
    <3>1. Accounts(n, a1, e) = n
      BY <2>3, <2>11, OtherAccounts
    <3> QED
      BY <2>8, <2>9, <2>11, <3>1 DEF t
  <2>12. CASE /\ e.type = "sample" /\ ~e.taken /\ ~dec.taken
              /\ t.v.frame_index_prev_complete = Index(c)
    <3>1. Accounts(n, a1, e) = a1
      BY <2>3, <2>12, OtherAccounts
    <3>2. Dist(Index(c), Index(n)) = n - c
      BY <2>5, FrameOfIndex
    <3>3. n - c <= MaxStall
      BY <2>4, <2>12, <3>2
    <3>4. Accounted(t.v, a1, n)
      BY <2>3, <2>4, <2>5, <2>6, <2>12, <3>3 DEF Accounted
    <3> QED
      BY <2>8, <3>1, <3>4 DEF t
  <2> QED
    BY <2>7, <2>10, <2>11, <2>12
<1> QED
  BY <1>1, <1>2

\* Nothing is accounted for before the first event, nor with a header.
LEMMA SwitchProfileAccounts ==
  ASSUME NEW s, Handling(s), NEW profile, NEW n, NEW a0, s.o = <<>>
  PROVE  LET t == SwitchProfile(s, profile)
         IN  /\ AccountsAll(n, a0, <<>>) = a0
             /\ Len(t.o) <= 1 /\ AccountsAll(n, a0, t.o) = a0
             /\ t.v.frame_index_prev_complete = s.v.frame_index_prev_complete
<1> DEFINE t == SwitchProfile(s, profile)
<1>1. AccountsAll(n, a0, <<>>) = a0 /\ Len(<<>>) = 0 /\ Len(<<>>) <= 1 /\ Len(<<>>) < 4
  <2>1. \A i : i \notin DOMAIN <<>>
    OBVIOUS
  <2>2. \A i : \A u : AccountsAt(i, n, u, <<>>) = u
    BY <2>1 DEF AccountsAt
  <2> QED
    BY <2>2 DEF AccountsAll
<1>2. CASE s.v.profile_cur = profile
  BY <1>1, <1>2 DEF SwitchProfile
<1>3. CASE s.v.profile_cur # profile
  <2> DEFINE e == [type |-> "header", profile |-> profile]
  <2>1. PICK S : s.o \in Seq(S)
    BY DEF Handling
  <2>2. t.v = [s.v EXCEPT !.profile_cur = profile] /\ t.o = Append(s.o, e)
    BY <1>3 DEF SwitchProfile
  <2>3. e.type = "header"
    OBVIOUS
  <2> HIDE DEF t, e
  <2>4. t.v.frame_index_prev_complete = s.v.frame_index_prev_complete
    BY <2>2 DEF Handling, Receivers
  <2>5. /\ AccountsAll(n, a0, t.o) = Accounts(n, AccountsAll(n, a0, s.o), e)
        /\ Len(t.o) = Len(s.o) + 1
    <3>1. Len(s.o) < 4
      BY <1>1
    <3> DEFINE o == s.o
    <3> HIDE DEF o
    <3>2. o \in Seq(S) /\ Len(o) < 4 /\ t.o = Append(o, e)
      BY <2>1, <2>2, <3>1 DEF o
    <3>3. /\ AccountsAll(n, a0, t.o) = Accounts(n, AccountsAll(n, a0, o), e)
          /\ Len(t.o) = Len(o) + 1
      BY <3>2, AppendAccounts
    <3> QED
      BY <3>3 DEF o
  <2>6. Accounts(n, a0, e) = a0
    BY <2>3 DEF Accounts
  <2>7. Len(t.o) <= 1
    BY <1>1, <2>5, SMT
  <2> QED
    BY <1>1, <2>4, <2>5, <2>6, <2>7 DEF t
<1> QED
  BY <1>2, <1>3

-----------------------------------------------------------------------------
(* A packet                                                                 *)

\* What the handling of a packet does, in terms of the frame that is newest then.
LEMMA HandledEffect ==
  ASSUME Inv, NEW frame \in 1 .. Frames, frame \in newest - Late .. newest + Skip,
         NEW unit \in Units, NEW dec \in Decodings,
         dec.taken \/ Dist(vr.frame_index_prev_complete, Index(frame)) <= MaxStall
  PROVE  LET t == Handled([v |-> vr, o |-> <<>>], frame, unit, dec)
             n == Max({newest, frame})
         IN  /\ n \in Nat /\ n > 0 /\ n >= newest
             /\ t.v \in Receivers /\ t.v.frame_index_cur = Index(n)
             /\ HoldsOnly(t.v.frame_processor, n)
             /\ t.v.frame_index_prev # t.v.frame_index_cur => UnitsReceived(t.v.frame_processor) < Source
             /\ \A e \in Samples(t.o) : e.units = {n} /\ e.profile = ProfileOf(n)
             /\ Samples(t.o) # {} => given < n /\ t.v.frame_index_prev = t.v.frame_index_cur
             /\ given = n => t.v.frame_index_prev = t.v.frame_index_cur
             /\ Accounted(t.v, AccountsAll(n, accounted, t.o), n)
             /\ Sized(vr) => Sized(t.v)
<1> DEFINE s == [v |-> vr, o |-> <<>>]
           p == ProfileOf(frame)
           s1 == SwitchProfile(s, p)
           s2 == NextFrame(s1, Index(frame), dec)
           s3 == StoreUnit(s2, frame, unit)
           s4 == FlushIfPossible(s3, dec)
           n == Max({newest, frame})
<1>1. /\ newest \in Nat /\ frame \in Nat /\ frame > 0 /\ n \in Nat /\ n > 0 /\ n >= newest
      /\ n = IF newest >= frame THEN newest ELSE frame
      /\ frame - newest < Half /\ newest - frame < Half
      /\ given \in Nat /\ given <= newest
  <2>1. newest \in Nat /\ given \in Nat /\ given <= newest
    BY DEF Inv, FillsNewest, GivenIsFlushed
  <2>2. frame \in Nat /\ frame > 0 /\ frame - newest < Half /\ newest - frame < Half
    BY <2>1, HalfFacts, StreamAssumption, SMT
  <2>3. n = IF newest >= frame THEN newest ELSE frame
    BY <2>1, <2>2, MaxOfTwo
  <2> HIDE DEF n
  <2> QED
    BY <2>1, <2>2, <2>3, SMT
<1>2. /\ Index(newest) \in SeqNums /\ Index(frame) \in SeqNums
      /\ Lt(Index(frame), Index(newest)) <=> frame < newest
      /\ Gt(Index(frame), Index(newest)) <=> frame > newest
      /\ Index(frame) = Index(newest) <=> frame = newest
  BY <1>1, FrameOrder
<1>3. /\ vr \in Receivers /\ HoldsOnly(vr.frame_processor, newest)
      /\ vr.frame_index_cur = IF newest = 0 THEN -1 ELSE Index(newest)
      /\ vr.frame_index_prev # vr.frame_index_cur => UnitsReceived(vr.frame_processor) < Source
      /\ given = newest => vr.frame_index_prev = vr.frame_index_cur
  BY DEF Inv, FillsNewest, FlushedIfComplete, GivenIsFlushed
<1>4. /\ Index(newest) >= 0 /\ Index(newest) # -1 /\ Index(frame) >= 0 /\ Index(frame) # -1
  BY <1>2, ModulusAssumption, SMT DEF SeqNums
<1>5. /\ vr.frame_index_cur < 0 <=> newest = 0
      /\ vr.frame_index_cur >= 0 <=> newest # 0
  BY <1>2, <1>3, <1>4, ModulusAssumption, SMT DEF SeqNums
<1>6. /\ Handling(s) /\ Samples(s.o) = {}
  BY <1>3 DEF Handling, Samples
<1>7. OldFrame(s.v, Index(frame)) <=> frame < newest
  BY <1>1, <1>2, <1>3, <1>5, SMT DEF OldFrame
<1> HIDE DEF n
<1>8. CASE frame < newest
  <2>1. Handled(s, frame, unit, dec) = s
    BY <1>7, <1>8 DEF Handled
  <2>2. n = newest /\ newest # 0
    BY <1>1, <1>8, SMT
  <2>3. s.v = vr /\ (given = n => given = newest) /\ s.o = <<>>
    BY <2>2
  <2>4. Accounted(s.v, AccountsAll(n, accounted, s.o), n)
    <3>1. AccountsAll(n, accounted, <<>>) = accounted
      BY <1>6, SwitchProfileAccounts
    <3> QED
      BY <2>2, <2>3, <3>1 DEF Inv
  <2> QED
    BY <1>1, <1>3, <1>6, <2>1, <2>2, <2>3, <2>4 DEF n
<1>9. CASE ~(frame < newest)
  <2>1. Handled(s, frame, unit, dec) = s4
    BY <1>7, <1>9 DEF Handled, Received
  <2>2. n = frame
    BY <1>1, <1>9, SMT
  <2>3. p \in 0 .. 1
    BY SMT DEF ProfileOf
  <2> HIDE DEF p, s1, s2, s3, s4
  <2>4. /\ Handling(s1) /\ s1.v.frame_index_cur = vr.frame_index_cur
        /\ s1.v.frame_index_prev = vr.frame_index_prev
        /\ s1.v.frame_processor = vr.frame_processor
        /\ s1.v.profile_cur = p /\ Samples(s1.o) = {} /\ (Sized(vr) => Sized(s1.v))
    <3>1. s.v = vr
      OBVIOUS
    <3> HIDE DEF s
    <3> QED
      BY <1>6, <2>3, <3>1, SwitchProfileEffect DEF s1
  <2>5. /\ Handling(s2) /\ s2.v.frame_index_cur = Index(frame) /\ s2.v.profile_cur = p
        /\ HoldsOnly(s2.v.frame_processor, frame) /\ Samples(s2.o) = {}
        /\ given = frame => s2.v.frame_index_prev = s2.v.frame_index_cur
        /\ Sized(s1.v) => Sized(s2.v)
    <3>1. CASE frame > newest
      <4>1. s1.v.frame_index_cur < 0 \/ Gt(Index(frame), s1.v.frame_index_cur)
        BY <1>2, <1>3, <1>5, <2>4, <3>1
      <4>2. s1.v.frame_index_cur < 0 => s1.v.frame_index_prev = s1.v.frame_index_cur
        <5>1. newest = 0 => given = newest
          BY <1>1, SMT
        <5> QED
          BY <1>3, <1>5, <2>4, <5>1
      <4>3. s1.v.frame_index_prev # s1.v.frame_index_cur => UnitsReceived(s1.v.frame_processor) < Source
        BY <1>3, <2>4
      <4>4. /\ Handling(s2) /\ s2.v.frame_index_cur = Index(frame)
            /\ s2.v.profile_cur = s1.v.profile_cur
            /\ s2.v.frame_processor = EmptyFrame /\ Samples(s2.o) = Samples(s1.o)
            /\ Sized(s1.v) => Sized(s2.v)
        BY <1>2, <2>4, <4>1, <4>2, <4>3, NextFrameEffect DEF s2
      <4>5. given # frame
        BY <1>1, <3>1, SMT
      <4> QED
        BY <2>4, <4>4, <4>5, EmptyFrameHolds
    <3>2. CASE ~(frame > newest)
      <4>1. frame = newest /\ newest # 0
        BY <1>1, <1>9, <3>2, SMT
      <4>2. s1.v.frame_index_cur = Index(frame) /\ s1.v.frame_index_cur >= 0
        BY <1>3, <1>5, <2>4, <4>1
      <4>3. ~(s1.v.frame_index_cur < 0) /\ ~Gt(Index(frame), s1.v.frame_index_cur)
        BY <1>2, <1>3, <1>5, <2>4, <3>2, <4>1
      <4>4. s2 = s1
        BY <4>3 DEF s2, NextFrame
      <4> QED
        BY <1>3, <2>4, <4>1, <4>2, <4>4
    <3> QED
      BY <3>1, <3>2
  <2>6. frame \in Nat \ {0}
    BY <1>1, SMT
  <2>7. /\ Handling(s3) /\ s3.o = s2.o /\ s3.v.frame_index_cur = s2.v.frame_index_cur
        /\ s3.v.frame_index_prev = s2.v.frame_index_prev
        /\ s3.v.profile_cur = s2.v.profile_cur /\ HoldsOnly(s3.v.frame_processor, frame)
        /\ Sized(s2.v) => Sized(s3.v)
    BY <2>5, <2>6, StoreUnitEffect DEF s3
  <2>8. s3.v.frame_index_cur # -1 /\ Samples(s3.o) = {}
    BY <1>4, <2>5, <2>7
  <2>9. /\ Handling(s4) /\ s4.v.frame_index_cur = s3.v.frame_index_cur
        /\ s4.v.frame_index_prev \in {s3.v.frame_index_prev, s3.v.frame_index_cur}
        /\ HoldsOnly(s4.v.frame_processor, frame)
        /\ s4.v.frame_index_prev # s4.v.frame_index_cur => UnitsReceived(s4.v.frame_processor) < Source
        /\ \A e \in Samples(s4.o) : e.units = {frame} /\ e.profile = s3.v.profile_cur
        /\ Samples(s4.o) # {} => /\ s3.v.frame_index_prev # s3.v.frame_index_cur
                                 /\ s4.v.frame_index_prev = s4.v.frame_index_cur
        /\ Sized(s3.v) => Sized(s4.v)
    BY <2>6, <2>7, <2>8, FlushIfPossibleEffect DEF s4
  <2>10. Samples(s4.o) # {} => given < frame
    <3>1. given <= frame
      BY <1>1, <1>9, SMT
    <3>2. Samples(s4.o) # {} => given # frame
      BY <2>5, <2>7, <2>9
    <3> QED
      BY <1>1, <3>1, <3>2, SMT
  <2>11. given = frame => s4.v.frame_index_prev = s4.v.frame_index_cur
    BY <2>5, <2>7, <2>9
  <2>13. s.v = vr /\ s.o = <<>>
    BY DEF s
  <2>14. /\ Len(s1.o) <= 1 /\ AccountsAll(frame, accounted, s1.o) = accounted
         /\ s1.v.frame_index_prev_complete = vr.frame_index_prev_complete
    BY <1>6, <2>13, SwitchProfileAccounts DEF s1
  <2>15. Accounted(s1.v, AccountsAll(frame, accounted, s1.o), newest)
    <3>1. Accounted(vr, accounted, newest)
      BY DEF Inv
    <3> QED
      BY <2>4, <2>14, <3>1 DEF Accounted
  <2>16. /\ Len(s2.o) <= 3 /\ Accounted(s2.v, AccountsAll(frame, accounted, s2.o), frame)
         /\ dec.taken \/ Dist(s2.v.frame_index_prev_complete, Index(frame)) <= MaxStall
    <3>1. CASE frame > newest
      <4>1. newest < frame /\ frame - newest <= Skip
        BY <1>1, <3>1, StreamAssumption, SMT
      <4>2. newest = 0 => s1.v.frame_index_prev = s1.v.frame_index_cur
        <5>1. newest = 0 => given = newest
          BY <1>1, SMT
        <5> QED
          BY <1>3, <2>4, <5>1
      <4>3. s1.v.frame_index_prev # s1.v.frame_index_cur => UnitsReceived(s1.v.frame_processor) < Source
        BY <1>3, <2>4
      <4>4. s1.v.frame_index_cur = IF newest = 0 THEN -1 ELSE Index(newest)
        BY <1>3, <2>4
      <4>5. /\ Len(s2.o) <= 3 /\ Accounted(s2.v, AccountsAll(frame, accounted, s2.o), frame)
            /\ Dist(s2.v.frame_index_prev_complete, Index(frame))
                 <= Dist(s1.v.frame_index_prev_complete, Index(frame))
        BY <1>1, <2>4, <2>14, <2>15, <4>1, <4>2, <4>3, <4>4, NextFrameAccounts DEF s2
      <4>6. /\ s1.v.frame_index_prev_complete \in SeqNums /\ s2.v.frame_index_prev_complete \in SeqNums
        BY <2>4, <2>5 DEF Handling, Receivers
      <4>7. /\ Dist(s1.v.frame_index_prev_complete, Index(frame)) \in Int
            /\ Dist(s2.v.frame_index_prev_complete, Index(frame)) \in Int /\ MaxStall \in Int
        <5>1. /\ Dist(s1.v.frame_index_prev_complete, Index(frame)) \in SeqNums
              /\ Dist(s2.v.frame_index_prev_complete, Index(frame)) \in SeqNums
          BY <1>2, <4>6, DistWraps
        <5>2. \A k \in SeqNums : k \in Int
          BY ModulusAssumption, SMT DEF SeqNums
        <5> QED
          BY <5>1, <5>2, StreamAssumption
      <4>8. Dist(s1.v.frame_index_prev_complete, Index(frame)) <= MaxStall
              => Dist(s2.v.frame_index_prev_complete, Index(frame)) <= MaxStall
        BY <4>5, <4>7, SMT
      <4> QED
        BY <2>14, <4>5, <4>8
    <3>2. CASE ~(frame > newest)
      <4>1. frame = newest /\ newest # 0
        BY <1>1, <1>9, <3>2, SMT
      <4>2. ~(s1.v.frame_index_cur < 0) /\ ~Gt(Index(frame), s1.v.frame_index_cur)
        BY <1>2, <1>3, <1>5, <2>4, <3>2, <4>1
      <4>3. s2 = s1
        BY <4>2 DEF s2, NextFrame
      <4>4. Len(s1.o) <= 3
        <5>1. PICK S : s1.o \in Seq(S)
          BY <2>4 DEF Handling
        <5> QED
          BY <2>14, <5>1, LenProperties, SMT
      <4> QED
        BY <2>14, <2>15, <4>1, <4>3, <4>4
    <3> QED
      BY <3>1, <3>2
  <2>17. /\ Accounted(s3.v, AccountsAll(frame, accounted, s3.o), frame) /\ Len(s3.o) <= 3
         /\ dec.taken \/ Dist(s3.v.frame_index_prev_complete, Index(frame)) <= MaxStall
    <3>1. /\ s3.o = s2.o /\ s3.v.frame_index_cur = s2.v.frame_index_cur
          /\ s3.v.frame_index_prev = s2.v.frame_index_prev
          /\ s3.v.frame_index_prev_complete = s2.v.frame_index_prev_complete
      BY <2>5, <2>6, StoreUnitEffect DEF s3
    <3> QED
      BY <2>16, <3>1 DEF Accounted
  <2>18. Accounted(s4.v, AccountsAll(frame, accounted, s4.o), frame)
    <3>1. s3.v.frame_index_cur = Index(frame)
      BY <2>5, <2>7
    <3> QED
      BY <1>1, <2>7, <2>17, <3>1, FlushIfPossibleAccounts DEF s4
  <2>12. s4.v \in Receivers /\ s4.v.frame_index_cur = Index(frame) /\ s3.v.profile_cur = p
    BY <2>5, <2>7, <2>9 DEF Handling
  <2>19. Sized(vr) => Sized(s4.v)
    BY <2>4, <2>5, <2>7, <2>9
  <2> QED
    BY <1>1, <2>1, <2>2, <2>9, <2>10, <2>11, <2>12, <2>18, <2>19 DEF n, p
<1> QED
  BY <1>8, <1>9

-----------------------------------------------------------------------------
(* The theorems                                                             *)

\* At first there is no frame.
LEMMA InitInv == Init => Inv
<1> SUFFICES ASSUME Init PROVE Inv
  OBVIOUS
<1>1. vr \in Receivers
  <2>1. /\ -1 \in -1 .. M - 1 /\ 0 \in SeqNums /\ -1 \in -1 .. 1 /\ 0 \in Int
        /\ <<>> \in Seq(SeqNums)
    BY ModulusAssumption, SMT DEF SeqNums
  <2>2. EmptyFrame \in FrameProcessors
    BY EmptyFrameHolds
  <2> QED
    BY <2>1, <2>2 DEF Init, Receivers
<1>2. FillsNewest /\ FlushedIfComplete /\ GivenIsFlushed
  BY EmptyFrameHolds DEF Init, FillsNewest, FlushedIfComplete, GivenIsFlushed
<1>3. SamplesOwnUnits /\ HeaderMatches
  BY DEF Init, SamplesOwnUnits, HeaderMatches, Of
<1>4. Accounted(vr, accounted, newest)
  <2>1. 0 % M = 0 /\ 0 \in 0 .. 0 /\ 0 - 0 <= MaxStall
    BY ModulusAssumption, StreamAssumption, SMT
  <2> QED
    BY <2>1 DEF Init, Accounted, Index
<1> QED
  BY <1>1, <1>2, <1>3, <1>4 DEF Init, Inv

\* A packet keeps the invariant, and what it sends to the decoder is newer than
\* what was sent before.
LEMMA PacketInv ==
  ASSUME Inv, NEW frame \in 1 .. Frames, NEW unit \in Units, NEW dec \in Decodings,
         AvPacket(frame, unit, dec)
  PROVE  Inv' /\ (Of("sample")' # {} => newest' > given)
<1> DEFINE t == Handled([v |-> vr, o |-> <<>>], frame, unit, dec)
           n == Max({newest, frame})
<1>1. /\ vr' = t.v /\ out' = t.o /\ newest' = n /\ switchAt' = switchAt
      /\ given' = IF Of("sample")' # {} THEN n ELSE given
      /\ accounted' = AccountsAll(n, accounted, t.o)
  BY DEF AvPacket, History
<1>2. /\ n \in Nat /\ n > 0 /\ n >= newest
      /\ t.v \in Receivers /\ t.v.frame_index_cur = Index(n)
      /\ HoldsOnly(t.v.frame_processor, n)
      /\ t.v.frame_index_prev # t.v.frame_index_cur => UnitsReceived(t.v.frame_processor) < Source
      /\ \A e \in Samples(t.o) : e.units = {n} /\ e.profile = ProfileOf(n)
      /\ Samples(t.o) # {} => given < n /\ t.v.frame_index_prev = t.v.frame_index_cur
      /\ given = n => t.v.frame_index_prev = t.v.frame_index_cur
      /\ Accounted(t.v, AccountsAll(n, accounted, t.o), n)
  BY HandledEffect DEF AvPacket
<1>3. Of("sample")' = Samples(t.o)
  BY <1>1 DEF Of, Samples
<1>4. given \in Nat /\ given <= newest /\ newest \in Nat
  BY DEF Inv, FillsNewest, GivenIsFlushed
<1> HIDE DEF t, n
<1>5. vr' \in Receivers /\ switchAt' \in SwitchFrames
  BY <1>1, <1>2 DEF Inv
<1>6. FillsNewest'
  <2>1. n # 0
    BY <1>2, SMT
  <2> QED
    BY <1>1, <1>2, <2>1 DEF FillsNewest, HoldsOnly, Index
<1>7. FlushedIfComplete'
  BY <1>1, <1>2 DEF FlushedIfComplete, UnitsReceived
<1>8. GivenIsFlushed'
  <2>1. CASE Samples(t.o) # {}
    BY <1>1, <1>2, <1>3, <2>1, SMT DEF GivenIsFlushed
  <2>2. CASE Samples(t.o) = {}
    <3>1. given' = given /\ given <= n
      BY <1>1, <1>2, <1>3, <1>4, <2>2, SMT
    <3> QED
      BY <1>1, <1>2, <1>4, <3>1 DEF GivenIsFlushed
  <2> QED
    BY <2>1, <2>2
<1>9. SamplesOwnUnits'
  BY <1>1, <1>2, <1>3 DEF SamplesOwnUnits
<1>10. HeaderMatches'
  <2>1. \A e \in Samples(t.o) : \A f \in e.units : e.profile = IF f < switchAt' THEN 0 ELSE 1
    BY <1>1, <1>2 DEF ProfileOf
  <2> QED
    BY <1>3, <2>1 DEF HeaderMatches, ProfileOf
<1>11. Of("sample")' # {} => newest' > given
  BY <1>1, <1>2, <1>3, <1>4, SMT
<1>12. Accounted(vr, accounted, newest)'
  BY <1>1, <1>2 DEF Accounted, Index
<1> QED
  BY <1>5, <1>6, <1>7, <1>8, <1>9, <1>10, <1>11, <1>12 DEF Inv

\* So does a step in which nothing happens.
LEMMA StutterInv == Inv /\ UNCHANGED vars => Inv'
<1> SUFFICES ASSUME Inv, UNCHANGED vars PROVE Inv'
  OBVIOUS
<1> USE DEF vars
<1>1. FillsNewest' /\ FlushedIfComplete' /\ GivenIsFlushed'
  BY DEF Inv, FillsNewest, FlushedIfComplete, GivenIsFlushed, HoldsOnly
<1>2. SamplesOwnUnits' /\ HeaderMatches'
  BY DEF Inv, SamplesOwnUnits, HeaderMatches, Of, ProfileOf
<1>3. Accounted(vr, accounted, newest)'
  BY DEF Inv, Accounted, Index
<1> QED
  BY <1>1, <1>2, <1>3 DEF Inv

\* The invariant holds at all times.
THEOREM Invariance == Spec => []Inv
<1>1. Inv /\ [Next]_vars => Inv'
  BY PacketInv, StutterInv DEF Next
<1> QED
  BY InitInv, <1>1, PTL DEF Spec

\* What is counted stays in bounds, and so do the numbers of frames.
Bounds == newest <= Frames /\ kept \subseteq 1 .. Frames /\ Sized(vr)

\* A packet keeps the bounds.
LEMMA PacketBounds ==
  ASSUME Inv, Bounds, NEW frame \in 1 .. Frames, NEW unit \in Units, NEW dec \in Decodings,
         AvPacket(frame, unit, dec)
  PROVE  Bounds'
<1> DEFINE t == Handled([v |-> vr, o |-> <<>>], frame, unit, dec)
           n == Max({newest, frame})
<1>1. /\ vr' = t.v /\ newest' = n
      /\ kept' \subseteq kept \cup {newest'}
  BY DEF AvPacket, History
<1>2. Sized(t.v) /\ n \in Nat /\ n > 0
  BY HandledEffect DEF AvPacket, Bounds
<1>3. n = IF newest >= frame THEN newest ELSE frame
  <2>1. newest \in Int /\ frame \in Int
    BY SMT DEF Inv, FillsNewest
  <2> QED
    BY <2>1, MaxOfTwo
<1> HIDE DEF t, n
<1>4. n <= Frames /\ n \in 1 .. Frames
  BY <1>2, <1>3, StreamAssumption, SMT DEF Bounds
<1>5. Sized(vr)'
  BY <1>1, <1>2 DEF Sized, Counted, Stored, Sources, FecUnits, None
<1> QED
  BY <1>1, <1>4, <1>5 DEF Bounds

\* The variables have their types, and frame_processor counts no more units than
\* a frame has, so that the number of erasures is never negative.
THEOREM TypeCorrect == Spec => []TypeOK
<1>1. Init => Bounds
  <2> SUFFICES ASSUME Init PROVE Bounds
    OBVIOUS
  <2>1. 0 <= Frames /\ 0 <= MaxRefs /\ Len(<<>>) = 0 /\ Source \in Nat /\ Fec \in Nat
    BY StreamAssumption, UnitsAssumption, SMT
  <2>2. \A k \in Nat : \A i \in 0 .. k : 0 <= i
    BY SMT
  <2>3. Counted(EmptyFrame)
    BY <2>1, <2>2, EmptyFrameHolds, StoredFinite DEF Counted
  <2> QED
    BY <2>1, <2>3 DEF Init, Bounds, Sized
<1>2. Inv /\ Bounds /\ [Next]_vars => Bounds'
  <2>1. Bounds /\ UNCHANGED vars => Bounds'
    BY DEF Bounds, vars, Sized, Counted, Stored, Sources, FecUnits, None
  <2> QED
    BY <2>1, PacketBounds DEF Next
<1>3. Inv /\ Bounds => TypeOK
  <2> SUFFICES ASSUME Inv, Bounds PROVE TypeOK
    OBVIOUS
  <2>1. /\ newest \in Nat /\ newest <= Frames /\ Frames \in Nat /\ given \in Nat /\ given <= newest
        /\ accounted \in Nat /\ accounted <= newest
    BY StreamAssumption DEF Inv, Bounds, FillsNewest, GivenIsFlushed, Accounted
  <2>2. newest \in 0 .. Frames /\ given \in 0 .. Frames /\ accounted \in 0 .. Frames /\ None \in 0 .. Frames
    BY <2>1, SMT DEF None
  <2>3. /\ vr.frame_index_cur \in -1 .. M - 1 /\ vr.frame_index_prev \in -1 .. M - 1
        /\ vr.frame_index_prev_complete \in SeqNums /\ vr.profile_cur \in -1 .. 1
        /\ vr.frame_processor \in FrameProcessors /\ vr.reference_frames \in Seq(SeqNums)
        /\ vr.frames_lost \in Int
    BY DEF Inv, Receivers
  <2>4. vr.frame_processor.slots \in [Slots -> 0 .. Frames]
    <3>1. \A i \in Slots : vr.frame_processor.slots[i] \in 0 .. Frames
      BY <2>2 DEF Inv, FillsNewest, HoldsOnly
    <3> QED
      BY <2>3, <3>1 DEF FrameProcessors
  <2>5. vr.frame_processor.sourceReceived \in 0 .. Source /\ vr.frame_processor.fecReceived \in 0 .. Fec
    <3>1. vr.frame_processor.sourceReceived \in Nat /\ vr.frame_processor.fecReceived \in Nat
      BY <2>3 DEF FrameProcessors
    <3>2. \A n \in Nat : \A c \in 0 .. n : \A k \in Nat : k <= c => k \in 0 .. n
      BY SMT
    <3>3. Counted(vr.frame_processor)
      BY DEF Bounds, Sized
    <3> QED
      BY <3>1, <3>2, <3>3, StoredFinite, UnitsAssumption DEF Counted
  <2>6. Range(vr.reference_frames) \subseteq SeqNums
    <3>1. \A i \in DOMAIN vr.reference_frames : vr.reference_frames[i] \in SeqNums
      BY <2>3, LenProperties, ElementOfSeq
    <3> QED
      BY <3>1 DEF Range
  <2> QED
    BY <2>2, <2>3, <2>4, <2>5, <2>6 DEF TypeOK, Bounds, Sized
<1> QED
  BY Invariance, <1>1, <1>2, <1>3, PTL DEF Spec

\* chiaki_video_receiver_av_packet gives the decoder frames that consist of units
\* of one frame, the one that the last packet belongs to.
THEOREM SamplesCorrect == Spec => []SamplesOwnUnits
<1>1. Inv => SamplesOwnUnits
  BY DEF Inv
<1> QED
  BY Invariance, <1>1, PTL

\* A sample is given to the decoder under the profile that it was encoded with.
THEOREM ProfilesCorrect == Spec => []HeaderMatches
<1>1. Inv => HeaderMatches
  BY DEF Inv
<1> QED
  BY Invariance, <1>1, PTL

\* No frame reaches the decoder twice or after a later one, although packets are
\* repeated and reordered and the numbers of frames wrap.
THEOREM OrderCorrect == Spec => SamplesInOrder
<1>1. Inv /\ [Next]_vars => [Of("sample")' # {} => newest' > given]_vars
  BY PacketInv DEF Next
<1> QED
  BY Invariance, <1>1, PTL DEF Spec, SamplesInOrder

\* Each frame before the newest was processed, reported to the console as corrupt
\* or dropped for want of its reference: flush_frame, the report of a gap and
\* frame_index_prev_complete lose no frame, across any number of wraps.
THEOREM LossCorrect == Spec => []LossIsReported
<1>1. Inv => LossIsReported
  <2> SUFFICES ASSUME Inv PROVE LossIsReported
    OBVIOUS
  <2>1. /\ newest \in Nat /\ accounted \in Nat /\ newest <= accounted + 1 /\ accounted >= newest - 1
    BY SMT DEF Inv, FillsNewest, Accounted
  <2>2. PICK c \in 0 .. newest :
          /\ vr.frame_index_prev_complete = Index(c)
          /\ c = newest => accounted = newest
          /\ newest - c <= MaxStall + Skip
    <3>1. MaxStall \in Nat /\ Skip \in Nat
      BY StreamAssumption
    <3>2. \A c \in 0 .. newest : newest - c <= MaxStall => newest - c <= MaxStall + Skip
      BY <2>1, <3>1, SMT
    <3> QED
      BY <3>2 DEF Inv, Accounted
  <2>3. c \in Nat /\ c <= newest /\ newest - c < Half /\ newest - newest < Half /\ -1 \notin SeqNums
    BY <2>1, <2>2, HalfFacts, StreamAssumption, SMT DEF SeqNums
  <2>4. Index(c) \in SeqNums /\ (Index(newest) = Index(c) <=> newest = c)
    BY <2>1, <2>3, FrameAgo, IndexBefore, FrameOrder
  <2>5. vr.frame_index_prev_complete = vr.frame_index_cur => accounted = newest
    BY <2>2, <2>3, <2>4 DEF Inv, FillsNewest
  <2> QED
    BY <2>1, <2>5 DEF LossIsReported
<1> QED
  BY Invariance, <1>1, PTL
=============================================================================
