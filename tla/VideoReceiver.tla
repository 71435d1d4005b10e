---------------------------- MODULE VideoReceiver ----------------------------
(***************************************************************************)
(* lib/src/videoreceiver.c: the Takion thread hands each video packet to   *)
(* chiaki_video_receiver_av_packet, which puts frames together, reports    *)
(* gaps to the console, keeps the references right and gives samples to    *)
(* the decoder.                                                            *)
(*                                                                         *)
(* Frames are numbered 1, 2, ... by the console, and a packet carries the  *)
(* number modulo M (2^16 in the code).  The network drops, reorders and    *)
(* repeats packets.  The variable vr is the C structure: its fields have   *)
(* the C names; out lists what the handling of the last packet sent to the *)
(* decoder ("header", "sample") and to the console ("corrupt").  The       *)
(* packet statistics are left out, and so is cumulative_frames_lost: it    *)
(* sums up the "lost" fields of the samples.                               *)
(*                                                                         *)
(* The frame processor, lib/src/frameprocessor.c, has the units of the     *)
(* frame that is being filled.  Every frame has Source source units and    *)
(* Fec units of forward error correction; sizes and padding are left out,  *)
(* packets are well formed and memory suffices, so that alloc_frame        *)
(* succeeds.  A slot holds the frame whose unit is stored in it, or None.  *)
(* The flag "flushed" is only ever set before the first frame, and left    *)
(* out.                                                                    *)
(***************************************************************************)
EXTENDS SeqNum, SequencesExt

CONSTANTS Source,       \* source units of a frame
          Fec,          \* FEC units of a frame, possibly none
          Frames,       \* bound: frames of the stream
          Skip, Late,   \* bounds: frames a packet may be ahead of or behind the newest
          SwitchFrames, \* bound: the frames at which the profile may change
          MaxStall,     \* bound: frames since the last complete one if the decoder fails
          MaxRefs       \* reference frames that are kept, 16 in the code

ASSUME UnitsAssumption == Source \in Nat \ {0} /\ Fec \in Nat

\* Packets are less than half the circle away from the newest frame: a packet
\* that is later or earlier cannot be told from one on the other side. So is the
\* last complete frame.
ASSUME StreamAssumption ==
         /\ Frames \in Nat /\ MaxRefs \in Nat \ {0}
         /\ Skip \in Nat /\ Skip < Half
         /\ Late \in Nat /\ Late < Half
         /\ MaxStall \in Nat /\ MaxStall + Skip < Half

-----------------------------------------------------------------------------
(* The frame processor                                                      *)

None == 0

\* The code always expects one FEC unit, sent or not.
FecExpected == IF Fec < 1 THEN 1 ELSE Fec

Sources == 0 .. Source - 1
Slots   == 0 .. Source + FecExpected - 1
Units   == 0 .. Source + Fec - 1

EmptyFrame == [slots |-> [i \in Slots |-> None], sourceReceived |-> 0, fecReceived |-> 0]

\* mutant: the slots of the last frame stay
AllocFrameKeepsSlots(fp) == [fp EXCEPT !.sourceReceived = 0, !.fecReceived = 0]

AllocFrame(fp) == EmptyFrame

\* mutant: a repeated unit counts again
PutUnitTwice(fp, frame, unit) ==
  [slots          |-> [fp.slots EXCEPT ![unit] = frame],
   sourceReceived |-> fp.sourceReceived + (IF unit < Source THEN 1 ELSE 0),
   fecReceived    |-> fp.fecReceived + (IF unit < Source THEN 0 ELSE 1)]

PutUnit(fp, frame, unit) ==
  IF fp.slots[unit] # None THEN fp
  ELSE [slots          |-> [fp.slots EXCEPT ![unit] = frame],
        sourceReceived |-> fp.sourceReceived + (IF unit < Source THEN 1 ELSE 0),
        fecReceived    |-> fp.fecReceived + (IF unit < Source THEN 0 ELSE 1)]

FlushPossible(fp) == fp.sourceReceived + fp.fecReceived >= Source

\* mutant: one erasure is overlooked
ErasuresButOne(fp) == (Source + FecExpected) - (fp.sourceReceived + fp.fecReceived) - 1

\* The code is maximum distance separable: it restores as many units as there
\* are FEC units.
Erasures(fp) == (Source + FecExpected) - (fp.sourceReceived + fp.fecReceived)

FlushResult(fp) ==
  IF fp.sourceReceived >= Source THEN "success"
  ELSE IF Erasures(fp) <= FecExpected THEN "fec_success" ELSE "fec_failed"

\* The frames whose units make up what a flush returns.
Contents(fp) ==
  {fp.slots[i] : i \in IF FlushResult(fp) = "success" THEN Sources ELSE Slots} \ {None}

\* A successful FEC fills the missing source slots.
Flush(fp) ==
  IF FlushResult(fp) # "fec_success" THEN fp
  ELSE [fp EXCEPT !.slots = [i \in Slots |->
          IF i \in Sources /\ fp.slots[i] = None
          THEN CHOOSE frame \in Contents(fp) : TRUE ELSE fp.slots[i]]]

-----------------------------------------------------------------------------

VARIABLES vr,        \* the ChiakiVideoReceiver
          out,       \* what the last packet sent to the decoder and the console
          newest,    \* the newest frame of which a packet has arrived
          switchAt,  \* the console switches the profile at this frame
          given,     \* history: the last frame given to the decoder
          kept,      \* history: the recent frames the decoder has processed
          accounted  \* history: frames up to here were processed, reported or
                     \* dropped for want of a reference

vars == <<vr, out, newest, switchAt, given, kept, accounted>>

Index(frame) == frame % M

ProfileOf(frame) == IF frame < switchAt THEN 0 ELSE 1

\* What the decoder does with a sample (external): the slice refers back by
\* ref + 1 frames or (-1) to none, can be made to refer to another, and is taken.
Decodings == [ref : -1 .. MaxRefs - 1, rewrite : BOOLEAN, taken : BOOLEAN]

Init ==
  /\ vr = [frame_index_cur |-> -1, frame_index_prev |-> -1, frame_index_prev_complete |-> 0,
           profile_cur |-> -1, frame_processor |-> EmptyFrame,
           reference_frames |-> <<>>, frames_lost |-> 0]
  /\ out = <<>> /\ newest = 0 /\ switchAt \in SwitchFrames
  /\ given = 0 /\ kept = {} /\ accounted = 0

-----------------------------------------------------------------------------
(* The reference frames, newest first                                       *)

AddRefFrame(refs, index) ==
  IF Len(refs) < MaxRefs THEN <<index>> \o refs
  ELSE <<index>> \o SubSeq(refs, 1, MaxRefs - 1)


HaveRefFrame(v, back) == Contains(v.reference_frames, Add(v.frame_index_cur, -back - 1))

\* How far back the flushed frame refers in the end: -1 to none, MaxRefs if
\* its reference is missing and it cannot be made to refer to another.
Reference(v, dec) ==
  LET others == {i \in dec.ref + 1 .. MaxRefs - 1 : HaveRefFrame(v, i)} IN
  IF dec.ref = -1 \/ HaveRefFrame(v, dec.ref) THEN dec.ref
  ELSE IF others # {} /\ dec.rewrite THEN Min(others)
  ELSE MaxRefs

-----------------------------------------------------------------------------
(* The parts of chiaki_video_receiver_av_packet.  Each takes and returns    *)
(* the receiver and the output so far, as a record [v, o].                  *)

NextExpected(v) == Add(v.frame_index_prev_complete, 1)

Corrupt(from, to) == [type |-> "corrupt", from |-> from, to |-> to]

FecFailed(s) ==
  LET v == s.v IN
  [v |-> [v EXCEPT !.frames_lost = @ + v.frame_index_cur - NextExpected(v) + 1,
                   !.frame_index_prev = v.frame_index_cur,
                   !.frame_index_prev_complete = v.frame_index_cur],
   o |-> Append(s.o, Corrupt(NextExpected(v), v.frame_index_cur))]

ReferenceMissing(s) ==
  LET v == s.v IN
  [v |-> [v EXCEPT !.frames_lost = @ + 1,
                   !.frame_index_prev = v.frame_index_cur,
                   !.frame_index_prev_complete = v.frame_index_cur],
   o |-> Append(s.o, [type |-> "dropped"])]

Sample(s, dec) ==
  LET v == s.v IN
  [v |-> [v EXCEPT
            !.frames_lost = 0,
            !.frame_index_prev = v.frame_index_cur,
            !.frame_index_prev_complete = IF dec.taken THEN v.frame_index_cur ELSE @,
            !.reference_frames = IF dec.taken THEN AddRefFrame(@, v.frame_index_cur) ELSE @],
   o |-> Append(s.o, [type |-> "sample", units |-> Contents(v.frame_processor),
                      profile |-> v.profile_cur, lost |-> v.frames_lost,
                      ref |-> Reference(v, dec), taken |-> dec.taken])]

\* chiaki_video_receiver_flush_frame.
FlushFrame(s, dec) ==
  LET result  == FlushResult(s.v.frame_processor)
      flushed == [s EXCEPT !.v.frame_processor = Flush(@)]
  IN IF result = "fec_failed" THEN FecFailed(flushed)
     ELSE IF Reference(s.v, dec) = MaxRefs THEN ReferenceMissing(flushed)
     ELSE Sample(flushed, dec)

SwitchProfile(s, profile) ==
  IF s.v.profile_cur = profile THEN s
  ELSE [v |-> [s.v EXCEPT !.profile_cur = profile],
        o |-> Append(s.o, [type |-> "header", profile |-> profile])]

FlushLast(s, dec) ==
  IF s.v.frame_index_cur >= 0 /\ s.v.frame_index_prev # s.v.frame_index_cur
  THEN FlushFrame(s, dec) ELSE s

\* mutant: gaps are counted from the last frame, complete or not
ReportGapFromPrev(s, index) ==
  IF Gt(index, Add(s.v.frame_index_prev, 1)) /\ ~(index = 1 /\ s.v.frame_index_cur < 0)
  THEN [s EXCEPT !.o = Append(@, Corrupt(Add(s.v.frame_index_prev, 1), Add(index, -1)))]
  ELSE s

ReportGap(s, index) ==
  IF Gt(index, NextExpected(s.v)) /\ ~(index = 1 /\ s.v.frame_index_cur < 0)
  THEN [s EXCEPT !.o = Append(@, Corrupt(NextExpected(s.v), Add(index, -1)))]
  ELSE s

NextFrame(s, index, dec) ==
  IF s.v.frame_index_cur < 0 \/ Gt(index, s.v.frame_index_cur)
  THEN [ReportGap(FlushLast(s, dec), index) EXCEPT
          !.v.frame_index_cur = index,
          !.v.frame_processor = AllocFrame(@)]
  ELSE s

\* mutant: also a frame that was flushed before
FlushIfPossibleAgain(s, dec) ==
  IF FlushPossible(s.v.frame_processor) THEN FlushFrame(s, dec) ELSE s

FlushIfPossible(s, dec) ==
  IF /\ s.v.frame_index_cur # s.v.frame_index_prev
     /\ FlushPossible(s.v.frame_processor)
  THEN FlushFrame(s, dec) ELSE s

OldFrame(v, index) == v.frame_index_cur >= 0 /\ Lt(index, v.frame_index_cur)

StoreUnit(s, frame, unit) == [s EXCEPT !.v.frame_processor = PutUnit(@, frame, unit)]

\* A frame that is flushed since the next one begins has too few units to reach
\* the decoder, so one decoding suffices for both flushes.
Received(s, frame, unit, dec) ==
  FlushIfPossible(
    StoreUnit(NextFrame(SwitchProfile(s, ProfileOf(frame)), Index(frame), dec), frame, unit),
    dec)

Handled(s, frame, unit, dec) ==
  IF OldFrame(s.v, Index(frame)) THEN s ELSE Received(s, frame, unit, dec)

-----------------------------------------------------------------------------
(* What the packet sent                                                     *)

Of(type) == {out[i] : i \in {j \in DOMAIN out : out[j].type = type}}

\* The frame that an index stands for, given a frame that is not older.
FrameOf(index, n) == n - Dist(index, Index(n))

Accounts(n, upTo, event) ==
  CASE event.type = "corrupt" ->
         IF FrameOf(event.from, n) <= upTo + 1 THEN Max({upTo, FrameOf(event.to, n)}) ELSE upTo
    [] event.type = "dropped" \/ (event.type = "sample" /\ event.taken) ->
         IF upTo >= n - 1 THEN Max({upTo, n}) ELSE upTo
    [] OTHER -> upTo

\* A packet sends four events at most: a header, what became of the last frame, a
\* gap, and what becomes of its own frame.
AccountsAt(i, n, upTo, o) == IF i \in DOMAIN o THEN Accounts(n, upTo, o[i]) ELSE upTo
AccountsAll(n, upTo, o) ==
  AccountsAt(4, n, AccountsAt(3, n, AccountsAt(2, n, AccountsAt(1, n, upTo, o), o), o), o)

History ==
  /\ given' = IF Of("sample")' # {} THEN newest' ELSE given
  /\ kept' = {f \in kept \cup {n \in {newest'} : \E e \in Of("sample")' : e.taken} :
                f >= newest' - MaxRefs}
  /\ accounted' = AccountsAll(newest', accounted, out')

AvPacket(frame, unit, dec) ==
  /\ frame \in newest - Late .. newest + Skip
  /\ dec.taken \/ Dist(vr.frame_index_prev_complete, Index(frame)) <= MaxStall
  /\ LET s == Handled([v |-> vr, o |-> <<>>], frame, unit, dec) IN
       vr' = s.v /\ out' = s.o
  /\ newest' = Max({newest, frame})
  /\ UNCHANGED switchAt
  /\ History

Next == \E frame \in 1 .. Frames, unit \in Units, dec \in Decodings : AvPacket(frame, unit, dec)

Spec == Init /\ [][Next]_vars

-----------------------------------------------------------------------------

\* Every variable has its type, and no frame has more units than it can have.
TypeOK ==
  /\ vr.frame_index_cur \in -1 .. M - 1 /\ vr.frame_index_prev \in -1 .. M - 1
  /\ vr.frame_index_prev_complete \in SeqNums /\ vr.profile_cur \in -1 .. 1
  /\ vr.frame_processor.slots \in [Slots -> 0 .. Frames]
  /\ vr.frame_processor.sourceReceived \in 0 .. Source
  /\ vr.frame_processor.fecReceived \in 0 .. Fec
  /\ Len(vr.reference_frames) <= MaxRefs /\ Range(vr.reference_frames) \subseteq SeqNums
  /\ vr.frames_lost \in Int
  /\ newest \in 0 .. Frames /\ given \in 0 .. Frames /\ accounted \in 0 .. Frames
  /\ kept \subseteq 1 .. Frames

\* What the decoder gets as a frame consists of units of that frame, however
\* packets of several frames were lost, repeated and reordered.
SamplesOwnUnits == \A e \in Of("sample") : e.units = {newest}

\* The decoder gets no frame twice and none after a later one.
SamplesInOrder == [][Of("sample")' # {} => newest' > given]_vars

\* Each frame before the one that is being filled was processed by the decoder,
\* reported to the console as corrupt, or dropped since its reference was
\* missing, across the wrap of the frame numbers.
LossIsReported ==
  /\ accounted >= newest - 1
  /\ vr.frame_index_prev_complete = vr.frame_index_cur => accounted = newest


\* The decoder has the header of the profile that a sample was encoded with,
\* although the header is sent when the first packet of a profile arrives,
\* before the last frame of the old one is flushed.
HeaderMatches ==
  \A e \in Of("sample") : \A frame \in e.units : e.profile = ProfileOf(frame)
=============================================================================
