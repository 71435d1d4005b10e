---------------------------- MODULE AudioReceiver ----------------------------
(***************************************************************************)
(* lib/src/audioreceiver.c, pscloud_audio_reassembler.c, packetstats.c and *)
(* congestioncontrol.c: the Takion thread turns audio packets into frames  *)
(* for the sink and counts them; the congestion thread reports the counts  *)
(* to the console every 200 ms and resets them.                            *)
(*                                                                         *)
(* A console packet carries a frame and, behind it, the Fec frames before  *)
(* it.  A cloud packet carries one unit of a generation of Source frames   *)
(* and Fec parity units; its number counts packets.  Content is the true   *)
(* number of a frame, or Garbage if FEC mixed two generations.  The        *)
(* network loses, repeats and swaps neighbouring packets.  Malformed       *)
(* packets and failing allocations are left out.                           *)
(***************************************************************************)
EXTENDS SeqNum, Sequences, FiniteSets

CONSTANTS Source, Fec,      \* units of a generation
          Packets,          \* bound: packets of the stream
          MaxFaults,        \* bound: packets lost, repeated or swapped
          MaxReports,       \* bound: reports of the congestion thread
          Starts,           \* numbers the first packet may carry
          Wide,             \* stands for 2^64, the width of the counters
          MaxLossPercent    \* packet_loss_max

\* A frame and the one before it are less than half of the circle apart, and so
\* are the copies a late packet carries.
AudioAssumption ==
  /\ ModulusAssumption /\ Starts \subseteq Nat /\ Packets \in Nat /\ Fec \in Nat
  /\ MaxFaults \in Nat /\ MaxFaults + 1 < Half /\ MaxFaults + Fec <= Half

Garbage == -1
Total == Source + Fec
Indices == 0 .. Source - 1

VARIABLES cloud, start,     \* the kind of session and the number of its first packet
          next, held, last, faults, kinds,     \* the network
          asm,              \* the ChiakiPSCLOUDAudioReassembler
          rx,               \* the ChiakiAudioReceiver
          calls,            \* frames and counts the current packet still gives rise to
          played,           \* what the sink got
          stats, old,       \* the ChiakiPacketStats; seq_received as push_seq read it, or -1
          cc,               \* the congestion thread: "run", "stopping", "ended"
          report,           \* the last report sent: received, lost
          pushed, counted, reports  \* history: frames counted, counts reported, reports

net == <<cloud, start, next, held, last, faults, kinds>>
statVars == <<stats, old, cc, report, pushed, counted, reports>>
vars == <<net, asm, rx, calls, played, statVars>>

-----------------------------------------------------------------------------
(* The packets: number k of the stream, from 0                              *)

Index(k) == (start + k) % M
UnitOf(k) == k % Total
ContentOf(k) == (k \div Total) * Source + UnitOf(k)
GenerationOf(k) == k \div Total

\* A call of chiaki_audio_receiver_frame and the number counted after it, if any.
Frame(index, content, count) == [index |-> index, content |-> content, count |-> count]
Uncounted == -1

\* How many of the older copies are taken: those from before the first packet are
\* the same frame again and are skipped, as long as no number was in the upper half.
CopiesKept(k) ==
  IF ~(rx.startup /\ Index(k) <= Half) \/ Index(k) > Fec THEN Fec
  ELSE IF Index(k) = 0 THEN 0 ELSE Index(k) - 1

\* The frames of a console packet: its own, then the copies, the oldest first.
ConsoleCalls(k) ==
  LET copies == CopiesKept(k)
      Age(i) == IF i = 1 THEN 0 ELSE copies + 2 - i
      Count(i) == IF i = copies + 1 THEN Index(k) ELSE Uncounted
  IN [i \in 1 .. copies + 1 |-> Frame((Index(k) - Age(i)) % M, k - Age(i), Count(i))]

-----------------------------------------------------------------------------
(* The reassembler.  asm.unit[u] is the packet unit u came from, or -1      *)

Received == {u \in 0 .. Total - 1 : asm.unit[u] >= 0}
SourceReceived == Received \cap Indices

NewGeneration(k) ==
  [flushed |-> FALSE, emitted |-> FALSE, first |-> Index(k), unit |-> [u \in 0 .. Total - 1 |-> -1]]

StartsGeneration(k, stale) == \/ asm.flushed
                              \/ stale
                              \/ UnitOf(k) = 0
                              \/ Cardinality(Received) >= Total

Recoverable == SourceReceived # Indices /\ Cardinality(Received) >= Source

\* What is in slot i of the buffer when it is emitted.
Contents(i) ==
  LET gens == {GenerationOf(asm.unit[u]) : u \in Received}
  IN IF i \in Received THEN ContentOf(asm.unit[i])
     ELSE IF Cardinality(gens) = 1 THEN (CHOOSE g \in gens : TRUE) * Source + i
     ELSE Garbage

EmitAll(a, contents) ==
  LET Number(i) == (a.first + i) % M
      Unit(i) == IF i \in DOMAIN contents THEN <<Frame(Number(i), contents[i], Number(i))>> ELSE <<>>
      f[i \in 0 .. Source] == IF i = 0 THEN <<>> ELSE f[i - 1] \o Unit(i - 1)
  IN f[Source]

\* The generation at hand is flushed before another one starts.
Flushed == IF asm.flushed \/ asm.emitted THEN <<>>
           ELSE EmitAll(asm, [i \in (IF Recoverable THEN Indices ELSE SourceReceived) |-> Contents(i)])

\* Unit k goes into the generation a; a unit that is there already is refused.
Put(a, k, before) ==
  LET u == UnitOf(k)
      b == [a EXCEPT !.unit[u] = k]
      complete == ~a.emitted /\ \A i \in Indices : b.unit[i] >= 0
      contents == [i \in Indices |-> ContentOf(b.unit[i])]
  IN IF a.unit[u] >= 0
     THEN asm' = a /\ calls' = before
     ELSE /\ asm' = [b EXCEPT !.emitted = a.emitted \/ complete]
          /\ calls' = IF complete THEN before \o EmitAll(b, contents) ELSE before

PutPacket(k) ==
  \E stale \in {FALSE, ~asm.flushed} :
    IF StartsGeneration(k, stale) THEN Put(NewGeneration(k), k, Flushed) ELSE Put(asm, k, <<>>)

-----------------------------------------------------------------------------
Init ==
  /\ cloud \in BOOLEAN /\ start \in Starts
  /\ next = 0 /\ held = -1 /\ last = -1 /\ faults = 0 /\ kinds = {}
  /\ asm = [flushed |-> TRUE, emitted |-> FALSE, first |-> 0, unit |-> [u \in 0 .. Total - 1 |-> -1]]
  /\ rx = [valid |-> FALSE, prev |-> 0, startup |-> TRUE]
  /\ calls = <<>> /\ played = <<>>
  /\ stats = [min |-> 0, max |-> 0, received |-> 0] /\ old = -1
  /\ cc = "run" /\ report = [received |-> 0, lost |-> 0]
  /\ pushed = 0 /\ counted = 0 /\ reports = 0

AvPacket(k) ==
  /\ calls = <<>> /\ last' = k
  /\ \/ /\ cloud /\ PutPacket(k) /\ UNCHANGED rx
     \/ /\ ~cloud
        /\ calls' = ConsoleCalls(k)
        /\ rx' = [rx EXCEPT !.startup = @ /\ Index(k) <= Half]
        /\ UNCHANGED asm
  /\ UNCHANGED <<cloud, start, played, statVars>>

Arrives == /\ held = -1 /\ next < Packets /\ next' = next + 1
           /\ AvPacket(next) /\ UNCHANGED <<held, faults, kinds>>
Swapped == /\ held = -1 /\ next + 1 < Packets /\ faults < MaxFaults
           /\ next' = next + 2 /\ held' = next /\ faults' = faults + 1
           /\ kinds' = kinds \cup {"swap"}
           /\ AvPacket(next + 1)
Overtaken == /\ held >= 0 /\ held' = -1
             /\ AvPacket(held) /\ UNCHANGED <<next, faults, kinds>>
Repeated == /\ last >= 0 /\ held = -1 /\ faults < MaxFaults /\ faults' = faults + 1
            /\ kinds' = kinds \cup {"repeat"}
            /\ AvPacket(last) /\ UNCHANGED <<next, held>>
Lost == /\ held = -1 /\ next < Packets /\ faults < MaxFaults
        /\ next' = next + 1 /\ faults' = faults + 1 /\ kinds' = kinds \cup {"loss"}
        /\ UNCHANGED <<cloud, start, held, last, asm, rx, calls, played, statVars>>

\* mutant: every frame is taken
AcceptAny(index) == TRUE

Accept(index) == rx.valid => Gt(index, rx.prev)

\* The frame, and, if a count follows, push_seq's read of seq_received.
AudioFrame ==
  /\ calls # <<>> /\ old = -1
  /\ LET call == Head(calls)
     IN /\ IF Accept(call.index)
           THEN /\ rx' = [rx EXCEPT !.valid = TRUE, !.prev = call.index]
                /\ played' = Append(played, call.content)
           ELSE UNCHANGED <<rx, played>>
        /\ \/ call.count = Uncounted /\ calls' = Tail(calls) /\ UNCHANGED old
           \/ call.count # Uncounted /\ old' = stats.received /\ UNCHANGED calls
  /\ UNCHANGED <<net, asm, stats, cc, report, pushed, counted, reports>>

-----------------------------------------------------------------------------
(* Counting.  push_seq takes no mutex: a report may fall between its read   *)
(* and its write of seq_received                                            *)

PushSeq(index) == [stats EXCEPT !.received = old + 1, !.max = IF Gt(index, @) THEN index ELSE @]

PushSeqWrite ==
  /\ old >= 0 /\ old' = -1
  /\ stats' = PushSeq(Head(calls).count)
  /\ calls' = Tail(calls) /\ pushed' = pushed + 1
  /\ UNCHANGED <<net, asm, rx, played, cc, report, counted, reports>>

\* chiaki_packet_stats_get: the difference of two 16-bit numbers, in 64 bits.
SeqDiff == (stats.max - stats.min) % Wide
SeqLost == IF stats.received > SeqDiff THEN SeqDiff ELSE SeqDiff - stats.received

\* What the congestion thread tells the console, its loss capped.
Report(received, lost) ==
  LET total == (received + lost) % Wide
      most == (total * MaxLossPercent) \div 100
  IN IF lost * 100 > total * MaxLossPercent
     THEN [received |-> (total - most) % M, lost |-> most % M]
     ELSE [received |-> received % M, lost |-> lost % M]

Reset == [stats EXCEPT !.min = stats.max, !.received = 0]

CongestionReport ==
  /\ cc = "run" /\ reports < MaxReports /\ reports' = reports + 1
  /\ report' = Report(stats.received, SeqLost)
  /\ counted' = counted + stats.received
  /\ stats' = Reset
  /\ UNCHANGED <<net, asm, rx, calls, played, old, cc, pushed>>

CongestionStop == /\ cc = "run" /\ cc' = "stopping"
                  /\ UNCHANGED <<net, asm, rx, calls, played, stats, old, report, pushed, counted, reports>>
CongestionThreadEnds == /\ cc = "stopping" /\ cc' = "ended"
                        /\ UNCHANGED <<net, asm, rx, calls, played, stats, old, report, pushed, counted, reports>>

Next == \/ Arrives \/ Swapped \/ Overtaken \/ Repeated \/ Lost
        \/ AudioFrame \/ PushSeqWrite
        \/ CongestionReport \/ CongestionStop \/ CongestionThreadEnds

Spec == Init /\ [][Next]_vars

-----------------------------------------------------------------------------
TypeOK ==
  /\ rx.prev \in SeqNums /\ stats.max \in SeqNums /\ asm.first \in SeqNums
  /\ \A u \in 0 .. Total - 1 : asm.unit[u] >= 0 => UnitOf(asm.unit[u]) = u
  /\ old >= 0 => calls # <<>> /\ Head(calls).count # Uncounted

\* The frames of the sink never go back in the order the console made them.  A frame
\* that FEC rebuilt from two generations is noise and has no place in the order.
PlayedInOrder == \A i, j \in DOMAIN played :
                   i < j /\ played[i] # Garbage /\ played[j] # Garbage => played[i] <= played[j]

\* The order of a console, whatever the network loses, repeats and swaps.
ConsoleInOrder == ~cloud => PlayedInOrder

\* That of the cloud, for generations of two frames and one parity unit, if the
\* network only loses or only repeats; a generation that is flushed for its age may
\* play a frame twice. (With three frames, a unit of the next generation, whose first
\* was lost, fills a hole of this one and is played between its frames; with two
\* parity units, these alone play again what a stale generation played.)
CloudInOrder == cloud /\ Cardinality(kinds \cap {"repeat", "loss"}) <= 1 /\ "swap" \notin kinds
                  => PlayedInOrder

InOrder == ConsoleInOrder /\ CloudInOrder

\* A report that races with push_seq may count frames twice but loses none:
\* what was reported and what is still counted is at least what was pushed.
NoneUncounted == counted + stats.received >= pushed

Safe == InOrder /\ NoneUncounted

-----------------------------------------------------------------------------
(* Why: what push_seq read is what it still counts; and of a console, the    *)
(* newest frame of a packet goes first, so its copies come too late          *)

Newest == played[Len(played)]

\* The frame of the last packet is the next to be played.
Fresh == old = -1 /\ calls # <<>> /\ Head(calls).content = last

Counted ==
  /\ DOMAIN stats = {"min", "max", "received"}
  /\ counted \in Nat /\ pushed \in Nat /\ stats.received \in Nat /\ old \in Nat \cup {-1}
  /\ old >= 0 => counted + old >= pushed

\* Faults are all that lies between the last packet and the newest one.
Network ==
  /\ start \in Nat /\ next \in Nat /\ faults \in 0 .. MaxFaults
  /\ last \in Int /\ last >= -1 /\ last < next /\ next - last <= faults + 1
  /\ held >= -1 /\ (held >= 0 => held = next - 2 /\ faults >= 1)

\* A call that is for the copy of the frame as many before that of the last packet.
CopyOf(call, age) == call.content = last - age /\ call.index = (Index(last) - age) % M

CallsOfPacket ==
  /\ calls \in Seq([index : Int, content : Int, count : Int])
  /\ calls # <<>> => last >= 0
  /\ old >= 0 => calls # <<>>
  /\ \A i \in DOMAIN calls : \E age \in 0 .. Fec : CopyOf(calls[i], age) /\ (i > 1 => age > 0)

Played ==
  /\ DOMAIN rx = {"valid", "prev", "startup"} /\ rx.valid = (played # <<>>)
  /\ played \in Seq(Int) /\ \A i, j \in DOMAIN played : i < j => played[i] < played[j]
  /\ played # <<>> => /\ rx.prev = Index(Newest) /\ Newest >= 0
                      /\ Newest < next /\ next - Newest <= faults + 2
  /\ last >= 0 /\ ~Fresh => played # <<>> /\ Newest >= last

Inv == Counted /\ NoneUncounted /\ (~cloud => Network /\ CallsOfPacket /\ Played)

\* What packetstats.c:71 intends with "overflow on purpose": the loss of a
\* window is less than the circle of sequence numbers.
LossFitsCircle == SeqLost < M
=============================================================================
