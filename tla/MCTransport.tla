----------------------------- MODULE MCTransport -----------------------------
\* What carries the stream and the input, each part on a small instance. They
\* share no state here: `part` names the one that runs.
EXTENDS Integers, FiniteSets, Sequences, TLAPS, FiniteSetTheorems

CONSTANTS Parts,                              \* the parts that are checked
          AudioCircle, Source, Fec, AudioPackets, MaxFaults, MaxReports, AudioStarts, Wide,
          MaxLossPercent,                     \* of AudioReceiver; AudioCircle is its M
          Hold, Pulse, MaxWait, HistorySize,  \* of FeedbackSender
          ChunkCells, Chunks, Cells, MaxAsk,  \* of KeyStream; Cells is its MaxPos
          Circle, MaxPos, GmacRefresh, Jitter, \* of KeyPosition; Circle is its M
          RudpCircle, RudpThreads, FirstCounter, Messages, Tries, RudpSize, RudpTries, \* of Rudp
          DataThreads, AckThread, CongestionThread, Sizes, AckSize, CongestionSize, FeedbackSizes,
          MicSize, Block, SizeMax, MaxSends, MaxFrames, MaxFailures, \* of TakionSending
          BufferCircle, BufferThreads, FirstNumber, BufferSends, BufferSize, BufferTries,
          DueAge                              \* of TakionSendBuffer

VARIABLE part \* the part that runs; the others keep their initial state
VARIABLES cloud, start, next, held, last, faults, kinds, asm, rx, calls, played, stats, old, cc, report,
          audio_pushed, counted, reports
VARIABLES key_buf, populated, key_pos_min, start_offset, last_key_pos, thread, chunk, stop, got
VARIABLES key_state, widened, key_gmac_index_current, mac
VARIABLES phase, tries, answers, asked, counter, rudp_sender, packets, victim, rudp_received, acks, accepted,
          rudp_gaveUp, sentAs
VARIABLES crypt, key_pos_local, seq_num_local, at, hand, wire, failures, frames, framea, frameb
VARIABLES slots, count, buffer_should_stop, resend, fini, buffer_sender, nextSeq, sent, buffer_received,
          refused, buffer_waited, buffer_gaveUp
VARIABLES run, owner, feedback_pushed, feedback_sender, feedback_waited, feedback_should_stop,
          controller_state_changed, controller_state_raw, controller_state, controller_state_prev,
          chord_just_fired, ps_chord, history_buf, lost, console, heldSince, armed, engaged

\* Audio packets, their counts and the congestion reports.
Audio == INSTANCE AudioReceiver WITH
  M <- AudioCircle, Packets <- AudioPackets, Starts <- AudioStarts, pushed <- audio_pushed
AudioVars == <<cloud, start, next, held, last, faults, kinds, asm, rx, calls, played, stats, old, cc, report,
    audio_pushed, counted, reports>>

\* The thread that makes the key stream ahead of its use.
Keys == INSTANCE KeyStream WITH
  MaxPos <- Cells
KeysVars == <<key_buf, populated, key_pos_min, start_offset, last_key_pos, thread, chunk, stop, got>>

\* The position of a packet in the key stream, and the key of its MAC.
Position == INSTANCE KeyPosition WITH
  M <- Circle
PositionVars == <<key_state, widened, key_gmac_index_current, mac>>

\* The handshake and the control messages over RUDP, and their send buffer.
Rudp == INSTANCE Rudp WITH
  M <- RudpCircle, Senders <- RudpThreads, First <- FirstCounter, Size <- RudpSize, MaxTries <- RudpTries,
  sender <- rudp_sender, received <- rudp_received, gaveUp <- rudp_gaveUp
RudpVars == <<phase, tries, answers, asked, counter, rudp_sender, packets, victim, rudp_received, acks,
    accepted, rudp_gaveUp, sentAs>>

\* The threads that send over Takion.
Sending == INSTANCE TakionSending
SendingVars == <<crypt, key_pos_local, seq_num_local, at, hand, wire, failures, frames, framea, frameb>>

\* Packets that wait for their acknowledgement.
SendBuffer == INSTANCE TakionSendBuffer WITH
  M <- BufferCircle, Senders <- BufferThreads, First <- FirstNumber, MaxSends <- BufferSends,
  Size <- BufferSize, MaxTries <- BufferTries,
  should_stop <- buffer_should_stop, sender <- buffer_sender, received <- buffer_received,
  waited <- buffer_waited, gaveUp <- buffer_gaveUp
SendBufferVars == <<slots, count, buffer_should_stop, resend, fini, buffer_sender, nextSeq, sent,
    buffer_received, refused, buffer_waited, buffer_gaveUp>>

\* The controller's state on its way to the console: a hold of three ticks, a pulse of one.
Feedback == INSTANCE FeedbackSender WITH
  pushed <- feedback_pushed, sender <- feedback_sender, waited <- feedback_waited,
  should_stop <- feedback_should_stop
FeedbackVars == <<run, owner, feedback_pushed, feedback_sender, feedback_waited, feedback_should_stop,
    controller_state_changed, controller_state_raw, controller_state, controller_state_prev, chord_just_fired,
    ps_chord, history_buf, lost, console, heldSince, armed, engaged>>

\* The sizes and times are those of a real sender, ring and circle.
ASSUME TransportAssumption ==
  /\ Audio!AudioAssumption
  /\ Rudp!RudpAssumption /\ Sending!SendingAssumption
  /\ SendBuffer!ModulusAssumption /\ SendBuffer!SendBufferAssumption
  /\ Feedback!SenderAssumption
  /\ Keys!KeyStreamAssumption
  /\ Position!JitterAssumption /\ Circle \in Nat /\ Circle > 2 /\ Circle % 2 = 0

vars == <<part, AudioVars, KeysVars, PositionVars, RudpVars, SendingVars, SendBufferVars, FeedbackVars>>

Init ==
  /\ part \in Parts
  /\ Audio!Init /\ (part = "audio" \/ (cloud = FALSE /\ start = 0))
  /\ Keys!Init
  /\ Position!Init
  /\ Rudp!Init
  /\ Sending!Init
  /\ SendBuffer!Init
  /\ Feedback!Init

\* One part runs. The others keep still.
Next ==
  \/ part = "audio" /\ Audio!Next /\ UNCHANGED <<part, KeysVars, PositionVars, RudpVars, SendingVars,
        SendBufferVars, FeedbackVars>>
  \/ part = "keys" /\ Keys!Next /\ UNCHANGED <<part, AudioVars, PositionVars, RudpVars, SendingVars,
        SendBufferVars, FeedbackVars>>
  \/ part = "position" /\ Position!Next /\ UNCHANGED <<part, AudioVars, KeysVars, RudpVars, SendingVars,
        SendBufferVars, FeedbackVars>>
  \/ part = "rudp" /\ Rudp!Next /\ UNCHANGED <<part, AudioVars, KeysVars, PositionVars, SendingVars,
        SendBufferVars, FeedbackVars>>
  \/ part = "sending" /\ Sending!Next /\ UNCHANGED <<part, AudioVars, KeysVars, PositionVars, RudpVars,
        SendBufferVars, FeedbackVars>>
  \/ part = "send_buffer" /\ SendBuffer!Next /\ UNCHANGED <<part, AudioVars, KeysVars, PositionVars, RudpVars,
        SendingVars, FeedbackVars>>
  \/ part = "feedback" /\ Feedback!Next /\ UNCHANGED <<part, AudioVars, KeysVars, PositionVars, RudpVars,
        SendingVars, SendBufferVars>>

Spec == Init /\ [][Next]_vars

\* The fairness of each part is that of its own module.
FairSpec ==
  /\ Spec
  /\ WF_KeysVars(part = "keys" /\ Keys!ThreadStep)
  /\ WF_RudpVars(part = "rudp" /\ Rudp!Handshake)
  /\ WF_SendBufferVars(part = "send_buffer" /\ SendBuffer!ResendStep)
  /\ WF_SendBufferVars(part = "send_buffer" /\ SendBuffer!FiniSignals)
  /\ WF_SendBufferVars(part = "send_buffer" /\ SendBuffer!FiniJoins)
  /\ WF_SendBufferVars(part = "send_buffer" /\ SendBuffer!Tick)
  /\ WF_FeedbackVars(part = "feedback" /\ (Feedback!SenderStep \/ Feedback!FiniJoins))
  /\ SF_<<SendBufferVars, FeedbackVars>>(
       \/ part = "send_buffer" /\ SendBuffer!ResendTimesOut /\ UNCHANGED FeedbackVars
       \/ part = "feedback" /\ Feedback!Tick /\ UNCHANGED SendBufferVars)

\* Audio frames reach the sink in order and each packet is counted once, lost ones
\* included (audioreceiver.c, packetstats.c). A packet is decrypted with the key
\* stream of its own position, while the thread of gkcrypt.c overwrites and shifts
\* the ring, and checked with the MAC key of that position, wrapped or reordered.
MediaSafe ==
  /\ (part = "audio" => Audio!TypeOK /\ Audio!Safe)
  /\ (part = "keys" => Keys!TypeOK /\ Keys!RightStream)
  /\ (part = "position" => Position!TypeOK /\ Position!RightPosition /\ Position!RightMacKey)

\* Of what the threads send nothing is forgotten: a packet waits in its send buffer
\* until it has arrived or is given up, no two share a number or a piece of key
\* stream, and each frame of the microphone goes out twice (takionsendbuffer.c,
\* rudpsendbuffer.c, takion.c, audiosender.c).
SendersSafe ==
  /\ (part = "rudp" => Rudp!TypeOK /\ Rudp!Safe)
  /\ (part = "sending" => Sending!TypeOK /\ Sending!Safe)
  /\ (part = "send_buffer" => SendBuffer!TypeOK /\ SendBuffer!NothingForgotten)

\* The console has what the user holds, after losses too, but never a part of a
\* chord (feedbacksender.c).
InputSafe ==
  part = "feedback" => /\ Feedback!TypeOK /\ Feedback!SourcesDoNotLeak
                       /\ Feedback!LastPushIsSent /\ Feedback!HistoryRepairsLoss

\* The PS button is pressed once for each full hold of the chord (feedbacksender.c).
ChordFiresOnce == [][part = "feedback" => Feedback!OncePerFullHold]_vars

\* What was begun ends: the key stream catches up with its readers and its thread
\* stops when told to, the handshake over RUDP is answered or given up, a packet
\* leaves the send buffer, its fini returns when packets wait, and the PS button is
\* let go. As one part runs only, this is what the modules call CatchesUp,
\* EndsWhenStopped, HandshakeEnds, PacketsLeave, FiniReturnsIfPacketsWait, PulseEnds.
Done(s) ==
  /\ (part = "keys" => Keys!KeepsUp /\ Keys!EndedIfStopped)
  /\ (part = "rudp" => Rudp!HandshakeOver)
  /\ (part = "send_buffer" => SendBuffer!Left(s) /\ SendBuffer!ReturnedIfWaited)
  /\ (part = "feedback" => Feedback!PulseOver)
TransportEnds == \A s \in SendBuffer!Used : []<>Done(s)

-----------------------------------------------------------------------------
(* The key stream: RightStream for every size of the ring                   *)

\* Chunks fit into the ring.
LEMMA SizeFacts ==
  ASSUME Keys!KeyStreamAssumption
  PROVE  /\ Keys!Size \in Nat /\ Keys!Size > 0 /\ Keys!Multiple(Keys!Size)
         /\ ChunkCells \in Nat /\ ChunkCells > 0 /\ ChunkCells <= Keys!Size /\ Keys!Multiple(ChunkCells)
         /\ Keys!Multiple(0)
<1>1. Keys!Size \in Nat /\ Keys!Size >= ChunkCells /\ Keys!Multiple(Keys!Size)
  BY SMT DEF Keys!KeyStreamAssumption, Keys!Size, Keys!Multiple
<1>2. 1 * ChunkCells = ChunkCells /\ 0 * ChunkCells = 0
  BY SMT DEF Keys!KeyStreamAssumption
<1>3. ChunkCells \in Nat /\ ChunkCells > 0
  BY SMT DEF Keys!KeyStreamAssumption
<1> QED
  BY <1>1, <1>2, <1>3, SMT DEF Keys!Multiple

\* Sums and differences of multiples are multiples, and between two different ones
\* there is room for a chunk.
LEMMA Multiples ==
  ASSUME Keys!KeyStreamAssumption, NEW x \in Nat, NEW y \in Nat, Keys!Multiple(x), Keys!Multiple(y)
  PROVE  /\ Keys!Multiple(x + y)
         /\ y <= x => Keys!Multiple(x - y)
         /\ x < y => x + ChunkCells <= y
<1>1. PICK k \in Nat : x = k * ChunkCells
  BY DEF Keys!Multiple
<1>2. PICK l \in Nat : y = l * ChunkCells
  BY DEF Keys!Multiple
<1>3. ChunkCells \in Nat /\ ChunkCells > 0
  BY SizeFacts
<1>4. (k + l) * ChunkCells = x + y /\ (k - l) * ChunkCells = x - y /\ (k + 1) * ChunkCells = x + ChunkCells
  BY <1>1, <1>2, <1>3, SMT
<1>5. Keys!Multiple(x + y)
  BY <1>4 DEF Keys!Multiple
<1>6. CASE k >= l
  <2>1. k - l \in Nat /\ (k - l) * ChunkCells >= 0
    BY <1>3, <1>6, SMT
  <2>2. ~(x < y)
    BY <1>4, <2>1, SMT
  <2> QED
    BY <1>4, <1>5, <2>1, <2>2 DEF Keys!Multiple
<1>7. CASE l >= k + 1
  <2>1. l - (k + 1) \in Nat /\ (l - (k + 1)) * ChunkCells >= 0
    BY <1>3, <1>7, SMT
  <2>2. (l - (k + 1)) * ChunkCells = y - (x + ChunkCells)
    BY <1>1, <1>2, <1>3, SMT
  <2>3. x + ChunkCells <= y
    BY <1>3, <2>1, <2>2, SMT
  <2> QED
    BY <1>3, <1>5, <2>3, SMT
<1> QED
  BY <1>6, <1>7, SMT

\* A multiple leaves no remainder.
LEMMA NoRemainder ==
  ASSUME Keys!KeyStreamAssumption, NEW x \in Nat, Keys!Multiple(x)
  PROVE  x % ChunkCells = 0
<1>1. PICK k \in Nat : x = k * ChunkCells
  BY DEF Keys!Multiple
<1>2. ChunkCells \in Nat /\ ChunkCells > 0
  BY SizeFacts
<1> DEFINE q == x \div ChunkCells
           r == x % ChunkCells
<1>3. q \in Int /\ r \in Int /\ 0 <= r /\ r < ChunkCells /\ x = (q * ChunkCells) + r
  BY <1>2, SMT
<1> HIDE DEF q, r
<1>4. r = (k - q) * ChunkCells /\ k - q \in Int
  BY <1>1, <1>2, <1>3, SMT
<1>5. \A n \in Int : n * ChunkCells < ChunkCells /\ 0 <= n * ChunkCells => n * ChunkCells = 0
  <2> SUFFICES ASSUME NEW n \in Int, n * ChunkCells < ChunkCells,
                        0 <= n * ChunkCells PROVE n * ChunkCells = 0
    OBVIOUS
  <2>1. CASE n = 0
    BY <1>2, <2>1, SMT
  <2>2. CASE n >= 1
    <3>1. (n - 1) * ChunkCells >= 0
      BY <1>2, <2>2, SMT
    <3>2. (n - 1) * ChunkCells = (n * ChunkCells) - ChunkCells
      BY <1>2, SMT
    <3> QED
      BY <1>2, <3>1, <3>2, SMT
  <2>3. CASE n <= -1
    <3>1. (-1 - n) * ChunkCells >= 0
      BY <1>2, <2>3, SMT
    <3>2. (-1 - n) * ChunkCells = (-ChunkCells) - (n * ChunkCells)
      BY <1>2, SMT
    <3> QED
      BY <1>2, <3>1, <3>2, SMT
  <2> QED
    BY <2>1, <2>2, <2>3, SMT
<1>6. r = 0
  BY <1>3, <1>4, <1>5
<1> QED
  BY <1>6 DEF r

\* Positions in the ring wrap at most once.
LEMMA RingWraps ==
  ASSUME Keys!KeyStreamAssumption, NEW a \in 0 .. Keys!Size - 1, NEW j \in 0 .. Keys!Size
  PROVE  /\ (a + j) % Keys!Size \in 0 .. Keys!Size - 1
         /\ (a + j) % Keys!Size = IF a + j < Keys!Size THEN a + j ELSE (a + j) - Keys!Size
  BY SizeFacts, SMT

\* Different cells of the stream have different cells of the ring.
LEMMA SlotInjective ==
  ASSUME Keys!KeyStreamAssumption, start_offset \in 0 .. Keys!Size - 1,
         NEW i \in 0 .. Keys!Size - 1, NEW j \in 0 .. Keys!Size - 1, Keys!Slot(i) = Keys!Slot(j)
  PROVE  i = j
<1>1. /\ i \in 0 .. Keys!Size /\ j \in 0 .. Keys!Size
  BY SizeFacts, SMT
<1>2. /\ Keys!Slot(i) = IF start_offset + i < Keys!Size THEN start_offset + i
           ELSE (start_offset + i) - Keys!Size
      /\ Keys!Slot(j) = IF start_offset + j < Keys!Size THEN start_offset + j
           ELSE (start_offset + j) - Keys!Size
  BY <1>1, RingWraps DEF Keys!Slot
<1>3. /\ i \in Int /\ j \in Int /\ start_offset \in Int /\ Keys!Size \in Int
      /\ i >= 0 /\ i < Keys!Size /\ j >= 0 /\ j < Keys!Size
  BY SizeFacts, SMT
<1>4. (IF start_offset + i < Keys!Size THEN start_offset + i ELSE (start_offset + i) - Keys!Size)
        = IF start_offset + j < Keys!Size THEN start_offset + j ELSE (start_offset + j) - Keys!Size
  BY <1>2
<1> QED
  BY <1>3, <1>4, SMT

\* The chunk after what is populated lies in the ring in one piece.
LEMMA NextChunk ==
  ASSUME Keys!KeyStreamAssumption, Keys!Aligned, populated + ChunkCells <= Keys!Size,
           NEW i \in 0 .. ChunkCells - 1
  PROVE  /\ populated + i \in 0 .. Keys!Size - 1
         /\ Keys!Slot(populated + i) = Keys!Slot(populated) + i
         /\ Keys!Slot(populated + i) \in 0 .. Keys!Size - 1
<1>1. /\ Keys!Size \in Nat /\ Keys!Size > 0 /\ ChunkCells \in Nat /\ ChunkCells > 0
           /\ Keys!Multiple(Keys!Size)
      /\ start_offset \in 0 .. Keys!Size - 1 /\ populated \in 0 .. Keys!Size
      /\ Keys!Multiple(start_offset) /\ Keys!Multiple(populated)
  BY SizeFacts DEF Keys!Aligned
<1> DEFINE e == start_offset + populated
<1>2. e \in Nat /\ start_offset \in Nat /\ populated \in Nat /\ populated + i \in 0 .. Keys!Size
      /\ populated + i \in 0 .. Keys!Size - 1
  BY <1>1, SMT
<1>3. Keys!Multiple(e)
  BY <1>1, <1>2, Multiples
<1>4. e < Keys!Size => e + ChunkCells <= Keys!Size
  BY <1>1, <1>2, <1>3, Multiples
<1>5. Keys!Slot(populated) = IF e < Keys!Size THEN e ELSE e - Keys!Size
  BY <1>1, <1>2, RingWraps DEF Keys!Slot
<1>6. /\ Keys!Slot(populated + i) \in 0 .. Keys!Size - 1
      /\ Keys!Slot(populated + i) = IF start_offset + (populated + i) < Keys!Size
           THEN start_offset + (populated + i)
                               ELSE (start_offset + (populated + i)) - Keys!Size
  BY <1>1, <1>2, RingWraps DEF Keys!Slot
<1>7. /\ start_offset + (populated + i) = e + i
      /\ e + i < Keys!Size <=> e < Keys!Size
      /\ (e + i) - Keys!Size = (e - Keys!Size) + i
  BY <1>1, <1>2, <1>4, SMT
<1> HIDE DEF e
<1>8. Keys!Slot(populated + i) = Keys!Slot(populated) + i
  <2>1. CASE e < Keys!Size
    BY <1>5, <1>6, <1>7, <2>1, Zenon
  <2>2. CASE ~(e < Keys!Size)
    BY <1>5, <1>6, <1>7, <2>2, Zenon
  <2> QED
    BY <2>1, <2>2
<1> QED
  BY <1>2, <1>6, <1>8

\* At first nothing is populated.
LEMMA KeysInit == ASSUME Keys!KeyStreamAssumption, Keys!Init PROVE Keys!Inv
<1>1. /\ Keys!Size \in Nat /\ Keys!Size > 0 /\ Keys!Multiple(0) /\ 0 \in 0 .. Keys!Size - 1
           /\ 0 \in 0 .. Keys!Size
  BY SizeFacts, SMT
<1>2. Keys!Aligned
  BY <1>1 DEF Keys!Init, Keys!Aligned
<1>3. Keys!Filled
  <2>1. Keys!Empty \in Int /\ \A j \in 0 .. 0 - 1 : FALSE
    BY SMT DEF Keys!Empty
  <2> QED
    BY <2>1 DEF Keys!Init, Keys!Filled
<1>4. Keys!WritesNext /\ Keys!RightStream
  BY DEF Keys!Init, Keys!WritesNext, Keys!RightStream
<1> QED
  BY <1>2, <1>3, <1>4 DEF Keys!Inv

\* Readers get the right cells, from the ring or from the cipher.
LEMMA KeysDecrypt == ASSUME Keys!KeyStreamAssumption, Keys!Inv, Keys!Decrypt PROVE Keys!Inv'
<1>1. PICK pos \in 0 .. Cells, n \in 1 .. MaxAsk : Keys!GetKeyStream(pos, n)
  BY DEF Keys!Decrypt
<1>2. Keys!Filled' /\ Keys!WritesNext'
  BY <1>1 DEF Keys!GetKeyStream, Keys!Inv, Keys!Filled, Keys!WritesNext, Keys!Slot, Keys!buffer
<1>3. Keys!Aligned'
  <2>1. pos + n \in Nat /\ last_key_pos \in Nat
    BY SMT DEF Keys!KeyStreamAssumption, Keys!Inv, Keys!Aligned
  <2> QED
    BY <1>1, <2>1 DEF Keys!GetKeyStream, Keys!Inv, Keys!Aligned, Keys!buffer, Keys!Larger, Keys!Multiple
<1>4. Keys!RightStream'
  <2>1. /\ got'.pos = pos
        /\ got'.cells = [i \in 0 .. n - 1 |-> IF Keys!InBuffer(pos, n) THEN Keys!Buffered(pos + i)
             ELSE pos + i]
    BY <1>1 DEF Keys!GetKeyStream
  <2>2. ASSUME NEW i \in 0 .. n - 1, Keys!InBuffer(pos, n) PROVE Keys!Buffered(pos + i) = pos + i
    <3> DEFINE j == (pos + i) - key_pos_min
    <3>1. /\ j \in 0 .. populated - 1 /\ key_pos_min + j = pos + i
          /\ j + start_offset = start_offset + j
      BY <2>2, SizeFacts, SMT DEF Keys!InBuffer, Keys!Inv, Keys!Aligned, Keys!KeyStreamAssumption
    <3>2. Keys!Buffered(pos + i) = key_buf[Keys!Slot(j)]
      BY <3>1 DEF Keys!Buffered, Keys!Slot
    <3> HIDE DEF j
    <3> QED
      BY <3>1, <3>2 DEF Keys!Inv, Keys!Filled
  <2>3. \A i \in 0 .. n - 1 : (IF Keys!InBuffer(pos, n) THEN Keys!Buffered(pos + i) ELSE pos + i) = pos + i
    BY <2>2
  <2> QED
    BY <2>1, <2>3 DEF Keys!RightStream
<1> QED
  BY <1>2, <1>3, <1>4 DEF Keys!Inv

\* The thread frees the oldest chunk or all of them and chooses the next.
LEMMA KeysWake == ASSUME Keys!KeyStreamAssumption, Keys!Inv, Keys!Wake PROVE Keys!Inv'
<1>1. /\ Keys!Aligned /\ Keys!Filled /\ thread' = "generate" /\ key_buf' = key_buf
      /\ last_key_pos' = last_key_pos /\ got' = got
      /\ chunk' = [pos |-> key_pos_min' + populated', offset |-> Keys!Slot(populated)']
  BY DEF Keys!Inv, Keys!Wake, Keys!Slot
<1>2. /\ Keys!Size \in Nat /\ Keys!Size > 0 /\ Keys!Multiple(Keys!Size) /\ Keys!Multiple(0)
      /\ ChunkCells \in Nat /\ ChunkCells > 0 /\ ChunkCells <= Keys!Size /\ Keys!Multiple(ChunkCells)
      /\ start_offset \in 0 .. Keys!Size - 1 /\ Keys!Multiple(start_offset) /\ start_offset \in Nat
      /\ populated \in 0 .. Keys!Size /\ Keys!Multiple(populated) /\ populated \in Nat
      /\ key_pos_min \in Nat /\ Keys!Multiple(key_pos_min) /\ last_key_pos \in Nat
  BY <1>1, SizeFacts, SMT DEF Keys!Aligned
<1>3. Keys!RightStream'
  BY <1>1 DEF Keys!Inv, Keys!RightStream
<1>4. CASE /\ key_pos_min' = (last_key_pos \div ChunkCells) * ChunkCells
           /\ start_offset' = 0 /\ populated' = 0
  <2>1. key_pos_min' \in Nat /\ Keys!Multiple(key_pos_min')
    <3>1. last_key_pos \div ChunkCells \in Nat
      BY <1>2, SMT
    <3>2. key_pos_min' \in Nat
      BY <1>2, <1>4, <3>1, SMT
    <3> QED
      BY <1>4, <3>1, <3>2 DEF Keys!Multiple
  <2>2. 0 \in 0 .. Keys!Size - 1 /\ 0 \in 0 .. Keys!Size /\ 0 + ChunkCells <= Keys!Size
          /\ \A j \in 0 .. 0 - 1 : FALSE
    BY <1>2, SMT
  <2>3. Keys!Aligned'
    BY <1>1, <1>2, <1>4, <2>1, <2>2 DEF Keys!Aligned, Keys!Multiple, Keys!Size
  <2>4. Keys!Filled'
    BY <1>1, <1>4, <2>2 DEF Keys!Filled, Keys!Size
  <2>5. Keys!WritesNext'
    BY <1>1, <1>4, <2>2 DEF Keys!WritesNext, Keys!Size
  <2> QED
    BY <1>3, <2>3, <2>4, <2>5 DEF Keys!Inv
<1>5. CASE /\ populated = Keys!Size
           /\ key_pos_min' = key_pos_min + ChunkCells
           /\ start_offset' = (start_offset + ChunkCells) % Keys!Size
           /\ populated' = populated - ChunkCells
  <2>1. /\ start_offset' \in 0 .. Keys!Size - 1
        /\ start_offset' = IF start_offset + ChunkCells < Keys!Size THEN start_offset + ChunkCells
                           ELSE (start_offset + ChunkCells) - Keys!Size
    <3>1. ChunkCells \in 0 .. Keys!Size
      BY <1>2, SMT
    <3> QED
      BY <1>2, <1>5, <3>1, RingWraps
  <2>2. Keys!Multiple(start_offset')
    <3> DEFINE e == start_offset + ChunkCells
    <3>1. e \in Nat /\ Keys!Multiple(e)
      BY <1>2, Multiples, SMT
    <3>2. Keys!Size <= e => Keys!Multiple(e - Keys!Size)
      BY <1>2, <3>1, Multiples
    <3>3. e < Keys!Size \/ Keys!Size <= e
      BY <1>2, <3>1, SMT
    <3> HIDE DEF e
    <3>4. start_offset' = IF e < Keys!Size THEN e ELSE e - Keys!Size
      BY <2>1 DEF e
    <3> QED
      BY <3>1, <3>2, <3>3, <3>4
  <2>3. /\ populated' \in 0 .. Keys!Size /\ populated' + ChunkCells <= Keys!Size /\ key_pos_min' \in Nat
    BY <1>2, <1>5, SMT
  <2>4. Keys!Multiple(populated') /\ Keys!Multiple(key_pos_min')
    BY <1>2, <1>5, Multiples
  <2>5. Keys!Aligned'
    BY <1>1, <1>2, <2>1, <2>2, <2>3, <2>4 DEF Keys!Aligned, Keys!Multiple, Keys!Size
  <2>6. ASSUME NEW j \in 0 .. populated' - 1 PROVE key_buf[Keys!Slot(j)'] = key_pos_min' + j
    <3> DEFINE k == j + ChunkCells
    <3>1. /\ j \in 0 .. Keys!Size /\ k \in 0 .. populated - 1 /\ k \in 0 .. Keys!Size
               /\ key_pos_min + k = key_pos_min' + j
      BY <1>2, <1>5, <2>6, SMT
    <3>2. Keys!Slot(j)' = (start_offset' + j) % Keys!Size
      BY DEF Keys!Slot, Keys!Size
    <3>3. Keys!Slot(j)' = IF start_offset' + j < Keys!Size THEN start_offset' + j
            ELSE (start_offset' + j) - Keys!Size
      BY <2>1, <3>1, <3>2, RingWraps
    <3>4. Keys!Slot(k) = IF start_offset + k < Keys!Size THEN start_offset + k
            ELSE (start_offset + k) - Keys!Size
      BY <1>2, <3>1, RingWraps DEF Keys!Slot
    <3>5. Keys!Slot(j)' = Keys!Slot(k)
      <4> DEFINE b == start_offset'
      <4>1. b = IF start_offset + ChunkCells < Keys!Size THEN start_offset + ChunkCells
                ELSE (start_offset + ChunkCells) - Keys!Size
        BY <2>1
      <4>2. Keys!Slot(j)' = IF b + j < Keys!Size THEN b + j ELSE (b + j) - Keys!Size
        BY <3>3
      <4>3. /\ j \in Nat /\ k = j + ChunkCells /\ k < Keys!Size
        BY <1>2, <3>1, <1>5, SMT
      <4> HIDE DEF b, k
      <4>4. (IF b + j < Keys!Size THEN b + j ELSE (b + j) - Keys!Size)
              = IF start_offset + k < Keys!Size THEN start_offset + k ELSE (start_offset + k) - Keys!Size
        BY <1>2, <4>1, <4>3, SMT
      <4> QED
        BY <3>4, <4>2, <4>4
    <3> HIDE DEF k
    <3> QED
      BY <1>1, <3>1, <3>5 DEF Keys!Filled
  <2>7. Keys!Filled'
    BY <1>1, <2>6 DEF Keys!Filled, Keys!Size
  <2>8. Keys!WritesNext'
    BY <1>1, <2>3 DEF Keys!WritesNext, Keys!Size
  <2> QED
    BY <1>3, <2>5, <2>7, <2>8 DEF Keys!Inv
<1>6. CASE populated # Keys!Size /\ UNCHANGED <<key_pos_min, start_offset, populated>>
  <2>1. populated < Keys!Size
    BY <1>2, <1>6, SMT
  <2>2. populated + ChunkCells <= Keys!Size
    BY <1>2, <2>1, Multiples
  <2>3. Keys!Aligned'
    BY <1>1, <1>6 DEF Keys!Aligned, Keys!Multiple, Keys!Size
  <2>4. Keys!Filled'
    BY <1>1, <1>6 DEF Keys!Filled, Keys!Slot, Keys!Size
  <2>5. Keys!WritesNext'
    BY <1>1, <1>6, <2>2 DEF Keys!WritesNext, Keys!Size
  <2> QED
    BY <1>3, <2>3, <2>4, <2>5 DEF Keys!Inv
<1>7. \/ /\ key_pos_min' = (last_key_pos \div ChunkCells) * ChunkCells
         /\ start_offset' = 0 /\ populated' = 0
      \/ /\ populated = Keys!Size
         /\ key_pos_min' = key_pos_min + ChunkCells
         /\ start_offset' = (start_offset + ChunkCells) % Keys!Size
         /\ populated' = populated - ChunkCells
      \/ populated # Keys!Size /\ UNCHANGED <<key_pos_min, start_offset, populated>>
  BY DEF Keys!Wake
<1> QED
  BY <1>4, <1>5, <1>6, <1>7

\* The cells written are those of the next chunk, and none that is populated.
LEMMA KeysGenerateCell == ASSUME Keys!KeyStreamAssumption, Keys!Inv, Keys!GenerateCell PROVE Keys!Inv'
<1>1. /\ Keys!Aligned /\ Keys!Filled /\ populated + ChunkCells <= Keys!Size
      /\ chunk.pos = key_pos_min + populated /\ chunk.offset = Keys!Slot(populated)
  BY DEF Keys!Inv, Keys!WritesNext, Keys!GenerateCell
<1>2. PICK o \in Keys!ChunkOffsets : key_buf' = [key_buf EXCEPT ![o] = chunk.pos + o - chunk.offset]
  BY DEF Keys!GenerateCell
<1>3. PICK i \in 0 .. ChunkCells - 1 : o = chunk.offset + i
  BY DEF Keys!ChunkOffsets
<1>4. /\ populated + i \in 0 .. Keys!Size - 1 /\ o = Keys!Slot(populated + i) /\ o \in 0 .. Keys!Size - 1
      /\ chunk.offset \in 0 .. Keys!Size - 1
  <2>1. 0 \in 0 .. ChunkCells - 1 /\ populated + 0 = populated
    BY <1>1, SizeFacts, SMT DEF Keys!Aligned
  <2>2. Keys!Slot(populated + 0) \in 0 .. Keys!Size - 1
    BY <1>1, <2>1, NextChunk
  <2> QED
    BY <1>1, <1>3, <2>1, <2>2, NextChunk
<1>5. /\ UNCHANGED <<populated, key_pos_min, start_offset, last_key_pos, thread, chunk, got>>
  BY DEF Keys!GenerateCell
<1>6. chunk.pos + o - chunk.offset \in Int
  <2>1. key_pos_min \in Nat /\ populated \in Nat
    BY <1>1, SizeFacts, SMT DEF Keys!Aligned
  <2> QED
    BY <1>1, <1>4, <2>1, SizeFacts, SMT
<1>7. \A j \in 0 .. populated - 1 : Keys!Slot(j) # o
  <2> TAKE j \in 0 .. populated - 1
  <2>1. j \in 0 .. Keys!Size - 1 /\ j # populated + i
    BY <1>1, SizeFacts, SMT DEF Keys!Aligned
  <2>2. start_offset \in 0 .. Keys!Size - 1
    BY <1>1 DEF Keys!Aligned
  <2> DEFINE k == populated + i
  <2>3. k \in 0 .. Keys!Size - 1 /\ o = Keys!Slot(k) /\ j # k
    BY <1>4, <2>1
  <2> HIDE DEF k
  <2> QED
    BY <2>1, <2>2, <2>3, SlotInjective
<1>8. Keys!Filled'
  <2>1. key_buf' \in [0 .. Keys!Size - 1 -> Int]
    BY <1>1, <1>2, <1>4, <1>6 DEF Keys!Filled
  <2>2. \A j \in 0 .. populated - 1 : Keys!Slot(j) \in 0 .. Keys!Size - 1
    <3> TAKE j \in 0 .. populated - 1
    <3>1. j \in 0 .. Keys!Size /\ start_offset \in 0 .. Keys!Size - 1
      BY <1>1, SizeFacts, SMT DEF Keys!Aligned
    <3> QED
      BY <3>1, RingWraps DEF Keys!Slot
  <2>3. \A j \in 0 .. populated - 1 : key_buf'[Keys!Slot(j)] = key_pos_min + j
    BY <1>1, <1>2, <1>7, <2>2 DEF Keys!Filled
  <2> QED
    BY <1>5, <2>1, <2>3 DEF Keys!Filled, Keys!Slot, Keys!Size
<1>9. Keys!Aligned' /\ Keys!WritesNext' /\ Keys!RightStream'
  BY <1>5 DEF Keys!Inv, Keys!Aligned, Keys!WritesNext, Keys!RightStream, Keys!Slot, Keys!Multiple
<1> QED
  BY <1>8, <1>9 DEF Keys!Inv

\* A chunk is published when all of its cells are written.
LEMMA KeysGenerated == ASSUME Keys!KeyStreamAssumption, Keys!Inv, Keys!Generated PROVE Keys!Inv'
<1>1. /\ Keys!Aligned /\ Keys!Filled /\ populated + ChunkCells <= Keys!Size
      /\ chunk.pos = key_pos_min + populated /\ chunk.offset = Keys!Slot(populated) /\ Keys!ChunkDone
  BY DEF Keys!Inv, Keys!WritesNext, Keys!Generated
<1>2. /\ populated' = populated + ChunkCells /\ thread' = "wait"
      /\ UNCHANGED <<key_buf, key_pos_min, start_offset, last_key_pos, chunk, got>>
  BY DEF Keys!Generated
<1>3. /\ populated \in Nat /\ ChunkCells \in Nat /\ ChunkCells > 0 /\ key_pos_min \in Nat
           /\ Keys!Size \in Nat
      /\ Keys!Multiple(populated) /\ Keys!Multiple(ChunkCells)
  BY <1>1, SizeFacts, SMT DEF Keys!Aligned
<1>4. Keys!Aligned'
  <2>1. Keys!Multiple(populated + ChunkCells) /\ populated + ChunkCells \in 0 .. Keys!Size
    BY <1>1, <1>3, Multiples, SMT
  <2> QED
    BY <1>1, <1>2, <2>1 DEF Keys!Aligned, Keys!Multiple, Keys!Size
<1>5. Keys!Filled'
  <2>1. ASSUME NEW j \in 0 .. populated + ChunkCells - 1 PROVE key_buf[Keys!Slot(j)] = key_pos_min + j
    <3>1. CASE j \in 0 .. populated - 1
      BY <1>1, <3>1 DEF Keys!Filled
    <3>2. CASE j \notin 0 .. populated - 1
      <4> DEFINE i == j - populated
      <4>1. i \in 0 .. ChunkCells - 1 /\ j = populated + i
        BY <1>3, <2>1, <3>2, SMT
      <4> HIDE DEF i
      <4>2. Keys!Slot(j) = chunk.offset + i /\ chunk.offset + i \in Keys!ChunkOffsets
        BY <1>1, <4>1, NextChunk DEF Keys!ChunkOffsets
      <4>3. key_buf[Keys!Slot(j)] = chunk.pos + (chunk.offset + i) - chunk.offset
        BY <1>1, <4>2 DEF Keys!ChunkDone
      <4>4. Keys!Slot(populated) \in Int
        <5>1. 0 \in 0 .. ChunkCells - 1 /\ populated + 0 = populated
                /\ \A k \in 0 .. Keys!Size - 1 : k \in Int
          BY <1>3, SMT
        <5>2. Keys!Slot(populated + 0) \in 0 .. Keys!Size - 1
          BY <1>1, <5>1, NextChunk
        <5> QED
          BY <5>1, <5>2
      <4>5. chunk.pos + (chunk.offset + i) - chunk.offset = key_pos_min + j
        BY <1>1, <1>3, <4>1, <4>4, SMT
      <4> QED
        BY <4>3, <4>5
    <3> QED
      BY <3>1, <3>2
  <2>2. ASSUME NEW j \in 0 .. populated' - 1 PROVE key_buf'[Keys!Slot(j)'] = key_pos_min' + j
    <3>1. Keys!Slot(j)' = Keys!Slot(j)
      BY <1>2 DEF Keys!Slot, Keys!Size
    <3>2. j \in 0 .. populated + ChunkCells - 1
      <4>1. populated' = populated + ChunkCells
        BY <1>2
      <4>2. populated' - 1 = populated + ChunkCells - 1
        BY <1>3, <4>1, SMT
      <4> QED
        BY <2>2, <4>2
    <3>3. key_buf[Keys!Slot(j)] = key_pos_min + j
      BY <2>1, <3>2
    <3> QED
      BY <1>2, <3>1, <3>3
  <2> QED
    BY <1>1, <1>2, <2>2 DEF Keys!Filled, Keys!Size
<1>6. Keys!WritesNext' /\ Keys!RightStream'
  BY <1>2 DEF Keys!Inv, Keys!WritesNext, Keys!RightStream
<1> QED
  BY <1>4, <1>5, <1>6 DEF Keys!Inv

\* Every step keeps the invariant.
LEMMA KeysStep == ASSUME Keys!KeyStreamAssumption PROVE Keys!Inv /\ [Keys!Next]_Keys!vars => Keys!Inv'
<1> SUFFICES ASSUME Keys!Inv, [Keys!Next]_Keys!vars PROVE Keys!Inv'
  OBVIOUS
<1>1. CASE Keys!ThreadEnds \/ Keys!Fini \/ UNCHANGED Keys!vars
  <2>1. /\ UNCHANGED <<key_buf, populated, key_pos_min, start_offset, last_key_pos, chunk, got>>
        /\ thread' = "generate" => thread = "generate"
        /\ thread' \in {thread, "ended"}
    BY <1>1 DEF Keys!ThreadEnds, Keys!Fini, Keys!vars, Keys!buffer
  <2> QED
    BY <2>1 DEF Keys!Inv, Keys!Aligned, Keys!Filled, Keys!WritesNext, Keys!RightStream, Keys!Slot,
       Keys!Multiple
<1> QED
  BY <1>1, KeysDecrypt, KeysWake, KeysGenerateCell, KeysGenerated DEF Keys!Next, Keys!ThreadStep

-----------------------------------------------------------------------------
(* The positions of packets                                                 *)

\* A quotient is no larger than what is divided.
LEMMA QuotientBound ==
  ASSUME NEW y \in Nat, y > 0, NEW x \in Nat
  PROVE  x \div y \in 0 .. x
<1> DEFINE q == x \div y
<1>1. q \in Nat /\ x % y \in Nat /\ x = (y * q) + (x % y)
  BY SMT
<1> HIDE DEF q
<1>2. (y - 1) * q >= 0
  BY <1>1, SMT
<1>3. (y - 1) * q = (y * q) - q
  BY <1>1, SMT
<1>4. q <= x
  BY <1>1, <1>2, <1>3, SMT
<1> QED
  BY <1>1, <1>4, SMT DEF q

\* The key of a MAC is one of those up to the position.
LEMMA GmacIndexBound ==
  ASSUME GmacRefresh \in Nat \ {0}, NEW pos \in Nat
  PROVE  Position!GmacIndex(pos) \in 0 .. pos
<1> DEFINE x == IF pos > 0 THEN pos - 1 ELSE 0
<1>1. x \in 0 .. pos /\ x \in Nat
  BY SMT
<1>2. x \div GmacRefresh \in 0 .. x
  BY <1>1, QuotientBound
<1>3. Position!GmacIndex(pos) = x \div GmacRefresh
  BY DEF Position!GmacIndex
<1> HIDE DEF x
<1> QED
  BY <1>1, <1>2, <1>3, SMT

\* Less than half a turn of the circle apart, the low part says which turn it is:
\* the same, the next or the one before.
LEMMA WidenInverts ==
  ASSUME NEW prev \in Nat, NEW pos \in Nat, pos - prev < Position!Half, prev - pos < Position!Half
  PROVE  Position!Widen(prev, pos % Circle) = pos
<1> DEFINE prevHigh == prev \div Circle
           prevLow == prev % Circle
           high == pos \div Circle
           low == pos % Circle
           turn == high - prevHigh
           half == Circle \div 2
<1>1. Circle \in Nat /\ half \in Nat /\ Circle = 2 * half /\ half > 1 /\ Position!Half = half
  BY TransportAssumption, SMT DEF TransportAssumption, Position!Half
<1>2. /\ prevHigh \in Nat /\ prevLow \in 0 .. Circle - 1 /\ prev = (Circle * prevHigh) + prevLow
      /\ high \in Nat /\ low \in 0 .. Circle - 1 /\ pos = (Circle * high) + low
  BY <1>1, SMT
<1>3. Position!Widen(prev, low) =
        (IF Position!Gt(low, prevLow) /\ low < prevLow THEN prevHigh + 1
         ELSE IF Position!Lt(low, prevLow) /\ low > prevLow /\ prevHigh > 0 THEN prevHigh - 1
         ELSE prevHigh) * Circle + low
  BY DEF Position!Widen
<1>4. /\ Position!Gt(low, prevLow) /\ low < prevLow <=> low < prevLow /\ prevLow - low > half
      /\ Position!Lt(low, prevLow) /\ low > prevLow <=> low > prevLow /\ low - prevLow > half
  BY <1>1, <1>2, SMT DEF Position!Gt, Position!Lt
<1> HIDE DEF prevHigh, prevLow, high, low, half
<1>5. turn \in Int /\ (Circle * high) - (Circle * prevHigh) = Circle * turn
  BY <1>1, <1>2, SMT
<1>6. turn \in {-1, 0, 1}
  <2>1. Circle * turn < 2 * Circle /\ Circle * turn > -(2 * Circle)
    BY <1>1, <1>2, <1>5, SMT
  <2>2. turn >= 2 => Circle * (turn - 2) >= 0
    BY <1>1, <1>5, SMT
  <2>3. turn <= -2 => Circle * (-2 - turn) >= 0
    BY <1>1, <1>5, SMT
  <2>4. Circle * (turn - 2) = (Circle * turn) - (2 * Circle)
          /\ Circle * (-2 - turn) = -(Circle * turn) - (2 * Circle)
    BY <1>1, <1>5, SMT
  <2> QED
    BY <1>1, <1>5, <2>1, <2>2, <2>3, <2>4, SMT
<1>7. CASE turn = 0
  <2>1. high = prevHigh /\ low - prevLow < half /\ prevLow - low < half
    BY <1>1, <1>2, <1>5, <1>7, SMT
  <2>2. Position!Widen(prev, low) = high * Circle + low
    BY <1>1, <1>2, <1>3, <1>4, <2>1, SMT
  <2> QED
    BY <1>1, <1>2, <2>2, SMT DEF low
<1>8. CASE turn = 1
  <2>1. high = prevHigh + 1 /\ low < prevLow /\ prevLow - low > half
    BY <1>1, <1>2, <1>5, <1>8, SMT
  <2>2. Position!Widen(prev, low) = high * Circle + low
    BY <1>3, <1>4, <2>1
  <2> QED
    BY <1>1, <1>2, <2>2, SMT DEF low
<1>9. CASE turn = -1
  <2>1. high = prevHigh - 1 /\ prevHigh > 0 /\ low > prevLow /\ low - prevLow > half /\ ~(low < prevLow)
    BY <1>1, <1>2, <1>5, <1>9, SMT
  <2>2. Position!Widen(prev, low) = high * Circle + low
    BY <1>3, <1>4, <2>1
  <2> QED
    BY <1>1, <1>2, <2>2, SMT DEF low
<1> QED
  BY <1>6, <1>7, <1>8, <1>9

PositionInv == Position!TypeOK /\ Position!RightPosition /\ Position!RightMacKey

\* A packet that may arrive has its own position as the one computed.
LEMMA PositionWidens ==
  ASSUME PositionInv, NEW pos \in Position!Arriving, Position!Widens(pos)
  PROVE  pos \in 0 .. MaxPos /\ widened' = [true |-> pos, computed |-> pos] /\ pos \in Nat
<1>1. MaxPos \in Nat /\ Jitter \in Nat /\ Jitter < Position!Half /\ Position!Half \in Int
  BY TransportAssumption, SMT DEF TransportAssumption, Position!JitterAssumption, Position!Half
<1>2. key_state \in Nat /\ pos \in 0 .. MaxPos /\ pos \in key_state - Jitter .. key_state + Jitter
        /\ pos \in Nat
  BY <1>1, SMT DEF PositionInv, Position!TypeOK, Position!Arriving
<1>3. pos - key_state < Position!Half /\ key_state - pos < Position!Half
  BY <1>1, <1>2, SMT
<1>4. Position!Widen(key_state, pos % Circle) = pos
  BY <1>2, <1>3, WidenInverts
<1> QED
  BY <1>2, <1>4 DEF Position!Widens

LEMMA PositionInit == Position!Init => PositionInv
<1> SUFFICES ASSUME Position!Init PROVE PositionInv
  OBVIOUS
<1>1. MaxPos \in Nat /\ GmacRefresh \in Nat \ {0}
  BY TransportAssumption DEF TransportAssumption, Position!JitterAssumption
<1>2. 0 \in 0 .. MaxPos /\ 0 \in Nat
  BY <1>1, SMT
<1>3. Position!GmacIndex(0) = 0
  <2>1. Position!GmacIndex(0) \in 0 .. 0
    BY <1>1, <1>2, GmacIndexBound
  <2> QED
    BY <2>1, SMT
<1> QED
  BY <1>2, <1>3 DEF Position!Init, PositionInv, Position!TypeOK, Position!RightPosition,
     Position!RightMacKey

LEMMA PositionStep ==
  ASSUME PositionInv, [Position!Next]_Position!vars
  PROVE  PositionInv'
<1>1. MaxPos \in Nat /\ GmacRefresh \in Nat \ {0}
  BY TransportAssumption DEF TransportAssumption, Position!JitterAssumption
<1>2. CASE Position!Gmac
  <2>1. PICK pos \in 0 .. MaxPos :
          /\ key_gmac_index_current' = Position!Larger(Position!GmacIndex(pos), key_gmac_index_current)
          /\ mac' = [pos |-> pos,
                     index |-> IF Position!GmacIndex(pos) < key_gmac_index_current
                       THEN Position!GmacIndex(pos)
                               ELSE key_gmac_index_current']
    BY <1>2 DEF Position!Gmac
  <2>2. UNCHANGED <<key_state, widened>>
    BY <1>2 DEF Position!Gmac
  <2> DEFINE index == Position!GmacIndex(pos)
  <2>3. index \in 0 .. pos /\ pos \in Nat
    BY <1>1, <2>1, GmacIndexBound, SMT
  <2>4. index \in Nat /\ index \in 0 .. MaxPos /\ key_gmac_index_current \in 0 .. MaxPos
    BY <1>1, <2>1, <2>3, SMT DEF PositionInv, Position!TypeOK
  <2>5. key_gmac_index_current' = IF index > key_gmac_index_current THEN index ELSE key_gmac_index_current
    BY <2>1 DEF Position!Larger
  <2> HIDE DEF index
  <2>6. mac' = [pos |-> pos, index |-> IF index < key_gmac_index_current THEN index
                                       ELSE key_gmac_index_current']
    BY <2>1 DEF index
  <2>7. (IF index < key_gmac_index_current THEN index ELSE key_gmac_index_current') = index
    BY <2>4, <2>5, SMT
  <2>8. mac' = [pos |-> pos, index |-> index]
    BY <2>6, <2>7
  <2>9. Position!TypeOK'
    BY <2>1, <2>2, <2>4, <2>5, <2>8 DEF PositionInv, Position!TypeOK
  <2>10. Position!RightPosition' /\ Position!RightMacKey'
    BY <2>2, <2>8 DEF PositionInv, Position!RightPosition, Position!RightMacKey, index
  <2> QED
    BY <2>9, <2>10 DEF PositionInv
<1>3. ASSUME NEW pos \in Position!Arriving, Position!Widens(pos), key_state' \in {key_state,
               widened'.computed},
             UNCHANGED <<key_gmac_index_current, mac>>
      PROVE  PositionInv'
  <2>1. pos \in 0 .. MaxPos /\ widened' = [true |-> pos, computed |-> pos] /\ pos \in Nat
    BY <1>3, PositionWidens
  <2> QED
    BY <1>3, <2>1 DEF PositionInv, Position!TypeOK, Position!RightPosition, Position!RightMacKey
<1>4. CASE Position!HandlePacketMac
  BY <1>3, <1>4 DEF Position!HandlePacketMac
<1>5. CASE Position!ParseMessage \/ Position!AvPacketParse
  BY <1>3, <1>5 DEF Position!ParseMessage, Position!AvPacketParse, Position!Parses
<1>6. CASE UNCHANGED Position!vars
  BY <1>6 DEF Position!vars, PositionInv, Position!TypeOK, Position!RightPosition, Position!RightMacKey
<1> QED
  BY <1>2, <1>4, <1>5, <1>6 DEF Position!Next

-----------------------------------------------------------------------------
(* The feedback sender                                                      *)

\* The buttons by name.
LEMMA ButtonNames ==
  /\ Feedback!ButtonList = <<"cross", "options", "share", "ps">>
  /\ DOMAIN Feedback!ButtonList = 1 .. 4
  /\ Feedback!Buttons = {"cross", "options", "share", "ps"}
  /\ Feedback!Pressable = {"cross", "options", "share"}
<1>1. Feedback!ButtonList = <<"cross", "options", "share", "ps">>
  BY DEF Feedback!ButtonList
<1>2. /\ DOMAIN Feedback!ButtonList = 1 .. 4
      /\ Feedback!ButtonList[1] = "cross" /\ Feedback!ButtonList[2] = "options"
           /\ Feedback!ButtonList[3] = "share" /\ Feedback!ButtonList[4] = "ps"
  BY <1>1
<1>3. Feedback!Buttons = {Feedback!ButtonList[i] : i \in 1 .. 4}
  BY <1>2 DEF Feedback!Buttons, Feedback!ToSet
<1>4. Feedback!Buttons = {"cross", "options", "share", "ps"}
  <2>1. 1 .. 4 = {1, 2, 3, 4}
    BY SMT
  <2> QED
    BY <1>2, <1>3, <2>1
<1> QED
  BY <1>1, <1>2, <1>4 DEF Feedback!Pressable

\* The event of a pass is one of a button.
LEMMA NextIsButton ==
  ASSUME Feedback!Pending # {}
  PROVE  Feedback!NextButton \in Feedback!Buttons
<1> DEFINE S == {i \in DOMAIN Feedback!ButtonList : Feedback!ButtonList[i] \in Feedback!Pending}
<1>1. S \subseteq 1 .. 4 /\ S # {}
  <2>1. PICK b \in Feedback!Buttons : b \in Feedback!Pending
    BY DEF Feedback!Pending
  <2>2. \E i \in 1 .. 4 : Feedback!ButtonList[i] = b
    BY <2>1, ButtonNames DEF Feedback!Buttons, Feedback!ToSet
  <2> QED
    BY <2>1, <2>2, ButtonNames
<1>2. \E i \in S : \A j \in S : i <= j
  <2>1. CASE 1 \in S
    BY <1>1, <2>1, SMT
  <2>2. CASE 1 \notin S /\ 2 \in S
    BY <1>1, <2>2, SMT
  <2>3. CASE 1 \notin S /\ 2 \notin S /\ 3 \in S
    BY <1>1, <2>3, SMT
  <2>4. CASE 1 \notin S /\ 2 \notin S /\ 3 \notin S
    BY <1>1, <2>4, SMT
  <2> QED
    BY <2>1, <2>2, <2>3, <2>4
<1>3. Feedback!Min(S) \in S
  BY <1>2 DEF Feedback!Min
<1>4. Feedback!NextButton = Feedback!ButtonList[Feedback!Min(S)]
  BY DEF Feedback!NextButton
<1> QED
  BY <1>1, <1>3, <1>4, ButtonNames DEF Feedback!Buttons, Feedback!ToSet

\* The buttons that are told of are in the list.
LEMMA SeenType == \A new, view : Feedback!Seen(new, view) \subseteq Feedback!Buttons
  BY DEF Feedback!Seen

\* No event, nothing new.
LEMMA SeenNothing ==
  ASSUME NEW view \in SUBSET Feedback!Buttons
  PROVE  Feedback!Seen(<<>>, view) = view
<1>1. DOMAIN <<>> = {}
  OBVIOUS
<1> QED
  BY <1>1 DEF Feedback!Seen

\* One event after the others.
LEMMA SeenInTurn ==
  ASSUME NEW event \in Feedback!Events, NEW new \in Seq(Feedback!Events),
           NEW view \in SUBSET Feedback!Buttons
  PROVE  Feedback!Seen(<<event>> \o new, view) = Feedback!Seen(<<event>>, Feedback!Seen(new, view))
<1> DEFINE all == <<event>> \o new
           Of(s, b) == {i \in DOMAIN s : s[i].button = b}
           Says(s, b) == \E i \in Of(s, b) : s[i].down /\ \A j \in Of(s, b) : i <= j
<1>1. /\ all \in Seq(Feedback!Events) /\ DOMAIN all = 1 .. Len(new) + 1 /\ DOMAIN new = 1 .. Len(new)
           /\ Len(new) \in Nat
      /\ all[1] = event
      /\ \A i \in 1 .. Len(new) : all[i + 1] = new[i]
  BY SMT
<1>2. DOMAIN <<event>> = {1} /\ <<event>>[1] = event
  BY SMT
<1>3. \A s, v : \A b \in Feedback!Buttons : b \in Feedback!Seen(s, v)
        <=> IF Of(s, b) # {} THEN Says(s, b) ELSE b \in v
  BY DEF Feedback!Seen
<1> HIDE DEF all
<1>4. ASSUME NEW b \in Feedback!Buttons, b = event.button
      PROVE  b \in Feedback!Seen(all, view) <=> b \in Feedback!Seen(<<event>>, Feedback!Seen(new, view))
  <2>1. 1 \in Of(all, b) /\ (Says(all, b) <=> event.down)
    <3>1. 1 \in Of(all, b) /\ \A j \in Of(all, b) : 1 <= j
      BY <1>1, <1>4, SMT
    <3>2. \A i \in Of(all, b) : (\A j \in Of(all, b) : i <= j) => i = 1
      BY <1>1, <3>1, SMT
    <3> QED
      BY <1>1, <3>1, <3>2
  <2>2. Of(<<event>>, b) = {1} /\ (Says(<<event>>, b) <=> event.down)
    BY <1>2, <1>4, SMT
  <2> QED
    BY <1>3, <2>1, <2>2
<1>5. ASSUME NEW b \in Feedback!Buttons, b # event.button
      PROVE  b \in Feedback!Seen(all, view) <=> b \in Feedback!Seen(<<event>>, Feedback!Seen(new, view))
  <2>1. Of(<<event>>, b) = {}
    BY <1>2, <1>5
  <2>2. \A i \in 1 .. Len(new) : i + 1 \in Of(all, b) <=> i \in Of(new, b)
    BY <1>1, SMT
  <2>3. \A i \in Of(all, b) : i - 1 \in Of(new, b) /\ i \in Int
    <3> SUFFICES ASSUME NEW i \in Of(all, b) PROVE i - 1 \in Of(new, b) /\ i \in Int
      OBVIOUS
    <3>1. i \in 1 .. Len(new) + 1 /\ i # 1
      BY <1>1, <1>5
    <3>2. i - 1 \in 1 .. Len(new) /\ (i - 1) + 1 = i
      BY <1>1, <3>1, SMT
    <3> QED
      BY <2>2, <3>2
  <2>4. \A i \in Of(new, b) : i + 1 \in Of(all, b) /\ i \in 1 .. Len(new)
    BY <1>1, <2>2
  <2>5. Says(all, b) <=> Says(new, b)
    <3>1. ASSUME NEW i \in Of(all, b), all[i].down, \A j \in Of(all, b) : i <= j
          PROVE  Says(new, b)
      <4>1. i - 1 \in Of(new, b) /\ i \in Int /\ i - 1 \in 1 .. Len(new)
        BY <2>3, <2>4, <3>1
      <4>2. new[i - 1] = all[i]
        <5>1. (i - 1) + 1 = i
          BY <4>1, SMT
        <5> QED
          BY <1>1, <4>1, <5>1
      <4>3. \A j \in Of(new, b) : i - 1 <= j
        <5> SUFFICES ASSUME NEW j \in Of(new, b) PROVE i - 1 <= j
          OBVIOUS
        <5>1. i <= j + 1 /\ j \in 1 .. Len(new)
          BY <2>4, <3>1
        <5> QED
          BY <4>1, <5>1, SMT
      <4> QED
        BY <3>1, <4>1, <4>2, <4>3
    <3>2. ASSUME NEW i \in Of(new, b), new[i].down, \A j \in Of(new, b) : i <= j
          PROVE  Says(all, b)
      <4>1. i + 1 \in Of(all, b) /\ i \in 1 .. Len(new) /\ all[i + 1] = new[i]
        BY <1>1, <2>4
      <4>2. \A j \in Of(all, b) : i + 1 <= j
        <5> SUFFICES ASSUME NEW j \in Of(all, b) PROVE i + 1 <= j
          OBVIOUS
        <5>1. i <= j - 1 /\ j \in Int
          BY <2>3, <3>2
        <5> QED
          BY <4>1, <5>1, SMT
      <4> QED
        BY <3>2, <4>1, <4>2
    <3> QED
      BY <3>1, <3>2
  <2>6. Of(all, b) # {} <=> Of(new, b) # {}
    BY <2>3, <2>4
  <2> HIDE DEF Of, Says
  <2> QED
    BY <1>3, <2>1, <2>5, <2>6
<1>6. Feedback!Seen(all, view) \subseteq Feedback!Buttons
        /\ Feedback!Seen(<<event>>, Feedback!Seen(new, view)) \subseteq Feedback!Buttons
  BY SeenType
<1> QED
  BY <1>4, <1>5, <1>6 DEF all

\* What a packet has when n packets before it were lost.
LEMMA PushCovers ==
  ASSUME Feedback!SenderAssumption, NEW buf \in Seq(Feedback!Events), Len(buf) <= HistorySize,
           NEW event \in Feedback!Events,
         NEW n \in 0 .. HistorySize - 1, n <= Len(buf)
  PROVE  /\ Feedback!HistoryPush(buf, event) \in Seq(Feedback!Events)
         /\ Len(Feedback!HistoryPush(buf, event)) <= HistorySize
              /\ n + 1 <= Len(Feedback!HistoryPush(buf, event))
         /\ SubSeq(Feedback!HistoryPush(buf, event), 1, n + 1) = <<event>> \o SubSeq(buf, 1, n)
         /\ Feedback!Min({Len(Feedback!HistoryPush(buf, event)), n + 1}) = n + 1
<1> DEFINE keep == IF Len(buf) <= HistorySize - 1 THEN Len(buf) ELSE HistorySize - 1
           kept == SubSeq(buf, 1, keep)
           new == <<event>> \o kept
<1>1. HistorySize \in Nat /\ HistorySize > 0 /\ Len(buf) \in Nat
  BY DEF Feedback!SenderAssumption
<1>2. keep \in Nat /\ n <= keep /\ keep <= Len(buf) /\ keep + 1 <= HistorySize
  BY <1>1, SMT
<1>3. Feedback!Min({Len(buf), HistorySize - 1}) = keep
  BY <1>1, SMT DEF Feedback!Min
<1>4. Feedback!HistoryPush(buf, event) = new
  BY <1>3 DEF Feedback!HistoryPush
<1> HIDE DEF keep
<1>5. kept \in Seq(Feedback!Events) /\ Len(kept) = keep /\ \A i \in 1 .. keep : kept[i] = buf[i]
  BY <1>1, <1>2, SMT
<1> HIDE DEF kept
<1>6. /\ new \in Seq(Feedback!Events) /\ Len(new) = keep + 1 /\ new[1] = event
      /\ \A i \in 1 .. keep : new[i + 1] = kept[i]
  BY <1>2, <1>5, SMT
<1> HIDE DEF new
<1> DEFINE front == SubSeq(new, 1, n + 1)
           rest == SubSeq(buf, 1, n)
<1>7. front \in Seq(Feedback!Events) /\ Len(front) = n + 1 /\ \A i \in 1 .. n + 1 : front[i] = new[i]
  BY <1>2, <1>6, SMT
<1>8. rest \in Seq(Feedback!Events) /\ Len(rest) = n /\ \A i \in 1 .. n : rest[i] = buf[i]
  BY <1>1, <1>2, SMT
<1> HIDE DEF front, rest
<1>9. front = <<event>> \o rest
  <2>1. /\ <<event>> \o rest \in Seq(Feedback!Events) /\ Len(<<event>> \o rest) = n + 1
        /\ (<<event>> \o rest)[1] = event
        /\ \A i \in 1 .. n : (<<event>> \o rest)[i + 1] = rest[i]
    BY <1>8, SMT
  <2> DEFINE joined == <<event>> \o rest
  <2> HIDE DEF joined
  <2>2. \A i \in 1 .. n + 1 : front[i] = joined[i]
    <3> SUFFICES ASSUME NEW i \in 1 .. n + 1 PROVE front[i] = joined[i]
      OBVIOUS
    <3>1. CASE i = 1
      BY <1>6, <1>7, <2>1, <3>1 DEF joined
    <3>2. CASE i # 1
      <4>1. i - 1 \in 1 .. n /\ i - 1 \in 1 .. keep /\ (i - 1) + 1 = i
        BY <1>2, <3>2, SMT
      <4>2. front[i] = buf[i - 1]
        BY <1>5, <1>6, <1>7, <4>1
      <4>3. joined[i] = buf[i - 1]
        BY <1>8, <2>1, <4>1 DEF joined
      <4> QED
        BY <4>2, <4>3
    <3> QED
      BY <3>1, <3>2
  <2>3. joined \in Seq(Feedback!Events) /\ Len(joined) = n + 1
    BY <2>1 DEF joined
  <2>4. front = joined
    BY <1>7, <2>2, <2>3, SMT
  <2> QED
    BY <2>4 DEF joined
<1>10. Feedback!Min({Len(new), n + 1}) = n + 1
  BY <1>2, <1>6, SMT DEF Feedback!Min
<1> QED
  BY <1>2, <1>4, <1>6, <1>9, <1>10, SMT DEF front, rest

\* What chiaki_ps_chord_apply does to the chord, branch by branch.
LEMMA ChordBranches ==
  ASSUME Feedback!SenderAssumption, NEW chord \in Feedback!Chords, NEW buttons
  PROVE  LET t == Feedback!ChordAfter(chord, buttons) IN
         /\ t \in Feedback!Chords /\ t.enabled = chord.enabled
         /\ ~chord.enabled => t = chord
         /\ (chord.enabled /\ Feedback!Starts(chord, buttons))
              => t.start = 0 /\ t.fired = chord.fired /\ ~t.releasing
         /\ (chord.enabled /\ Feedback!Held(buttons) /\ ~Feedback!Starts(chord, buttons)) =>
              /\ t.start = chord.start /\ t.releasing = chord.releasing
              /\ t.fired = (chord.fired \/ Feedback!Fires(chord, buttons))
         /\ (chord.enabled /\ Feedback!ReleaseTail(chord, buttons)) =>
              t.start = chord.start /\ t.fired = chord.fired /\ t.releasing
         /\ (chord.enabled /\ ~Feedback!Held(buttons) /\ ~Feedback!ReleaseTail(chord, buttons)) =>
              t.start = Feedback!Unset /\ ~t.fired /\ ~t.releasing
<1> DEFINE t == Feedback!Tracked(chord, buttons)
           a == Feedback!ChordAfter(chord, buttons)
<1>1. Hold \in Nat /\ Hold > 0 /\ Pulse \in Nat /\ Pulse > 0
  BY DEF Feedback!SenderAssumption
<1>2. /\ chord.enabled \in BOOLEAN /\ chord.start \in Feedback!Unset .. Hold
           /\ chord.pulse \in Feedback!Unset .. Pulse
      /\ chord.fired \in BOOLEAN /\ chord.releasing \in BOOLEAN
  BY DEF Feedback!Chords
<1>3. t \in Feedback!Chords
  <2>1. {Feedback!Unset, 0, Pulse} \subseteq Feedback!Unset .. Pulse
          /\ {Feedback!Unset, 0} \subseteq Feedback!Unset .. Hold
    BY <1>1, SMT DEF Feedback!Unset
  <2>2. \A s \in Feedback!Unset .. Hold, r \in BOOLEAN : [chord EXCEPT !.start = s,
          !.releasing = r] \in Feedback!Chords
    BY DEF Feedback!Chords
  <2>3. [chord EXCEPT !.start = Feedback!Unset, !.fired = FALSE, !.releasing = FALSE] \in Feedback!Chords
    BY <2>1 DEF Feedback!Chords
  <2>4. [chord EXCEPT !.fired = TRUE, !.pulse = Pulse] \in Feedback!Chords
    BY <2>1 DEF Feedback!Chords
  <2>5. [chord EXCEPT !.releasing = TRUE] \in Feedback!Chords
    BY DEF Feedback!Chords
  <2> QED
    BY <2>1, <2>2, <2>3, <2>4, <2>5 DEF Feedback!Tracked
<1>4. ~chord.enabled => a = chord
  BY DEF Feedback!ChordAfter
<1>5. chord.enabled => a = [t EXCEPT !.pulse = IF @ = 0 THEN Feedback!Unset ELSE @]
  BY DEF Feedback!ChordAfter
<1> HIDE DEF a
<1>6. /\ chord.enabled => /\ a \in Feedback!Chords /\ a.enabled = t.enabled /\ a.start = t.start
                          /\ a.fired = t.fired /\ a.releasing = t.releasing
  <2> HIDE DEF t
  <2> QED
    BY <1>1, <1>3, <1>5, SMT DEF Feedback!Chords, Feedback!Unset
<1>7. t.enabled = chord.enabled
  BY DEF Feedback!Tracked, Feedback!Chords
<1>8. Feedback!Starts(chord, buttons)
        => t.start = 0 /\ t.fired = chord.fired /\ ~t.releasing /\ Feedback!Held(buttons)
  BY DEF Feedback!Tracked, Feedback!Chords, Feedback!Starts
<1>9. (Feedback!Held(buttons) /\ ~Feedback!Starts(chord, buttons)) =>
         /\ t.start = chord.start /\ t.releasing = chord.releasing
         /\ t.fired = (chord.fired \/ Feedback!Fires(chord, buttons))
  BY <1>2 DEF Feedback!Tracked, Feedback!Chords
<1>10. Feedback!ReleaseTail(chord, buttons) =>
         t.start = chord.start /\ t.fired = chord.fired /\ t.releasing
  BY <1>2 DEF Feedback!Tracked, Feedback!Chords, Feedback!ReleaseTail, Feedback!Starts, Feedback!Fires
<1>11. (~Feedback!Held(buttons) /\ ~Feedback!ReleaseTail(chord, buttons))
         => t.start = Feedback!Unset /\ ~t.fired /\ ~t.releasing
  BY <1>2 DEF Feedback!Tracked, Feedback!Chords, Feedback!Starts, Feedback!Fires
<1> HIDE DEF t
<1> QED
  BY <1>4, <1>6, <1>7, <1>8, <1>9, <1>10, <1>11 DEF a

\* The buttons that are sent: the chord leaves "cross" alone, and keeps its own two.
LEMMA ButtonsSent ==
  ASSUME NEW chord, NEW buttons \in SUBSET Feedback!Pressable
  PROVE  /\ Feedback!ButtonsAfter(chord, buttons) \subseteq Feedback!Buttons
         /\ "cross" \in Feedback!ButtonsAfter(chord, buttons) <=> "cross" \in buttons
         /\ (chord.enabled /\ (Feedback!Held(buttons) \/ Feedback!ReleaseTail(chord, buttons))) =>
              Feedback!ButtonsAfter(chord, buttons) \cap Feedback!Sources = {}
<1>1. "ps" \notin Feedback!Sources /\ "cross" \notin Feedback!Sources /\ "ps" \in Feedback!Buttons
        /\ Feedback!Pressable \subseteq Feedback!Buttons
  BY ButtonNames DEF Feedback!Sources
<1>2. Feedback!Suppressed(chord, buttons) \subseteq Feedback!Sources
  BY DEF Feedback!Suppressed
<1>3. (Feedback!Held(buttons) \/ Feedback!ReleaseTail(chord, buttons))
        => Feedback!Suppressed(chord, buttons) = Feedback!Sources
  BY DEF Feedback!Suppressed
<1> QED
  BY <1>1, <1>2, <1>3 DEF Feedback!ButtonsAfter

LEMMA FeedbackInit ==
  ASSUME Feedback!SenderAssumption
  PROVE  Feedback!Init => Feedback!Inv
<1> SUFFICES ASSUME Feedback!Init PROVE Feedback!Inv
  OBVIOUS
<1>1. /\ Hold \in Nat /\ Hold > 0 /\ Pulse \in Nat /\ Pulse > 0
      /\ MaxWait \in Nat /\ HistorySize \in Nat /\ HistorySize > 0
  BY DEF Feedback!SenderAssumption
<1>2. Feedback!Idle(FALSE) \in Feedback!Chords /\ Feedback!Idle(FALSE).start = Feedback!Unset
        /\ ~Feedback!Idle(FALSE).fired /\ ~Feedback!Idle(FALSE).enabled
  BY <1>1, SMT DEF Feedback!Idle, Feedback!Chords, Feedback!Unset
<1>3. history_buf \in Seq(Feedback!Events) /\ Len(history_buf) = 0
  BY SMT DEF Feedback!Init
<1>4. Feedback!TypeOK
  <2>1. 0 \in 0 .. MaxWait /\ Feedback!Unset \in Feedback!Unset .. Hold /\ 0 \in 0 .. HistorySize - 1
          /\ 0 <= HistorySize
    BY <1>1, SMT DEF Feedback!Unset
  <2> QED
    BY <1>2, <1>3, <2>1 DEF Feedback!Init, Feedback!TypeOK
<1>5. Feedback!BufferCovers
  <2>1. SubSeq(<<>>, 1, 0) = <<>>
    BY SMT
  <2>2. Feedback!Seen(<<>>, {}) = {}
    BY SeenNothing
  <2>3. controller_state_prev = Feedback!Seen(SubSeq(history_buf, 1, lost), console)
    BY <2>1, <2>2 DEF Feedback!Init
  <2>4. lost <= Len(history_buf)
    BY <1>3, SMT DEF Feedback!Init
  <2> QED
    BY <1>3, <2>3, <2>4 DEF Feedback!BufferCovers
<1>6. Feedback!NotBegun /\ Feedback!CrossFollows /\ Feedback!EngagedIsSilent
  BY DEF Feedback!NotBegun, Feedback!CrossFollows, Feedback!EngagedIsSilent, Feedback!Init
<1>7. Feedback!ChordAgrees
  BY <1>2 DEF Feedback!ChordAgrees, Feedback!Init
<1> QED
  BY <1>4, <1>5, <1>6, <1>7 DEF Feedback!Inv

\* The chord after a change of the settings.
LEMMA Forgotten ==
  ASSUME Feedback!SenderAssumption, NEW enabled \in BOOLEAN
  PROVE  /\ Feedback!Idle(enabled) \in Feedback!Chords /\ Feedback!Idle(enabled).enabled = enabled
         /\ Feedback!Idle(enabled).start = Feedback!Unset /\ ~Feedback!Idle(enabled).fired
              /\ ~Feedback!Idle(enabled).releasing
         /\ ~enabled => Feedback!Idle(enabled) = Feedback!Idle(FALSE)
<1>1. Feedback!Unset \in Feedback!Unset .. Hold /\ Feedback!Unset \in Feedback!Unset .. Pulse
  BY SMT DEF Feedback!SenderAssumption, Feedback!Unset
<1> QED
  BY <1>1 DEF Feedback!Idle, Feedback!Chords

LEMMA FeedbackClientPushes ==
  ASSUME Feedback!SenderAssumption, Feedback!Inv, NEW state \in SUBSET Feedback!Pressable,
           Feedback!ClientPushes(state)
  PROVE  Feedback!Inv'
<1> USE DEF Feedback!ClientPushes, Feedback!SessionSets, Feedback!SetControllerState, Feedback!netVars,
       Feedback!histVars
<1>1. Feedback!TypeOK'
  BY DEF Feedback!Inv, Feedback!TypeOK
<1>2. Feedback!NotBegun' /\ Feedback!CrossFollows'
  BY DEF Feedback!Inv, Feedback!TypeOK, Feedback!NotBegun, Feedback!CrossFollows
<1>3. Feedback!EngagedIsSilent' /\ Feedback!ChordAgrees'
  BY DEF Feedback!Inv, Feedback!EngagedIsSilent, Feedback!ChordAgrees
<1>4. Feedback!BufferCovers'
  BY DEF Feedback!Inv, Feedback!BufferCovers
<1> QED
  BY <1>1, <1>2, <1>3, <1>4 DEF Feedback!Inv

LEMMA FeedbackClientSetsChord ==
  ASSUME Feedback!SenderAssumption, Feedback!Inv, NEW enabled \in BOOLEAN, Feedback!ClientSetsChord(enabled)
  PROVE  Feedback!Inv'
<1> USE DEF Feedback!ClientSetsChord, Feedback!Forget, Feedback!ownerVars, Feedback!threadVars,
       Feedback!netVars
<1>1. Feedback!TypeOK'
  <2>1. Feedback!Unset \in Feedback!Unset .. Hold
    BY SMT DEF Feedback!SenderAssumption, Feedback!Unset
  <2> QED
    BY <2>1, Forgotten DEF Feedback!Inv, Feedback!TypeOK
<1>2. Feedback!NotBegun' /\ Feedback!CrossFollows'
  BY DEF Feedback!Inv, Feedback!NotBegun, Feedback!CrossFollows
<1>3. Feedback!EngagedIsSilent' /\ Feedback!ChordAgrees'
  BY Forgotten DEF Feedback!EngagedIsSilent, Feedback!ChordAgrees
<1>4. Feedback!BufferCovers'
  BY DEF Feedback!Inv, Feedback!BufferCovers
<1> QED
  BY <1>1, <1>2, <1>3, <1>4 DEF Feedback!Inv

LEMMA FeedbackStart ==
  ASSUME Feedback!SenderAssumption, Feedback!Inv, NEW enabled \in BOOLEAN, Feedback!Start(enabled)
  PROVE  Feedback!Inv'
<1> USE DEF Feedback!Start, Feedback!SetControllerState, Feedback!netVars, Feedback!histVars
<1>1. Feedback!TypeOK'
  <2>1. 0 \in 0 .. MaxWait
    BY SMT DEF Feedback!SenderAssumption
  <2> QED
    BY <2>1, Forgotten DEF Feedback!Inv, Feedback!TypeOK
<1>2. Feedback!NotBegun'
  BY DEF Feedback!Inv, Feedback!NotBegun
<1>3. Feedback!CrossFollows'
  BY DEF Feedback!Inv, Feedback!NotBegun, Feedback!CrossFollows, Feedback!TypeOK
<1>4. Feedback!EngagedIsSilent' /\ Feedback!ChordAgrees'
  BY Forgotten DEF Feedback!Inv, Feedback!NotBegun, Feedback!EngagedIsSilent, Feedback!ChordAgrees
<1>5. Feedback!BufferCovers'
  BY DEF Feedback!Inv, Feedback!BufferCovers
<1> QED
  BY <1>1, <1>2, <1>3, <1>4, <1>5 DEF Feedback!Inv

LEMMA FeedbackFini ==
  ASSUME Feedback!Inv, Feedback!FiniStops \/ Feedback!FiniJoins
  PROVE  Feedback!Inv'
<1> USE DEF Feedback!FiniStops, Feedback!FiniJoins, Feedback!threadVars, Feedback!netVars, Feedback!histVars
<1>1. Feedback!TypeOK'
  BY DEF Feedback!Inv, Feedback!TypeOK
<1>2. Feedback!NotBegun' /\ Feedback!CrossFollows'
  BY DEF Feedback!Inv, Feedback!NotBegun, Feedback!CrossFollows
<1>3. Feedback!EngagedIsSilent' /\ Feedback!ChordAgrees'
  <2>1. UNCHANGED <<ps_chord, heldSince, armed, engaged, controller_state, controller_state_prev>>
    OBVIOUS
  <2>2. feedback_sender # "sending" /\ feedback_sender' # "sending"
    BY DEF Feedback!Inv, Feedback!NotBegun
  <2>3. Feedback!EngagedIsSilent'
    BY <2>1, <2>2 DEF Feedback!Inv, Feedback!EngagedIsSilent
  <2>4. Feedback!ChordAgrees'
    BY <2>1 DEF Feedback!Inv, Feedback!ChordAgrees
  <2> QED
    BY <2>3, <2>4
<1>4. Feedback!BufferCovers'
  BY DEF Feedback!Inv, Feedback!BufferCovers
<1> QED
  BY <1>1, <1>2, <1>3, <1>4 DEF Feedback!Inv

LEMMA FeedbackSendEnds ==
  ASSUME Feedback!SenderAssumption, Feedback!Inv, Feedback!SendEnds
  PROVE  Feedback!Inv'
<1> USE DEF Feedback!SendEnds, Feedback!ownerVars, Feedback!netVars, Feedback!histVars
<1>1. \A button \in Feedback!Buttons : button \in controller_state_prev <=> button \in controller_state
  BY DEF Feedback!Pending
<1>2. controller_state_prev = controller_state
  BY <1>1 DEF Feedback!Inv, Feedback!TypeOK
<1>3. Feedback!TypeOK'
  <2>1. 0 \in 0 .. MaxWait
    BY SMT DEF Feedback!SenderAssumption
  <2> QED
    BY <2>1 DEF Feedback!Inv, Feedback!TypeOK
<1>4. Feedback!NotBegun'
  BY DEF Feedback!Inv, Feedback!NotBegun
<1>5. Feedback!CrossFollows'
  BY <1>2 DEF Feedback!Inv, Feedback!CrossFollows
<1>6. Feedback!EngagedIsSilent' /\ Feedback!ChordAgrees'
  BY <1>2 DEF Feedback!Inv, Feedback!EngagedIsSilent, Feedback!ChordAgrees
<1>7. Feedback!BufferCovers'
  BY DEF Feedback!Inv, Feedback!BufferCovers
<1> QED
  BY <1>3, <1>4, <1>5, <1>6, <1>7 DEF Feedback!Inv

LEMMA FeedbackThread ==
  ASSUME Feedback!Inv, Feedback!WakeToStop \/ Feedback!CallbackEnters
  PROVE  Feedback!Inv'
<1> USE DEF Feedback!WakeToStop, Feedback!CallbackEnters, Feedback!ownerVars, Feedback!netVars,
       Feedback!histVars
<1>1. Feedback!TypeOK'
  BY DEF Feedback!Inv, Feedback!TypeOK
<1>2. Feedback!NotBegun' /\ Feedback!CrossFollows'
  BY DEF Feedback!Inv, Feedback!NotBegun, Feedback!CrossFollows
<1>3. Feedback!EngagedIsSilent' /\ Feedback!ChordAgrees'
  <2>1. UNCHANGED <<ps_chord, heldSince, armed, engaged, controller_state, controller_state_prev>>
    OBVIOUS
  <2>2. feedback_sender # "sending" /\ feedback_sender' # "sending"
    BY DEF Feedback!Inv, Feedback!NotBegun
  <2>3. Feedback!EngagedIsSilent'
    BY <2>1, <2>2 DEF Feedback!Inv, Feedback!EngagedIsSilent
  <2>4. Feedback!ChordAgrees'
    BY <2>1 DEF Feedback!Inv, Feedback!ChordAgrees
  <2> QED
    BY <2>3, <2>4
<1>4. Feedback!BufferCovers'
  BY DEF Feedback!Inv, Feedback!BufferCovers
<1> QED
  BY <1>1, <1>2, <1>3, <1>4 DEF Feedback!Inv

LEMMA FeedbackCallbackPushes ==
  ASSUME Feedback!SenderAssumption, Feedback!Inv, NEW state \in SUBSET Feedback!Pressable,
           Feedback!CallbackPushes(state)
  PROVE  Feedback!Inv'
<1> USE DEF Feedback!CallbackPushes, Feedback!SessionSets, Feedback!SetControllerState, Feedback!netVars,
       Feedback!histVars
<1>1. Feedback!TypeOK'
  BY DEF Feedback!Inv, Feedback!TypeOK
<1>2. Feedback!NotBegun' /\ Feedback!CrossFollows'
  BY DEF Feedback!Inv, Feedback!TypeOK, Feedback!NotBegun, Feedback!CrossFollows
<1>3. Feedback!EngagedIsSilent' /\ Feedback!ChordAgrees'
  BY DEF Feedback!Inv, Feedback!EngagedIsSilent, Feedback!ChordAgrees
<1>4. Feedback!BufferCovers'
  BY DEF Feedback!Inv, Feedback!BufferCovers
<1> QED
  BY <1>1, <1>2, <1>3, <1>4 DEF Feedback!Inv

\* The chord grows older with what the wakes saw.
LEMMA FeedbackTick ==
  ASSUME Feedback!SenderAssumption, Feedback!Inv, Feedback!Tick
  PROVE  Feedback!Inv'
<1> USE DEF Feedback!Tick, Feedback!ownerVars, Feedback!netVars
<1>1. Hold \in Nat /\ Hold > 0 /\ Pulse \in Nat /\ Pulse > 0 /\ MaxWait \in Nat
  BY DEF Feedback!SenderAssumption
<1>2. /\ ps_chord \in Feedback!Chords /\ heldSince \in Feedback!Unset .. Hold
           /\ feedback_waited \in 0 .. MaxWait
      /\ ps_chord.start \in Feedback!Unset .. Hold /\ ps_chord.pulse \in Feedback!Unset .. Pulse
  BY DEF Feedback!Inv, Feedback!TypeOK, Feedback!Chords
<1>3. /\ ps_chord'.enabled = ps_chord.enabled /\ ps_chord'.fired = ps_chord.fired
      /\ ps_chord'.releasing = ps_chord.releasing
      /\ ps_chord'.start = (IF ps_chord.start = Feedback!Unset \/ ps_chord.start = Hold THEN ps_chord.start
                            ELSE ps_chord.start + 1)
      /\ ps_chord' \in Feedback!Chords
  <2>1. ps_chord.start = Feedback!Unset \/ ps_chord.start = Hold
          \/ ps_chord.start + 1 \in Feedback!Unset .. Hold
    BY <1>1, <1>2, SMT DEF Feedback!Unset
  <2>2. ps_chord.pulse <= 0 \/ ps_chord.pulse - 1 \in Feedback!Unset .. Pulse
    BY <1>1, <1>2, SMT DEF Feedback!Unset
  <2> QED
    BY <1>2, <2>1, <2>2 DEF Feedback!Later, Feedback!Chords
<1>4. heldSince' = (IF heldSince = Feedback!Unset THEN Feedback!Unset
        ELSE IF heldSince = Hold THEN Hold ELSE heldSince + 1)
  BY <1>1, <1>2, SMT DEF Feedback!Unset, Feedback!Min
<1>5. feedback_waited' \in 0 .. MaxWait
  <2>1. Feedback!Min({feedback_waited + 1, MaxWait}) = IF feedback_waited + 1 <= MaxWait
          THEN feedback_waited + 1 ELSE MaxWait
    BY <1>1, <1>2, SMT DEF Feedback!Min
  <2> QED
    BY <1>1, <1>2, <2>1, SMT
<1>6. heldSince' \in Feedback!Unset .. Hold
  BY <1>1, <1>2, <1>4, SMT DEF Feedback!Unset
<1>7. Feedback!TypeOK'
  BY <1>3, <1>5, <1>6 DEF Feedback!Inv, Feedback!TypeOK
<1>8. Feedback!NotBegun' /\ Feedback!CrossFollows'
  BY DEF Feedback!Inv, Feedback!NotBegun, Feedback!CrossFollows
<1>9. Feedback!EngagedIsSilent'
  <2>1. ps_chord.start # Feedback!Unset => ps_chord'.start # Feedback!Unset
    BY <1>1, <1>2, <1>3, SMT DEF Feedback!Unset
  <2> QED
    BY <1>3, <2>1 DEF Feedback!Inv, Feedback!EngagedIsSilent
<1>10. Feedback!ChordAgrees'
  <2>1. ~ps_chord.enabled => ps_chord' = Feedback!Idle(FALSE)
    <3> SUFFICES ASSUME ps_chord = Feedback!Idle(FALSE) PROVE ps_chord' = ps_chord
      BY DEF Feedback!Inv, Feedback!ChordAgrees
    <3>1. ps_chord.start = Feedback!Unset /\ ps_chord.pulse = Feedback!Unset /\ Feedback!Unset <= 0
      BY SMT DEF Feedback!Idle, Feedback!Unset
    <3>2. ps_chord' = [ps_chord EXCEPT !.start = ps_chord.start, !.pulse = ps_chord.pulse]
      BY <3>1 DEF Feedback!Later
    <3> QED
      BY <1>2, <3>2 DEF Feedback!Chords
  <2>2. (ps_chord'.start # Feedback!Unset /\ ~ps_chord'.releasing) => heldSince' >= ps_chord'.start
    BY <1>1, <1>2, <1>3, <1>4, SMT DEF Feedback!Inv, Feedback!ChordAgrees, Feedback!Unset
  <2>3. ps_chord.start # Feedback!Unset => ps_chord'.start # Feedback!Unset
    BY <1>1, <1>2, <1>3, SMT DEF Feedback!Unset
  <2> QED
    BY <1>3, <2>1, <2>2, <2>3 DEF Feedback!Inv, Feedback!ChordAgrees
<1>11. Feedback!BufferCovers'
  BY DEF Feedback!Inv, Feedback!BufferCovers
<1> QED
  BY <1>7, <1>8, <1>9, <1>10, <1>11 DEF Feedback!Inv

\* An event goes into the buffer, and its packet arrives or is lost.
LEMMA FeedbackSendEvent ==
  ASSUME Feedback!SenderAssumption, Feedback!Inv, Feedback!SendEvent
  PROVE  Feedback!Inv'
<1> DEFINE event == [button |-> Feedback!NextButton, down |-> Feedback!NextButton \in controller_state]
           new == Feedback!HistoryPush(history_buf, event)
<1>1. /\ event \in Feedback!Events
      /\ history_buf' = new /\ controller_state_prev' = Feedback!Seen(<<event>>, controller_state_prev)
  BY NextIsButton DEF Feedback!SendEvent, Feedback!Events
<1>2. Feedback!SendPacket(new)
  BY <1>1 DEF Feedback!SendEvent
<1>3. UNCHANGED <<run, owner, feedback_pushed, feedback_sender, feedback_waited, feedback_should_stop,
        controller_state_changed,
                  controller_state_raw, controller_state, ps_chord, heldSince, armed, engaged>>
      /\ feedback_sender = "sending"
  BY DEF Feedback!SendEvent, Feedback!ownerVars, Feedback!histVars
<1> HIDE DEF event
<1>4. /\ history_buf \in Seq(Feedback!Events) /\ Len(history_buf) <= HistorySize
      /\ lost \in 0 .. HistorySize - 1 /\ lost <= Len(history_buf) /\ console \subseteq Feedback!Buttons
      /\ controller_state_prev = Feedback!Seen(SubSeq(history_buf, 1, lost), console)
  BY DEF Feedback!Inv, Feedback!TypeOK, Feedback!BufferCovers
<1>5. HistorySize \in Nat /\ HistorySize > 0
  BY DEF Feedback!SenderAssumption
<1>6. /\ new \in Seq(Feedback!Events) /\ Len(new) <= HistorySize /\ lost + 1 <= Len(new)
      /\ SubSeq(new, 1, lost + 1) = <<event>> \o SubSeq(history_buf, 1, lost)
      /\ Feedback!Min({Len(new), lost + 1}) = lost + 1
  BY <1>1, <1>4, PushCovers
<1> HIDE DEF new
<1>7. controller_state_prev' = Feedback!Seen(SubSeq(new, 1, lost + 1), console)
  <2>1. SubSeq(history_buf, 1, lost) \in Seq(Feedback!Events)
    BY <1>4, SMT
  <2> DEFINE kept == SubSeq(history_buf, 1, lost)
  <2>2. Feedback!Seen(<<event>> \o kept, console) = Feedback!Seen(<<event>>, Feedback!Seen(kept, console))
    BY <1>1, <1>4, <2>1, SeenInTurn
  <2>3. controller_state_prev' = Feedback!Seen(<<event>>, Feedback!Seen(kept, console))
    BY <1>1, <1>4, Zenon
  <2> QED
    BY <1>6, <2>2, <2>3, Zenon
<1>8. /\ lost' \in 0 .. HistorySize - 1 /\ lost' <= Len(new) /\ console' \subseteq Feedback!Buttons
      /\ controller_state_prev' = Feedback!Seen(SubSeq(new, 1, lost'), console')
  <2>1. CASE lost' = 0 /\ console' = Feedback!Seen(SubSeq(new, 1, lost + 1), console)
    <3>1. console' \subseteq Feedback!Buttons
      BY <2>1, SeenType
    <3>2. SubSeq(new, 1, 0) = <<>>
      BY <1>6, SMT
    <3>3. Feedback!Seen(<<>>, console') = console'
      BY <3>1, SeenNothing
    <3>4. SubSeq(new, 1, lost') = <<>>
      BY <2>1, <3>2
    <3>5. controller_state_prev' = Feedback!Seen(SubSeq(new, 1, lost'), console')
      <4>1. Feedback!Seen(SubSeq(new, 1, lost'), console') = console'
        BY <3>3, <3>4
      <4> QED
        BY <1>7, <2>1, <4>1
    <3>6. lost' \in 0 .. HistorySize - 1 /\ lost' <= Len(new)
      BY <1>5, <1>6, <2>1, SMT
    <3> QED
      BY <3>1, <3>5, <3>6
  <2>2. CASE lost + 1 < HistorySize /\ lost' = lost + 1 /\ UNCHANGED console
    <3>1. lost' \in 0 .. HistorySize - 1
      BY <1>4, <1>5, <2>2, SMT
    <3> QED
      BY <1>4, <1>6, <1>7, <2>2, <3>1
  <2> QED
    BY <1>2, <1>6, <2>1, <2>2 DEF Feedback!SendPacket
<1>9. Feedback!TypeOK'
  <2>1. controller_state_prev' \subseteq Feedback!Buttons
    BY <1>1, SeenType
  <2> QED
    BY <1>1, <1>3, <1>6, <1>8, <2>1 DEF Feedback!Inv, Feedback!TypeOK
<1>10. Feedback!NotBegun' /\ Feedback!CrossFollows'
  BY <1>3 DEF Feedback!Inv, Feedback!NotBegun, Feedback!CrossFollows
<1>11. Feedback!EngagedIsSilent' /\ Feedback!ChordAgrees'
  BY <1>3 DEF Feedback!Inv, Feedback!EngagedIsSilent, Feedback!ChordAgrees
<1>12. Feedback!BufferCovers'
  BY <1>1, <1>6, <1>8 DEF Feedback!BufferCovers
<1> QED
  BY <1>9, <1>10, <1>11, <1>12 DEF Feedback!Inv

\* A wake applies the chord and takes what is to be sent.
LEMMA FeedbackWake ==
  ASSUME Feedback!SenderAssumption, Feedback!Inv, Feedback!Wake
  PROVE  Feedback!Inv'
<1> DEFINE b == controller_state_raw
<1>1. /\ feedback_sender = "waiting" /\ feedback_sender' = "sending" /\ controller_state_changed' = FALSE
      /\ ps_chord' = Feedback!ChordAfter(ps_chord, b)
           /\ controller_state' = Feedback!ButtonsAfter(ps_chord, b)
      /\ UNCHANGED <<run, owner, feedback_pushed, feedback_waited, feedback_should_stop,
           controller_state_raw,
                     controller_state_prev, history_buf, lost, console>>
  BY DEF Feedback!Wake, Feedback!ownerVars, Feedback!netVars
<1>2. /\ heldSince' = IF ps_chord.enabled
           /\ Feedback!Held(b) THEN IF heldSince = Feedback!Unset THEN 0 ELSE heldSince ELSE Feedback!Unset
      /\ armed' = ((armed \/ b \cap Feedback!Sources = {}) /\ ~Feedback!Fires(ps_chord, b))
      /\ engaged' = (ps_chord.enabled /\ (Feedback!Held(b) \/ (engaged /\ b \cap Feedback!Sources # {})))
  BY DEF Feedback!Wake, Feedback!Saw
<1>3. Hold \in Nat /\ Hold > 0
  BY DEF Feedback!SenderAssumption
<1>4. /\ ps_chord \in Feedback!Chords /\ heldSince \in Feedback!Unset .. Hold
           /\ b \subseteq Feedback!Pressable
      /\ ps_chord.start \in Feedback!Unset .. Hold
  BY DEF Feedback!Inv, Feedback!TypeOK, Feedback!Chords
<1> DEFINE c == ps_chord
           d == Feedback!ChordAfter(ps_chord, b)
<1>5. /\ d \in Feedback!Chords /\ d.enabled = c.enabled
      /\ ~c.enabled => d = c
      /\ (c.enabled /\ Feedback!Starts(c, b)) => d.start = 0 /\ d.fired = c.fired /\ ~d.releasing
      /\ (c.enabled /\ Feedback!Held(b) /\ ~Feedback!Starts(c, b)) =>
           /\ d.start = c.start /\ d.releasing = c.releasing
           /\ d.fired = (c.fired \/ Feedback!Fires(c, b))
      /\ (c.enabled /\ Feedback!ReleaseTail(c, b)) => d.start = c.start /\ d.fired = c.fired /\ d.releasing
      /\ (c.enabled /\ ~Feedback!Held(b) /\ ~Feedback!ReleaseTail(c, b))
           => d.start = Feedback!Unset /\ ~d.fired /\ ~d.releasing
  BY <1>4, ChordBranches
<1>6. /\ Feedback!ButtonsAfter(c, b) \subseteq Feedback!Buttons
      /\ "cross" \in Feedback!ButtonsAfter(c, b) <=> "cross" \in b
      /\ (c.enabled /\ (Feedback!Held(b) \/ Feedback!ReleaseTail(c, b)))
           => Feedback!ButtonsAfter(c, b) \cap Feedback!Sources = {}
  BY <1>4, ButtonsSent
<1>7. 0 # Feedback!Unset /\ 0 \in Feedback!Unset .. Hold /\ Feedback!Unset \in Feedback!Unset .. Hold
  BY <1>3, SMT DEF Feedback!Unset
<1> HIDE DEF b, d
<1>8. ps_chord' = d
  BY <1>1 DEF d
<1>9. Feedback!TypeOK'
  <2>1. heldSince' \in Feedback!Unset .. Hold
    BY <1>2, <1>4, <1>7
  <2>2. armed' \in BOOLEAN /\ engaged' \in BOOLEAN
    BY <1>2
  <2> QED
    BY <1>1, <1>5, <1>6, <1>8, <2>1, <2>2 DEF Feedback!Inv, Feedback!TypeOK, b
<1>10. Feedback!NotBegun'
  BY <1>1 DEF Feedback!Inv, Feedback!NotBegun
<1>11. Feedback!CrossFollows'
  BY <1>1, <1>6 DEF Feedback!Inv, Feedback!CrossFollows, b
<1>12. Feedback!EngagedIsSilent'
  <2> SUFFICES ASSUME engaged' PROVE d.enabled /\ d.start # Feedback!Unset
                        /\ controller_state' \cap Feedback!Sources = {}
    BY <1>1, <1>8 DEF Feedback!EngagedIsSilent
  <2>1. c.enabled /\ (Feedback!Held(b) \/ (engaged /\ b \cap Feedback!Sources # {}))
    BY <1>2
  <2>2. CASE Feedback!Held(b)
    <3>1. Feedback!Starts(c, b) \/ c.start # Feedback!Unset
      BY <2>2 DEF Feedback!Starts
    <3> QED
      BY <1>1, <1>5, <1>6, <1>7, <2>1, <2>2, <3>1 DEF b
  <2>3. CASE ~Feedback!Held(b)
    <3>1. Feedback!ReleaseTail(c, b)
      BY <2>1, <2>3 DEF Feedback!Inv, Feedback!EngagedIsSilent, Feedback!ReleaseTail
    <3>2. c.start # Feedback!Unset
      BY <3>1 DEF Feedback!ReleaseTail
    <3> QED
      BY <1>1, <1>5, <1>6, <2>1, <3>1, <3>2 DEF b
  <2> QED
    BY <2>2, <2>3
<1>13. Feedback!ChordAgrees'
  <2>1. ~d.enabled => d = Feedback!Idle(FALSE)
    BY <1>5 DEF Feedback!Inv, Feedback!ChordAgrees
  <2>2. d.fired => d.start # Feedback!Unset
    BY <1>5, <1>7 DEF Feedback!Inv, Feedback!ChordAgrees, Feedback!Starts, Feedback!ReleaseTail
  <2>3. ~d.fired => armed'
    <3> SUFFICES ASSUME ~d.fired PROVE (armed \/ b \cap Feedback!Sources = {}) /\ ~Feedback!Fires(c, b)
      BY <1>2
    <3>1. CASE ~c.enabled
      <4>1. c.start = Feedback!Unset /\ ~c.fired
        BY <3>1 DEF Feedback!Inv, Feedback!ChordAgrees, Feedback!Idle
      <4>2. ~Feedback!Fires(c, b)
        BY <4>1 DEF Feedback!Fires, Feedback!Starts
      <4> QED
        BY <4>1, <4>2 DEF Feedback!Inv, Feedback!ChordAgrees
    <3>2. CASE c.enabled /\ Feedback!Held(b)
      <4>1. ~c.fired /\ ~Feedback!Fires(c, b)
        BY <1>5, <3>2 DEF Feedback!Fires
      <4> QED
        BY <4>1 DEF Feedback!Inv, Feedback!ChordAgrees
    <3>3. CASE c.enabled /\ ~Feedback!Held(b)
      <4>1. ~Feedback!Fires(c, b)
        BY <3>3 DEF Feedback!Fires
      <4>2. CASE Feedback!ReleaseTail(c, b)
        BY <1>5, <3>3, <4>1, <4>2 DEF Feedback!Inv, Feedback!ChordAgrees
      <4>3. CASE ~Feedback!ReleaseTail(c, b)
        BY <3>3, <4>1, <4>3 DEF Feedback!Inv, Feedback!ChordAgrees, Feedback!ReleaseTail
      <4> QED
        BY <4>2, <4>3
    <3> QED
      BY <3>1, <3>2, <3>3
  <2>4. (d.start # Feedback!Unset /\ ~d.releasing) => heldSince' >= d.start
    <3> SUFFICES ASSUME d.start # Feedback!Unset, ~d.releasing PROVE heldSince' >= d.start
      OBVIOUS
    <3>1. c.enabled /\ Feedback!Held(b)
      <4>1. ~c.enabled => c.start = Feedback!Unset
        BY DEF Feedback!Inv, Feedback!ChordAgrees, Feedback!Idle
      <4> QED
        BY <1>5, <4>1
    <3>2. heldSince' = IF heldSince = Feedback!Unset THEN 0 ELSE heldSince
      BY <1>2, <3>1
    <3>3. CASE Feedback!Starts(c, b)
      <4>1. d.start = 0
        BY <1>5, <3>1, <3>3
      <4> QED
        BY <1>3, <1>4, <3>2, <4>1, SMT DEF Feedback!Unset
    <3>4. CASE ~Feedback!Starts(c, b)
      <4>1. d.start = c.start /\ d.releasing = c.releasing
        BY <1>5, <3>1, <3>4
      <4>2. heldSince >= c.start
        BY <4>1 DEF Feedback!Inv, Feedback!ChordAgrees
      <4> QED
        BY <1>3, <1>4, <3>2, <4>1, <4>2, SMT DEF Feedback!Unset
    <3> QED
      BY <3>3, <3>4
  <2> QED
    BY <1>8, <2>1, <2>2, <2>3, <2>4 DEF Feedback!ChordAgrees
<1>14. Feedback!BufferCovers'
  BY <1>1 DEF Feedback!Inv, Feedback!BufferCovers
<1> QED
  BY <1>9, <1>10, <1>11, <1>12, <1>13, <1>14 DEF Feedback!Inv

LEMMA FeedbackStutter ==
  ASSUME Feedback!Inv, UNCHANGED Feedback!vars
  PROVE  Feedback!Inv'
<1> USE DEF Feedback!vars, Feedback!ownerVars, Feedback!threadVars, Feedback!netVars, Feedback!histVars
<1>1. Feedback!TypeOK' /\ Feedback!NotBegun' /\ Feedback!CrossFollows'
  BY DEF Feedback!Inv, Feedback!TypeOK, Feedback!NotBegun, Feedback!CrossFollows
<1>2. Feedback!EngagedIsSilent' /\ Feedback!ChordAgrees' /\ Feedback!BufferCovers'
  BY DEF Feedback!Inv, Feedback!EngagedIsSilent, Feedback!ChordAgrees, Feedback!BufferCovers
<1> QED
  BY <1>1, <1>2 DEF Feedback!Inv

LEMMA FeedbackStep ==
  ASSUME Feedback!SenderAssumption, Feedback!Inv, [Feedback!Next]_Feedback!vars
  PROVE  Feedback!Inv'
BY FeedbackWake, FeedbackSendEvent, FeedbackSendEnds, FeedbackThread, FeedbackCallbackPushes,
   FeedbackTick, FeedbackFini,
   FeedbackClientPushes, FeedbackStart, FeedbackClientSetsChord, FeedbackStutter DEF Feedback!Next,
     Feedback!SenderStep

\* The chord fires in a wake, where start has come to Hold.
LEMMA FiresAfterHold ==
  ASSUME Feedback!SenderAssumption, Feedback!Inv, [Feedback!Next]_Feedback!vars
  PROVE  Feedback!OncePerFullHold
<1> SUFFICES ASSUME Feedback!JustFired PROVE heldSince = Hold /\ armed
  BY DEF Feedback!OncePerFullHold
<1>1. CASE Feedback!Wake
  <2>1. /\ ps_chord' = Feedback!ChordAfter(ps_chord, controller_state_raw) /\ ps_chord \in Feedback!Chords
        /\ heldSince \in Feedback!Unset .. Hold /\ Hold \in Nat /\ ps_chord.start \in Feedback!Unset .. Hold
    BY <1>1 DEF Feedback!Wake, Feedback!Inv, Feedback!TypeOK, Feedback!Chords, Feedback!SenderAssumption
  <2>2. ps_chord.enabled /\ Feedback!Fires(ps_chord, controller_state_raw)
    <3> DEFINE b == controller_state_raw
               d == Feedback!ChordAfter(ps_chord, b)
    <3>1. /\ ~ps_chord.enabled => d = ps_chord
          /\ (ps_chord.enabled /\ Feedback!Starts(ps_chord, b)) => d.fired = ps_chord.fired
          /\ (ps_chord.enabled /\ Feedback!Held(b) /\ ~Feedback!Starts(ps_chord, b)) =>
               d.fired = (ps_chord.fired \/ Feedback!Fires(ps_chord, b))
          /\ (ps_chord.enabled /\ Feedback!ReleaseTail(ps_chord, b)) => d.fired = ps_chord.fired
          /\ (ps_chord.enabled /\ ~Feedback!Held(b) /\ ~Feedback!ReleaseTail(ps_chord, b)) => ~d.fired
      BY <2>1, ChordBranches
    <3>2. ps_chord' = d
      BY <2>1
    <3> HIDE DEF d
    <3>3. ~ps_chord.fired /\ d.fired
      BY <3>2 DEF Feedback!JustFired
    <3> QED
      BY <3>1, <3>3, Zenon
  <2>3. Feedback!Held(controller_state_raw) /\ ps_chord.start # Feedback!Unset /\ ~ps_chord.releasing
          /\ ps_chord.start >= Hold
    BY <2>2 DEF Feedback!Fires, Feedback!Starts
  <2>4. heldSince >= ps_chord.start
    BY <2>3 DEF Feedback!Inv, Feedback!ChordAgrees
  <2>5. heldSince = Hold /\ heldSince # Feedback!Unset
    BY <2>1, <2>3, <2>4, SMT DEF Feedback!Unset
  <2> QED
    BY <2>5 DEF Feedback!JustFired, Feedback!Inv, Feedback!ChordAgrees
<1>2. CASE Feedback!Tick
  BY <1>2 DEF Feedback!Tick, Feedback!Later, Feedback!JustFired, Feedback!Inv, Feedback!TypeOK,
     Feedback!Chords
<1>3. ASSUME NEW enabled \in BOOLEAN, Feedback!Start(enabled) \/ Feedback!ClientSetsChord(enabled)
      PROVE  FALSE
  BY <1>3 DEF Feedback!Start, Feedback!ClientSetsChord, Feedback!Idle, Feedback!JustFired
<1>4. CASE UNCHANGED ps_chord
  BY <1>4 DEF Feedback!JustFired
<1> QED
  BY <1>1, <1>2, <1>3, <1>4 DEF Feedback!Next, Feedback!SenderStep, Feedback!vars, Feedback!SendEvent,
     Feedback!SendEnds, Feedback!WakeToStop, Feedback!CallbackEnters,
     Feedback!CallbackPushes, Feedback!FiniStops, Feedback!FiniJoins, Feedback!ClientPushes

-----------------------------------------------------------------------------
(* The send buffer of Takion: nothing is forgotten, for any number of       *)
(* threads, slots and tries                                                 *)

\* What is sent are the numbers of the run.
LEMMA NumbersOnCircle ==
  /\ SendBuffer!Used \subseteq SendBuffer!SeqNums
  /\ \A a \in SendBuffer!SeqNums : SendBuffer!Add(a, 1) \in SendBuffer!SeqNums
<1>1. SendBuffer!ModulusAssumption /\ SendBuffer!SendBufferAssumption
  BY TransportAssumption DEF TransportAssumption
<1>2. BufferCircle \in Nat /\ BufferCircle > 2
  BY <1>1 DEF SendBuffer!ModulusAssumption
<1>3. \A a \in SendBuffer!SeqNums, k \in 0 .. BufferCircle : SendBuffer!Add(a, k) \in SendBuffer!SeqNums
  BY <1>1, SendBuffer!AddWraps
<1>4. SendBuffer!Half < BufferCircle /\ SendBuffer!Half \in Nat
  BY <1>1, <1>2, SendBuffer!HalfFacts, SMT
<1>5. \A n \in 0 .. BufferSends - 1 : n \in 0 .. BufferCircle
  BY <1>1, <1>2, <1>4, SMT DEF SendBuffer!SendBufferAssumption
<1>6. FirstNumber \in SendBuffer!SeqNums
  BY <1>1 DEF SendBuffer!SendBufferAssumption
<1>7. 1 \in 0 .. BufferCircle
  BY <1>2, SMT
<1>8. SendBuffer!Used \subseteq SendBuffer!SeqNums
  BY <1>3, <1>5, <1>6 DEF SendBuffer!Used, SendBuffer!Sequence
<1> QED
  BY <1>3, <1>7, <1>8

\* The buffer begins empty.
LEMMA BufferInit == SendBuffer!Init => SendBuffer!Inv
<1> SUFFICES ASSUME SendBuffer!Init PROVE SendBuffer!Inv
  OBVIOUS
<1> USE DEF SendBuffer!Init
<1>1. SendBuffer!SendBufferAssumption
  BY TransportAssumption DEF TransportAssumption
<1>2. FirstNumber \in SendBuffer!SeqNums /\ BufferSize \in Nat /\ BufferSize > 0
        /\ BufferTries \in Nat /\ DueAge \in Nat
  BY <1>1 DEF SendBuffer!SendBufferAssumption
<1>3. SendBuffer!NoPacket \in SendBuffer!Packet
  BY <1>2, SMT DEF SendBuffer!NoPacket, SendBuffer!Packet
<1>4. SendBuffer!TypeOK
  <2>1. slots \in [SendBuffer!SlotIds -> SendBuffer!Packet] /\ count \in 0 .. BufferSize
    BY <1>2, <1>3, SMT
  <2>2. 0 \in SendBuffer!SlotIds
    BY <1>2, SMT DEF SendBuffer!SlotIds
  <2>3. resend \in SendBuffer!ResendStates
    BY <1>2, <2>2 DEF SendBuffer!ResendStates
  <2> QED
    BY <1>2, <2>1, <2>3 DEF SendBuffer!TypeOK, SendBuffer!Idle
<1>5. ~\E i \in 0 .. count - 1 : TRUE
  BY SMT
<1> QED
  BY <1>4, <1>5 DEF SendBuffer!Inv, SendBuffer!NothingForgotten, SendBuffer!Idle

\* A step that leaves the packets and their history alone, and gives no packet up,
\* forgets nothing.
LEMMA BufferKept ==
  ASSUME SendBuffer!Inv, SendBuffer!TypeOK',
         UNCHANGED <<slots, count, buffer_sender, sent, buffer_received, refused, buffer_gaveUp>>,
         resend'.pc = "giving_up" => resend'.i \in SendBuffer!SlotIds
  PROVE  SendBuffer!Inv'
  BY DEF SendBuffer!Inv, SendBuffer!NothingForgotten, SendBuffer!Buffered

\* A number is taken; there is nothing to forget yet.
LEMMA BufferTakeSeqNum ==
  ASSUME SendBuffer!Inv, NEW t \in BufferThreads, SendBuffer!TakeSeqNum(t)
  PROVE  SendBuffer!Inv'
<1> USE DEF SendBuffer!TakeSeqNum, SendBuffer!finiVars
<1>1. SendBuffer!TypeOK'
  BY NumbersOnCircle, SMT DEF SendBuffer!Inv, SendBuffer!TypeOK
<1>2. \A u \in BufferThreads : buffer_sender'[u] =
        IF u = t THEN [pc |-> "numbered", seq |-> nextSeq] ELSE buffer_sender[u]
  BY DEF SendBuffer!Inv, SendBuffer!TypeOK
<1>3. SendBuffer!NothingForgotten'
  BY <1>2 DEF SendBuffer!Inv, SendBuffer!NothingForgotten, SendBuffer!Buffered
<1> QED
  BY <1>1, <1>2, <1>3 DEF SendBuffer!Inv

\* A packet is sent, and then its sender still has it; or it could not be sent.
LEMMA BufferSend ==
  ASSUME SendBuffer!Inv, NEW t \in BufferThreads, SendBuffer!Send(t) \/ SendBuffer!SendFails(t)
  PROVE  SendBuffer!Inv'
<1> USE DEF SendBuffer!Send, SendBuffer!SendFails, SendBuffer!finiVars
<1>1. buffer_sender[t].pc = "numbered" /\ buffer_sender[t].seq \in SendBuffer!Used
        /\ sent \subseteq SendBuffer!Used
  BY DEF SendBuffer!Inv, SendBuffer!TypeOK
<1>2. FirstNumber \in SendBuffer!SeqNums
  BY TransportAssumption DEF TransportAssumption, SendBuffer!SendBufferAssumption
<1>3. \A u \in BufferThreads : u # t => buffer_sender'[u] = buffer_sender[u]
  BY DEF SendBuffer!Inv, SendBuffer!TypeOK
<1>4. CASE SendBuffer!Send(t)
  <2>1. buffer_sender'[t] = [pc |-> "sent", seq |-> buffer_sender[t].seq]
    BY <1>4, SMT DEF SendBuffer!Inv, SendBuffer!TypeOK
  <2>2. SendBuffer!TypeOK'
    BY <1>1, <1>4, SMT DEF SendBuffer!Inv, SendBuffer!TypeOK
  <2>3. SendBuffer!NothingForgotten'
    BY <1>1, <1>3, <1>4, <2>1 DEF SendBuffer!Inv, SendBuffer!NothingForgotten, SendBuffer!Buffered
  <2> QED
    BY <1>1, <1>3, <1>4, <2>1, <2>2, <2>3 DEF SendBuffer!Inv
<1>5. CASE SendBuffer!SendFails(t)
  <2>1. buffer_sender'[t] = [pc |-> "idle", seq |-> FirstNumber]
    BY <1>5 DEF SendBuffer!Inv, SendBuffer!TypeOK, SendBuffer!Idle
  <2>2. SendBuffer!TypeOK'
    BY <1>2, <1>5, SMT DEF SendBuffer!Inv, SendBuffer!TypeOK, SendBuffer!Idle
  <2>3. SendBuffer!NothingForgotten'
    BY <1>1, <1>3, <1>5, <2>1 DEF SendBuffer!Inv, SendBuffer!NothingForgotten, SendBuffer!Buffered
  <2> QED
    BY <1>1, <1>3, <1>5, <2>1, <2>2, <2>3 DEF SendBuffer!Inv
<1> QED
  BY <1>4, <1>5

\* A push files the packet of its sender, or finds the buffer full.
LEMMA BufferPush ==
  ASSUME SendBuffer!Inv, NEW t \in BufferThreads, SendBuffer!Push(t)
  PROVE  SendBuffer!Inv'
<1> DEFINE s == buffer_sender[t].seq
<1> USE DEF SendBuffer!finiVars
<1>1. /\ buffer_sender[t] = [pc |-> "sent", seq |-> s] /\ s \in sent /\ s \in SendBuffer!SeqNums
      /\ FirstNumber \in SendBuffer!SeqNums /\ BufferSize \in Nat /\ DueAge \in Nat /\ BufferTries \in Nat
      /\ SendBuffer!MutexFree
      /\ buffer_sender' = [buffer_sender EXCEPT ![t] = SendBuffer!Idle]
  BY TransportAssumption, SMT DEF TransportAssumption, SendBuffer!SendBufferAssumption, SendBuffer!Inv,
     SendBuffer!TypeOK, SendBuffer!Push
<1>2. \A u \in BufferThreads : buffer_sender'[u] = IF u = t THEN SendBuffer!Idle ELSE buffer_sender[u]
  BY <1>1 DEF SendBuffer!Inv, SendBuffer!TypeOK
<1>3. buffer_sender' \in [BufferThreads -> [pc : {"idle", "numbered", "sent"}, seq : SendBuffer!SeqNums]]
  BY <1>1, SMT DEF SendBuffer!Inv, SendBuffer!TypeOK, SendBuffer!Idle
<1>4. CASE SendBuffer!Full \/ s \in SendBuffer!Buffered
  <2>1. refused' = refused \cup {s} /\ UNCHANGED <<slots, count, resend>>
          /\ UNCHANGED <<buffer_should_stop, fini, buffer_waited, nextSeq, sent, buffer_received, buffer_gaveUp>>
    BY <1>4 DEF SendBuffer!Push
  <2>2. SendBuffer!TypeOK'
    BY <1>1, <1>3, <2>1 DEF SendBuffer!Inv, SendBuffer!TypeOK
  <2>3. SendBuffer!NothingForgotten'
    BY <1>1, <1>2, <2>1 DEF SendBuffer!Inv, SendBuffer!NothingForgotten, SendBuffer!Buffered
  <2> QED
    BY <1>1, <1>2, <2>1, <2>2, <2>3 DEF SendBuffer!Inv, SendBuffer!Idle
<1>5. CASE ~(SendBuffer!Full \/ s \in SendBuffer!Buffered)
  <2>1. PICK age \in 0 .. DueAge :
          slots' = [slots EXCEPT ![count] = [seq |-> s, tries |-> 0, age |-> age]]
    BY <1>1, <1>5, SMT DEF SendBuffer!Push
  <2>2. /\ count' = count + 1 /\ (resend' = resend \/ SendBuffer!Signal)
        /\ UNCHANGED <<buffer_should_stop, fini, buffer_waited, nextSeq, sent, buffer_received,
                      buffer_gaveUp, refused>>
    BY <1>5 DEF SendBuffer!Push
  <2>3. count \in 0 .. BufferSize - 1 /\ count \in SendBuffer!SlotIds /\ count' \in 0 .. BufferSize
          /\ slots \in [SendBuffer!SlotIds -> SendBuffer!Packet]
    BY <1>1, <1>5, <2>2, SMT DEF SendBuffer!Full, SendBuffer!SlotIds, SendBuffer!Inv, SendBuffer!TypeOK
  <2>4. [seq |-> s, tries |-> 0, age |-> age] \in SendBuffer!Packet
    BY <1>1, SMT DEF SendBuffer!Packet
  <2>5. /\ slots' \in [SendBuffer!SlotIds -> SendBuffer!Packet]
        /\ \A i \in SendBuffer!SlotIds : slots'[i] = IF i = count THEN [seq |-> s, tries |-> 0, age |-> age]
                                                    ELSE slots[i]
    BY <2>1, <2>3, <2>4
  <2>6. /\ resend' \in SendBuffer!ResendStates
        /\ resend'.pc = "giving_up" => resend'.i \in SendBuffer!SlotIds
    BY <2>2, SMT DEF SendBuffer!Signal, SendBuffer!Inv, SendBuffer!TypeOK, SendBuffer!ResendStates
  <2>7. SendBuffer!TypeOK'
    BY <1>3, <2>2, <2>3, <2>5, <2>6 DEF SendBuffer!Inv, SendBuffer!TypeOK
  <2>8. \A i \in 0 .. count' - 1 : i \in SendBuffer!SlotIds /\ (i = count \/ i \in 0 .. count - 1)
    BY <1>1, <2>2, <2>3, SMT DEF SendBuffer!SlotIds
  <2>9. \A i \in 0 .. count - 1 : i # count /\ i \in 0 .. count' - 1 /\ i \in SendBuffer!SlotIds
    BY <1>1, <2>2, <2>3, SMT DEF SendBuffer!SlotIds
  <2>10. count \in 0 .. count' - 1
    BY <2>2, <2>3, SMT
  <2>11. \A i \in 0 .. count' - 1 : slots'[i].seq \in sent'
    BY <1>1, <2>2, <2>5, <2>8 DEF SendBuffer!Inv
  <2>12. SendBuffer!Buffered \cup {s} \subseteq SendBuffer!Buffered'
    BY <2>3, <2>5, <2>9, <2>10 DEF SendBuffer!Buffered
  <2>13. SendBuffer!NothingForgotten'
    BY <1>1, <1>2, <2>2, <2>12 DEF SendBuffer!Inv, SendBuffer!NothingForgotten
  <2> QED
    BY <1>1, <1>2, <2>2, <2>6, <2>7, <2>11, <2>13 DEF SendBuffer!Inv, SendBuffer!Idle
<1> QED
  BY <1>4, <1>5

\* Acknowledging c keeps the packets that c does not cover, and no other.
LEMMA BufferAcknowledged ==
  ASSUME SendBuffer!Inv, NEW c, SendBuffer!Acknowledge(c)
  PROVE  /\ slots' \in [SendBuffer!SlotIds -> SendBuffer!Packet] /\ count' \in 0 .. BufferSize
         /\ SendBuffer!Buffered' = {s \in SendBuffer!Buffered : ~SendBuffer!Covered(s, c)}
         /\ \A i \in 0 .. count' - 1 : slots'[i].seq \in sent
<1>0. PICK n \in 0 .. count :
        \E from \in [0 .. n - 1 -> SendBuffer!Kept(c)] :
          /\ \A k \in SendBuffer!Kept(c) : \E i \in 0 .. n - 1 : from[i] = k
          /\ slots' = [i \in SendBuffer!SlotIds |-> IF i < n THEN slots[from[i]] ELSE slots[i]]
          /\ count' = n
  BY DEF SendBuffer!Acknowledge
<1>1. PICK from \in [0 .. n - 1 -> SendBuffer!Kept(c)] :
        /\ \A k \in SendBuffer!Kept(c) : \E i \in 0 .. n - 1 : from[i] = k
        /\ slots' = [i \in SendBuffer!SlotIds |-> IF i < n THEN slots[from[i]] ELSE slots[i]]
        /\ count' = n
  BY <1>0
<1>2. /\ BufferSize \in Nat /\ count \in 0 .. BufferSize
      /\ slots \in [SendBuffer!SlotIds -> SendBuffer!Packet]
      /\ \A i \in 0 .. count - 1 : slots[i].seq \in sent
  BY TransportAssumption DEF TransportAssumption, SendBuffer!SendBufferAssumption, SendBuffer!Inv,
     SendBuffer!TypeOK
<1>3. /\ \A i \in 0 .. count - 1 : i \in SendBuffer!SlotIds
      /\ \A i \in 0 .. n - 1 : i \in SendBuffer!SlotIds /\ i < n
      /\ \A i \in SendBuffer!SlotIds : i < n => i \in 0 .. n - 1
      /\ n \in 0 .. BufferSize
  BY <1>2, SMT DEF SendBuffer!SlotIds
<1>4. \A k \in SendBuffer!Kept(c) : k \in 0 .. count - 1 /\ ~SendBuffer!Covered(slots[k].seq, c)
  BY DEF SendBuffer!Kept
<1>5. \A k \in 0 .. count - 1 : ~SendBuffer!Covered(slots[k].seq, c) => k \in SendBuffer!Kept(c)
  BY DEF SendBuffer!Kept
<1>6. slots' \in [SendBuffer!SlotIds -> SendBuffer!Packet]
  <2>1. \A i \in SendBuffer!SlotIds : (IF i < n THEN slots[from[i]] ELSE slots[i]) \in SendBuffer!Packet
    BY <1>2, <1>3, <1>4
  <2> QED
    BY <1>1, <2>1
<1>7. \A i \in 0 .. n - 1 : slots'[i] = slots[from[i]] /\ from[i] \in SendBuffer!Kept(c)
  BY <1>1, <1>3
<1>8. SendBuffer!Buffered' \subseteq {s \in SendBuffer!Buffered : ~SendBuffer!Covered(s, c)}
  BY <1>1, <1>4, <1>7 DEF SendBuffer!Buffered
<1>9. {s \in SendBuffer!Buffered : ~SendBuffer!Covered(s, c)} \subseteq SendBuffer!Buffered'
  <2> SUFFICES ASSUME NEW k \in 0 .. count - 1, ~SendBuffer!Covered(slots[k].seq, c)
               PROVE  slots[k].seq \in SendBuffer!Buffered'
    BY DEF SendBuffer!Buffered
  <2>1. PICK i \in 0 .. n - 1 : from[i] = k
    BY <1>1, <1>5
  <2>2. i \in 0 .. count' - 1 /\ slots'[i].seq = slots[k].seq
    BY <1>1, <1>7, <2>1
  <2> QED
    BY <2>2 DEF SendBuffer!Buffered
<1>10. \A i \in 0 .. count' - 1 : slots'[i].seq \in sent
  <2> SUFFICES ASSUME NEW i \in 0 .. n - 1 PROVE slots'[i].seq \in sent
    BY <1>1
  <2> QED
    BY <1>2, <1>4, <1>7
<1> QED
  BY <1>1, <1>3, <1>6, <1>8, <1>9, <1>10

\* What an acknowledgement takes out has arrived, or the thread gives it up.
LEMMA BufferForgetsNone ==
  ASSUME SendBuffer!Inv, NEW c, SendBuffer!Acknowledge(c), UNCHANGED <<sent, refused, buffer_sender>>,
         \A s \in sent : SendBuffer!Covered(s, c) /\ s \in SendBuffer!Buffered
                           => s \in buffer_received' \cup buffer_gaveUp',
         buffer_received \subseteq buffer_received', buffer_gaveUp \subseteq buffer_gaveUp'
  PROVE  SendBuffer!NothingForgotten'
<1>1. SendBuffer!Buffered' = {s \in SendBuffer!Buffered : ~SendBuffer!Covered(s, c)}
  BY BufferAcknowledged
<1> SUFFICES ASSUME NEW s \in sent, s \notin buffer_received' \cup buffer_gaveUp' \cup refused
             PROVE  s \in SendBuffer!Buffered' \/ \E t \in BufferThreads : buffer_sender[t] = [pc |-> "sent", seq |-> s]
  BY DEF SendBuffer!NothingForgotten
<1>2. s \in SendBuffer!Buffered \/ \E t \in BufferThreads : buffer_sender[t] = [pc |-> "sent", seq |-> s]
  BY DEF SendBuffer!Inv, SendBuffer!NothingForgotten
<1> QED
  BY <1>1, <1>2

\* The console acknowledges what it has with all before it.
LEMMA BufferHandleAck ==
  ASSUME SendBuffer!Inv, NEW c \in SendBuffer!Used, SendBuffer!HandleAck(c)
  PROVE  SendBuffer!Inv'
<1>1. /\ SendBuffer!Acknowledge(c) /\ SendBuffer!Acknowledgeable(c)
      /\ UNCHANGED <<buffer_should_stop, resend, fini, buffer_waited, buffer_sender, nextSeq, sent,
                    buffer_received, refused, buffer_gaveUp>>
  BY DEF SendBuffer!HandleAck, SendBuffer!finiVars
<1>2. /\ slots' \in [SendBuffer!SlotIds -> SendBuffer!Packet] /\ count' \in 0 .. BufferSize
      /\ \A i \in 0 .. count' - 1 : slots'[i].seq \in sent
  BY <1>1, BufferAcknowledged
<1>3. SendBuffer!TypeOK'
  BY <1>1, <1>2 DEF SendBuffer!Inv, SendBuffer!TypeOK
<1>4. \A s \in sent : SendBuffer!Covered(s, c) => s \in buffer_received
  BY <1>1 DEF SendBuffer!Inv, SendBuffer!TypeOK, SendBuffer!Covered, SendBuffer!Acknowledgeable, SendBuffer!Le
<1>5. SendBuffer!NothingForgotten'
  BY <1>1, <1>4, BufferForgetsNone
<1> QED
  BY <1>1, <1>2, <1>3, <1>5 DEF SendBuffer!Inv

\* The resend thread gives a packet up, with all before it.
LEMMA BufferAcksVictim ==
  ASSUME SendBuffer!Inv, SendBuffer!ResendAcksVictim
  PROVE  SendBuffer!Inv'
<1> DEFINE c == resend.victim
<1>1. /\ SendBuffer!Acknowledge(c) /\ resend' = [resend EXCEPT !.pc = "relock"]
      /\ buffer_gaveUp' = buffer_gaveUp \cup {s \in SendBuffer!Buffered : SendBuffer!Covered(s, c)}
      /\ UNCHANGED <<buffer_should_stop, fini, buffer_waited, buffer_sender, nextSeq, sent, buffer_received,
                    refused>>
  BY DEF SendBuffer!ResendAcksVictim, SendBuffer!ResendAt, SendBuffer!ResendUnchanged, SendBuffer!finiVars
<1>2. /\ slots' \in [SendBuffer!SlotIds -> SendBuffer!Packet] /\ count' \in 0 .. BufferSize
      /\ \A i \in 0 .. count' - 1 : slots'[i].seq \in sent
  BY <1>1, BufferAcknowledged
<1>3. SendBuffer!Buffered \subseteq sent /\ sent \subseteq SendBuffer!Used
  BY DEF SendBuffer!Inv, SendBuffer!TypeOK, SendBuffer!Buffered
<1>4. buffer_gaveUp' \subseteq SendBuffer!Used
  BY <1>1, <1>3 DEF SendBuffer!Inv, SendBuffer!TypeOK
<1>5. /\ resend' \in SendBuffer!ResendStates
      /\ resend'.pc = "relock"
  BY <1>1, SMT DEF SendBuffer!Inv, SendBuffer!TypeOK, SendBuffer!ResendStates
<1>6. SendBuffer!TypeOK'
  BY <1>1, <1>2, <1>4, <1>5 DEF SendBuffer!Inv, SendBuffer!TypeOK
<1>7. SendBuffer!NothingForgotten'
  BY <1>1, BufferForgetsNone
<1> QED
  BY <1>1, <1>2, <1>5, <1>6, <1>7 DEF SendBuffer!Inv

\* The resend thread's own steps, which leave the packets alone.
LEMMA BufferResendMoves ==
  ASSUME SendBuffer!Inv,
         \/ SendBuffer!ResendStarts \/ SendBuffer!ResendLoops \/ SendBuffer!ResendWaits
         \/ SendBuffer!ResendTimesOut \/ SendBuffer!ResendWakes \/ SendBuffer!ResendReadsVictim
         \/ SendBuffer!ResendContinues \/ SendBuffer!ResendWakesSpuriously
  PROVE  SendBuffer!Inv'
<1> DEFINE Places == {"start", "loop", "to_wait", "to_timedwait", "wait", "timedwait", "woken", "timed_woken",
                      "timed_out", "scan", "giving_up", "victim", "relock", "done"}
           Indexes == SendBuffer!SlotIds \cup {BufferSize}
           Resends == [pc : Places, i : Indexes, victim : SendBuffer!SeqNums]
           Moved == resend' \in Resends /\ (resend'.pc = "giving_up" => resend'.i \in SendBuffer!SlotIds)
<1>1. UNCHANGED <<slots, count, buffer_gaveUp, buffer_should_stop, fini, buffer_waited, buffer_sender, nextSeq,
                 sent, buffer_received, refused>>
  BY DEF SendBuffer!ResendStarts, SendBuffer!ResendLoops, SendBuffer!ResendWaits, SendBuffer!ResendTimesOut,
     SendBuffer!ResendWakes, SendBuffer!ResendReadsVictim, SendBuffer!ResendContinues,
     SendBuffer!ResendWakesSpuriously, SendBuffer!ResendUnchanged, SendBuffer!finiVars
<1>2. /\ resend \in Resends /\ (resend.pc = "giving_up" => resend.i \in SendBuffer!SlotIds)
      /\ slots \in [SendBuffer!SlotIds -> SendBuffer!Packet] /\ BufferSize \in Nat /\ BufferSize > 0
  BY TransportAssumption DEF TransportAssumption, SendBuffer!SendBufferAssumption, SendBuffer!Inv,
     SendBuffer!TypeOK, SendBuffer!ResendStates
<1>3. /\ 0 \in Indexes /\ 1 \in Indexes /\ \A i \in SendBuffer!SlotIds : i \in Indexes
      /\ \A i \in SendBuffer!SlotIds : slots[i].seq \in SendBuffer!SeqNums
  <2>1. 0 \in Indexes /\ 1 \in Indexes
    BY <1>2, SMT DEF SendBuffer!SlotIds
  <2> QED
    BY <1>2, <2>1 DEF SendBuffer!Packet
<1> HIDE DEF Indexes
<1>4. SendBuffer!ResendStarts \/ SendBuffer!ResendLoops \/ SendBuffer!ResendWaits
        \/ SendBuffer!ResendTimesOut => Moved
  BY <1>2, SMT DEF SendBuffer!ResendStarts, SendBuffer!ResendLoops, SendBuffer!ResendWaits,
     SendBuffer!ResendTimesOut, SendBuffer!ResendAt
<1>5. ASSUME SendBuffer!ResendWakes PROVE Moved
  <2>1. resend' \in {[resend EXCEPT !.pc = "done"], [resend EXCEPT !.pc = "to_wait"],
                    [resend EXCEPT !.pc = "to_timedwait"], [resend EXCEPT !.pc = "scan", !.i = 0]}
    BY <1>5, Zenon DEF SendBuffer!ResendWakes
  <2>2. CASE resend' = [resend EXCEPT !.pc = "scan", !.i = 0]
    <3>1. resend' = [pc |-> "scan", i |-> 0, victim |-> resend.victim]
      BY <1>2, <2>2
    <3> QED
      BY <1>2, <1>3, <3>1
  <2>3. CASE resend' \in {[resend EXCEPT !.pc = "done"], [resend EXCEPT !.pc = "to_wait"],
                         [resend EXCEPT !.pc = "to_timedwait"]}
    BY <1>2, <2>3
  <2> QED
    BY <2>1, <2>2, <2>3
<1>6. ASSUME SendBuffer!ResendReadsVictim PROVE Moved
  <2>1. resend.pc = "giving_up" /\ slots[resend.i].seq \in SendBuffer!SeqNums
    BY <1>2, <1>3, <1>6 DEF SendBuffer!ResendReadsVictim
  <2>2. resend' = [pc |-> "victim", i |-> resend.i, victim |-> slots[resend.i].seq]
    BY <1>2, <1>6 DEF SendBuffer!ResendReadsVictim
  <2> QED
    BY <1>2, <2>1, <2>2
<1>7. ASSUME SendBuffer!ResendContinues PROVE Moved
  <2>1. resend' = [pc |-> "scan", i |-> IF resend.i > 0 THEN resend.i ELSE 1, victim |-> resend.victim]
    BY <1>2, <1>7 DEF SendBuffer!ResendContinues
  <2> QED
    BY <1>2, <1>3, <2>1
<1>8. SendBuffer!ResendWakesSpuriously => Moved
  BY <1>2, SMT DEF SendBuffer!ResendWakesSpuriously, SendBuffer!Signal
<1>9. Moved
  BY <1>4, <1>5, <1>6, <1>7, <1>8
<1> USE DEF Indexes
<1>10. SendBuffer!TypeOK'
  BY <1>1, <1>9 DEF SendBuffer!Inv, SendBuffer!TypeOK, SendBuffer!ResendStates
<1> QED
  BY <1>1, <1>9, <1>10, BufferKept

\* A pass sends packets again until it comes to one whose tries are used up.
LEMMA BufferScans ==
  ASSUME SendBuffer!Inv, SendBuffer!ResendScans
  PROVE  SendBuffer!Inv'
<1> DEFINE Ids == SendBuffer!SlotIds
           Indexes == Ids \cup {BufferSize}
<1>1. PICK upTo \in Int :
        /\ SendBuffer!ResendsUpTo(upTo) /\ upTo <= count
        /\ \/ resend' = [resend EXCEPT !.pc = "loop"]
           \/ upTo \in Ids /\ resend' = [resend EXCEPT !.pc = "giving_up", !.i = upTo]
  <2>1. count \in 0 .. BufferSize /\ BufferSize \in Nat /\ resend.i \in Nat
    BY TransportAssumption, SMT DEF TransportAssumption, SendBuffer!SendBufferAssumption, SendBuffer!Inv,
       SendBuffer!TypeOK, SendBuffer!SlotIds, SendBuffer!ResendStates
  <2>2. ASSUME NEW upTo \in resend.i .. count - 1, SendBuffer!ResendsUpTo(upTo),
               resend' = [resend EXCEPT !.pc = "giving_up", !.i = upTo]
        PROVE  upTo \in Int /\ upTo <= count /\ upTo \in Ids
    BY <2>1, SMT DEF SendBuffer!SlotIds
  <2>3. count \in Int /\ count <= count
    BY <2>1, SMT
  <2> QED
    BY <2>2, <2>3 DEF SendBuffer!ResendScans, SendBuffer!ResendAt
<1>2. UNCHANGED <<count, buffer_gaveUp, buffer_should_stop, fini, buffer_waited, buffer_sender, nextSeq, sent,
                 buffer_received, refused>>
  BY DEF SendBuffer!ResendScans, SendBuffer!ResendUnchanged, SendBuffer!finiVars
<1>3. /\ slots \in [Ids -> SendBuffer!Packet] /\ count \in 0 .. BufferSize
      /\ resend.i \in Nat /\ BufferTries \in Nat /\ DueAge \in Nat /\ BufferSize \in Nat
      /\ \A i \in 0 .. count - 1 : i \in Ids /\ slots[i].seq \in sent
  BY TransportAssumption, SMT DEF TransportAssumption, SendBuffer!SendBufferAssumption, SendBuffer!Inv,
     SendBuffer!TypeOK, SendBuffer!SlotIds, SendBuffer!ResendStates
<1>4. ASSUME NEW i \in Ids
      PROVE  slots'[i] \in SendBuffer!Packet /\ slots'[i].seq = slots[i].seq
  <2> DEFINE again == i \in resend.i .. upTo - 1 /\ SendBuffer!Due(i)
  <2>1. slots'[i] = IF again THEN [slots[i] EXCEPT !.tries = @ + 1, !.age = 0] ELSE slots[i]
    BY <1>1 DEF SendBuffer!ResendsUpTo
  <2>2. slots[i] \in SendBuffer!Packet
    BY <1>3
  <2>3. CASE again
    <3>1. ~(slots[i].tries >= BufferTries)
      BY <1>1, <2>3 DEF SendBuffer!ResendsUpTo, SendBuffer!Hopeless
    <3>2. slots'[i] = [seq |-> slots[i].seq, tries |-> slots[i].tries + 1, age |-> 0]
      BY <2>1, <2>2, <2>3 DEF SendBuffer!Packet
    <3>3. slots[i].tries + 1 \in 0 .. BufferTries /\ 0 \in 0 .. DueAge
      BY <1>3, <2>2, <3>1, SMT DEF SendBuffer!Packet
    <3> QED
      BY <2>2, <3>2, <3>3 DEF SendBuffer!Packet
  <2>4. CASE ~again
    BY <2>1, <2>2, <2>4
  <2> QED
    BY <2>3, <2>4
<1>5. slots' \in [Ids -> SendBuffer!Packet]
  <2>1. slots' = [i \in Ids |-> slots'[i]]
    BY <1>1 DEF SendBuffer!ResendsUpTo
  <2> HIDE DEF Ids
  <2> QED
    BY <1>4, <2>1
<1>6. resend' \in SendBuffer!ResendStates /\ (resend'.pc = "giving_up" => resend'.i \in Ids)
  <2>1. resend \in [pc : {"start", "loop", "to_wait", "to_timedwait", "wait", "timedwait", "woken",
                         "timed_woken", "timed_out", "scan", "giving_up", "victim", "relock", "done"},
                   i : Indexes, victim : SendBuffer!SeqNums]
    BY DEF SendBuffer!Inv, SendBuffer!TypeOK, SendBuffer!ResendStates
  <2>2. Ids \subseteq Indexes
    OBVIOUS
  <2>3. CASE resend' = [resend EXCEPT !.pc = "loop"]
    BY <2>1, <2>3 DEF SendBuffer!ResendStates
  <2>4. CASE upTo \in Ids /\ resend' = [resend EXCEPT !.pc = "giving_up", !.i = upTo]
    <3>1. resend' = [pc |-> "giving_up", i |-> upTo, victim |-> resend.victim]
      BY <2>1, <2>4
    <3> QED
      BY <2>1, <2>2, <2>4, <3>1 DEF SendBuffer!ResendStates
  <2> QED
    BY <1>1, <2>3, <2>4
<1>7. SendBuffer!TypeOK'
  BY <1>2, <1>5, <1>6 DEF SendBuffer!Inv, SendBuffer!TypeOK
<1>8. \A i \in 0 .. count' - 1 : slots'[i].seq = slots[i].seq /\ slots'[i].seq \in sent'
  BY <1>2, <1>3, <1>4
<1>9. SendBuffer!Buffered' = SendBuffer!Buffered
  BY <1>2, <1>8 DEF SendBuffer!Buffered
<1>10. SendBuffer!NothingForgotten'
  BY <1>2, <1>9 DEF SendBuffer!Inv, SendBuffer!NothingForgotten
<1> QED
  BY <1>2, <1>6, <1>7, <1>8, <1>10 DEF SendBuffer!Inv

\* Packets age, and keep their numbers.
LEMMA BufferTick ==
  ASSUME SendBuffer!Inv, SendBuffer!Tick
  PROVE  SendBuffer!Inv'
<1> DEFINE Ids == SendBuffer!SlotIds
<1>1. /\ slots' = [i \in Ids |-> IF i < count /\ ~SendBuffer!Due(i)
                                THEN [slots[i] EXCEPT !.age = @ + 1] ELSE slots[i]]
      /\ UNCHANGED <<count, buffer_gaveUp, buffer_should_stop, fini, buffer_waited, buffer_sender, nextSeq, sent,
                    buffer_received, refused, resend>>
  BY DEF SendBuffer!Tick, SendBuffer!finiVars
<1>2. /\ slots \in [Ids -> SendBuffer!Packet] /\ count \in 0 .. BufferSize
      /\ DueAge \in Nat /\ BufferSize \in Nat
      /\ \A i \in 0 .. count - 1 : i \in Ids /\ slots[i].seq \in sent
  BY TransportAssumption, SMT DEF TransportAssumption, SendBuffer!SendBufferAssumption, SendBuffer!Inv,
     SendBuffer!TypeOK, SendBuffer!SlotIds, SendBuffer!ResendStates
<1>3. ASSUME NEW i \in Ids
      PROVE  slots'[i] \in SendBuffer!Packet /\ slots'[i].seq = slots[i].seq
  <2>1. slots'[i] = IF i < count /\ ~SendBuffer!Due(i) THEN [slots[i] EXCEPT !.age = @ + 1] ELSE slots[i]
    BY <1>1
  <2>2. slots[i] \in SendBuffer!Packet
    BY <1>2
  <2> QED
    BY <1>2, <2>1, <2>2, SMT DEF SendBuffer!Packet, SendBuffer!Due
<1>4. slots' \in [Ids -> SendBuffer!Packet]
  <2>1. slots' = [i \in Ids |-> slots'[i]]
    BY <1>1
  <2> HIDE DEF Ids
  <2> QED
    BY <1>3, <2>1
<1>5. SendBuffer!TypeOK'
  BY <1>1, <1>4 DEF SendBuffer!Inv, SendBuffer!TypeOK
<1>6. \A i \in 0 .. count' - 1 : slots'[i].seq = slots[i].seq /\ slots'[i].seq \in sent'
  BY <1>1, <1>2, <1>3
<1>7. SendBuffer!Buffered' = SendBuffer!Buffered
  BY <1>1, <1>6 DEF SendBuffer!Buffered
<1>8. SendBuffer!NothingForgotten'
  BY <1>1, <1>7 DEF SendBuffer!Inv, SendBuffer!NothingForgotten
<1> QED
  BY <1>1, <1>5, <1>6, <1>8 DEF SendBuffer!Inv

\* The end, and what the console receives.
LEMMA BufferOthers ==
  ASSUME SendBuffer!Inv,
         \/ SendBuffer!FiniStops \/ SendBuffer!FiniSignals \/ SendBuffer!FiniJoins
         \/ \E s \in SendBuffer!Used : SendBuffer!PeerReceives(s)
  PROVE  SendBuffer!Inv'
<1>1. CASE SendBuffer!FiniStops \/ SendBuffer!FiniJoins
  <2>1. /\ UNCHANGED <<slots, count, buffer_sender, sent, buffer_received, refused, buffer_gaveUp, resend, nextSeq>>
        /\ buffer_should_stop' \in BOOLEAN /\ fini' \in {"no", "stopping", "joining", "joined"}
    BY <1>1 DEF SendBuffer!FiniStops, SendBuffer!FiniJoins, SendBuffer!Inv, SendBuffer!TypeOK
  <2>2. SendBuffer!TypeOK'
    BY <2>1 DEF SendBuffer!Inv, SendBuffer!TypeOK
  <2> QED
    BY <2>1, <2>2, BufferKept DEF SendBuffer!Inv
<1>2. CASE SendBuffer!FiniSignals
  <2>1. /\ UNCHANGED <<slots, count, buffer_sender, sent, buffer_received, refused, buffer_gaveUp, nextSeq,
                      buffer_should_stop>>
        /\ SendBuffer!Signal /\ fini' = "joining"
    BY <1>2 DEF SendBuffer!FiniSignals
  <2>2. /\ resend' \in SendBuffer!ResendStates
        /\ resend'.pc = "giving_up" => resend'.i \in SendBuffer!SlotIds
    BY <2>1, SMT DEF SendBuffer!Signal, SendBuffer!Inv, SendBuffer!TypeOK, SendBuffer!ResendStates
  <2>3. SendBuffer!TypeOK'
    BY <2>1, <2>2 DEF SendBuffer!Inv, SendBuffer!TypeOK
  <2> QED
    BY <2>1, <2>2, <2>3, BufferKept
<1>3. ASSUME NEW s \in SendBuffer!Used, SendBuffer!PeerReceives(s) PROVE SendBuffer!Inv'
  <2>1. /\ buffer_received' = buffer_received \cup {s} /\ s \in sent
        /\ UNCHANGED <<slots, count, buffer_should_stop, resend, fini, buffer_waited, buffer_sender, nextSeq,
                      sent, refused, buffer_gaveUp>>
    BY <1>3 DEF SendBuffer!PeerReceives, SendBuffer!finiVars
  <2>2. SendBuffer!TypeOK'
    BY <2>1 DEF SendBuffer!Inv, SendBuffer!TypeOK
  <2>3. SendBuffer!NothingForgotten'
    BY <2>1 DEF SendBuffer!Inv, SendBuffer!NothingForgotten, SendBuffer!Buffered
  <2> QED
    BY <2>1, <2>2, <2>3 DEF SendBuffer!Inv
<1> QED
  BY <1>1, <1>2, <1>3

\* Every step of the buffer and its threads keeps the invariant.
LEMMA BufferStep ==
  ASSUME SendBuffer!Inv, [SendBuffer!Next]_SendBuffer!vars
  PROVE  SendBuffer!Inv'
<1>1. CASE UNCHANGED SendBuffer!vars
  BY <1>1 DEF SendBuffer!vars, SendBuffer!finiVars, SendBuffer!Inv, SendBuffer!TypeOK,
     SendBuffer!NothingForgotten, SendBuffer!Buffered
<1>2. CASE SendBuffer!Next
  BY <1>2, BufferTakeSeqNum, BufferSend, BufferPush, BufferHandleAck, BufferResendMoves, BufferScans,
     BufferAcksVictim, BufferTick, BufferOthers DEF SendBuffer!Next, SendBuffer!ResendStep
<1> QED
  BY <1>1, <1>2

-----------------------------------------------------------------------------
(* RUDP: what was accepted is not forgotten, though it is filed under       *)
(* another number than it carries                                           *)

\* Numbers as offsets from the first counter.
LEMMA RudpNumbers ==
  /\ Rudp!ModulusAssumption /\ FirstCounter \in Rudp!SeqNums /\ Rudp!Offset(FirstCounter) = 0
  /\ Messages \in Nat /\ Messages < Rudp!Half /\ Rudp!Half < RudpCircle /\ RudpCircle \in Nat
  /\ \A q \in Rudp!SeqNums : /\ Rudp!Offset(q) \in 0 .. RudpCircle - 1
                             /\ Rudp!Add(FirstCounter, Rudp!Offset(q)) = q
<1>1. Rudp!ModulusAssumption /\ FirstCounter \in Rudp!SeqNums /\ Messages \in Nat /\ Messages < Rudp!Half
  BY TransportAssumption DEF TransportAssumption, Rudp!RudpAssumption
<1>2. RudpCircle \in Nat /\ Rudp!Half < RudpCircle
  <2>1. Rudp!Half \in Nat /\ RudpCircle = 2 * Rudp!Half /\ Rudp!Half > 1
    BY <1>1, Rudp!HalfFacts
  <2> QED
    BY <1>1, <2>1, SMT DEF Rudp!ModulusAssumption
<1>3. ASSUME NEW q \in Rudp!SeqNums
      PROVE  Rudp!Offset(q) \in 0 .. RudpCircle - 1 /\ Rudp!Add(FirstCounter, Rudp!Offset(q)) = q
  BY <1>1, Rudp!DistWraps, Rudp!OffsetOfNumber DEF Rudp!Offset, Rudp!SeqNums
<1>4. Rudp!Dist(FirstCounter, FirstCounter) = IF FirstCounter <= FirstCounter THEN FirstCounter - FirstCounter
                                              ELSE (FirstCounter - FirstCounter) + RudpCircle
  BY <1>1, Rudp!DistWraps
<1>5. Rudp!Offset(FirstCounter) = 0
  BY <1>1, <1>2, <1>4, SMT DEF Rudp!Offset, Rudp!SeqNums
<1> QED
  BY <1>1, <1>2, <1>3, <1>5

\* As there are fewer messages than half of the circle, the code's comparison is
\* that of the offsets.
LEMMA RudpOrder ==
  ASSUME NEW q \in Rudp!SeqNums, Rudp!Offset(q) <= Messages, NEW n \in 1 .. Messages
  PROVE  /\ Rudp!Gt(q, Rudp!Add(FirstCounter, n)) <=> Rudp!Offset(q) > n
<1>1. /\ Rudp!ModulusAssumption /\ FirstCounter \in Rudp!SeqNums
      /\ Messages \in Nat /\ Messages < Rudp!Half /\ Rudp!Half < RudpCircle /\ RudpCircle \in Nat
      /\ Rudp!Offset(q) \in 0 .. RudpCircle - 1 /\ Rudp!Add(FirstCounter, Rudp!Offset(q)) = q
  BY RudpNumbers
<1>2. n \in 0 .. RudpCircle - 1 /\ Rudp!Half \in Int
  BY <1>1, SMT DEF Rudp!Half
<1> DEFINE j == Rudp!Offset(q)
<1>3. Rudp!Gt(Rudp!Add(FirstCounter, j), Rudp!Add(FirstCounter, n)) <=> \/ j < n /\ n - j > Rudp!Half
                                                                        \/ j > n /\ j - n < Rudp!Half
  BY <1>1, <1>2, Rudp!OffsetOrder
<1> HIDE DEF j
<1>4. j \in 0 .. RudpCircle - 1 /\ j <= Messages
  BY <1>1 DEF j
<1>5. ((j < n /\ n - j > Rudp!Half) \/ (j > n /\ j - n < Rudp!Half)) <=> j > n
  BY <1>1, <1>2, <1>4, SMT
<1> QED
  BY <1>1, <1>3, <1>5 DEF j

\* The counter goes on by one.
LEMMA RudpCounts ==
  ASSUME counter \in Rudp!SeqNums, Rudp!Taken < Messages
  PROVE  /\ Rudp!Add(counter, 1) \in Rudp!SeqNums
         /\ Rudp!Offset(Rudp!Add(counter, 1)) = Rudp!Taken + 1
<1> DEFINE j == Rudp!Offset(counter)
<1>1. /\ Rudp!ModulusAssumption /\ FirstCounter \in Rudp!SeqNums
      /\ Messages \in Nat /\ Messages < Rudp!Half /\ Rudp!Half < RudpCircle /\ RudpCircle \in Nat
      /\ j \in 0 .. RudpCircle - 1 /\ Rudp!Add(FirstCounter, j) = counter /\ j = Rudp!Taken
  BY RudpNumbers DEF Rudp!Offset, Rudp!Taken
<1> HIDE DEF j
<1>2. /\ 1 \in 0 .. RudpCircle - 1 /\ j + 1 <= RudpCircle /\ j + 1 \in 0 .. RudpCircle - 1
      /\ 0 \in 0 .. RudpCircle - 1 /\ 0 \in 0 .. RudpCircle /\ 1 \in 0 .. RudpCircle /\ Rudp!Half \in Int
  BY <1>1, SMT DEF Rudp!Half
<1>3. Rudp!Add(counter, 1) = Rudp!Add(FirstCounter, j + 1)
  BY <1>1, <1>2, Rudp!OffsetsAdd
<1>4. Rudp!Add(FirstCounter, 0) = FirstCounter
  <2>1. Rudp!Add(FirstCounter, 0) = IF FirstCounter + 0 < RudpCircle THEN FirstCounter + 0
                                    ELSE (FirstCounter + 0) - RudpCircle
    BY <1>1, <1>2, Rudp!AddWraps
  <2> QED
    BY <1>1, <2>1, SMT DEF Rudp!SeqNums
<1>5. Rudp!Dist(Rudp!Add(FirstCounter, 0), Rudp!Add(FirstCounter, j + 1)) =
        IF 0 <= j + 1 THEN (j + 1) - 0 ELSE ((j + 1) - 0) + RudpCircle
  BY <1>1, <1>2, Rudp!OffsetDist
<1>6. Rudp!Dist(FirstCounter, Rudp!Add(counter, 1)) = j + 1
  BY <1>1, <1>2, <1>3, <1>4, <1>5, SMT
<1>7. Rudp!Add(counter, 1) \in Rudp!SeqNums
  BY <1>1, <1>2, Rudp!AddWraps
<1> QED
  BY <1>1, <1>6, <1>7 DEF Rudp!Offset

\* The phases by name.
LEMMA RudpPhaseNames == {Rudp!Phases[i] : i \in DOMAIN Rudp!Phases} = {"init", "cookie", "session", "finish"}
<1>1. /\ DOMAIN Rudp!Phases = {1, 2, 3, 4}
      /\ Rudp!Phases[1] = "init" /\ Rudp!Phases[2] = "cookie"
      /\ Rudp!Phases[3] = "session" /\ Rudp!Phases[4] = "finish"
  BY SMT DEF Rudp!Phases
<1> QED
  BY <1>1

\* What a phase presupposes.
LEMMA RudpPhases ==
  ASSUME NEW p, NEW reached
  PROVE  (\A i \in 1 .. 3 : (\E j \in i + 1 .. 4 : p = Rudp!Phases[j]) => Rudp!Phases[i] \in reached)
           <=> /\ p = "cookie" => "init" \in reached
               /\ p = "session" => "init" \in reached /\ "cookie" \in reached
               /\ p = "finish" => "init" \in reached /\ "cookie" \in reached /\ "session" \in reached
<1>1. /\ DOMAIN Rudp!Phases = {1, 2, 3, 4}
      /\ Rudp!Phases[1] = "init" /\ Rudp!Phases[2] = "cookie"
      /\ Rudp!Phases[3] = "session" /\ Rudp!Phases[4] = "finish"
  BY SMT DEF Rudp!Phases
<1>2. 1 .. 3 = {1, 2, 3} /\ 1 + 1 .. 4 = {2, 3, 4} /\ 2 + 1 .. 4 = {3, 4} /\ 3 + 1 .. 4 = {4}
  BY SMT
<1>3. (\A i \in 1 .. 3 : (\E j \in i + 1 .. 4 : p = Rudp!Phases[j]) => Rudp!Phases[i] \in reached)
        <=> /\ (\E j \in {2, 3, 4} : p = Rudp!Phases[j]) => Rudp!Phases[1] \in reached
            /\ (\E j \in {3, 4} : p = Rudp!Phases[j]) => Rudp!Phases[2] \in reached
            /\ (\E j \in {4} : p = Rudp!Phases[j]) => Rudp!Phases[3] \in reached
  BY <1>2
<1> QED
  BY <1>1, <1>3

\* Nothing is sent yet.
LEMMA RudpInit == Rudp!Init => Rudp!Inv
<1> SUFFICES ASSUME Rudp!Init PROVE Rudp!Inv
  OBVIOUS
<1> USE DEF Rudp!Init
<1>1. /\ FirstCounter \in Rudp!SeqNums /\ Rudp!Taken = 0 /\ Messages \in Nat
      /\ Tries \in Nat /\ RudpSize \in Nat
  BY RudpNumbers, TransportAssumption DEF TransportAssumption, Rudp!RudpAssumption, Rudp!Taken, Rudp!Offset
<1>2. Len(packets) = 0 /\ DOMAIN packets = {} /\ packets \in Seq([seq : Rudp!SeqNums, tries : Nat])
  BY SMT
<1>3. Rudp!TypeOK
  <2>1. tries \in 0 .. Tries /\ Len(packets) <= RudpSize
    BY <1>1, <1>2, SMT
  <2> QED
    BY <1>1, <1>2, <2>1, RudpPhaseNames DEF Rudp!TypeOK
<1>4. Rudp!Safe
  BY RudpPhases DEF Rudp!Safe, Rudp!NothingForgotten, Rudp!InStep
<1>5. Rudp!FiledBehind /\ Rudp!AcksAreTrue
  BY DEF Rudp!FiledBehind, Rudp!AcksAreTrue
<1>6. Rudp!Taken <= Messages
  BY <1>1, SMT
<1> QED
  BY <1>1, <1>2, <1>3, <1>4, <1>5, <1>6 DEF Rudp!Inv

\* A step of the handshake keeps the messages and moves nobody else.
LEMMA RudpMessagesKept ==
  ASSUME Rudp!Inv, NEW pc \in {"idle", "wait"},
         rudp_sender' = rudp_sender \/ rudp_sender' = [rudp_sender EXCEPT !["handshake"].pc = pc],
         UNCHANGED <<counter, packets, victim, rudp_received, acks, accepted, rudp_gaveUp, sentAs>>,
         Rudp!InStep', answers' \subseteq asked', asked' \subseteq {"init", "cookie", "session", "finish"},
         tries' \in 0 .. Tries,
         phase' \in {"init", "cookie", "session", "finish", "ctrl", "failed"}
  PROVE  Rudp!Inv'
<1>1. rudp_sender \in [RudpThreads \cup {"handshake"} ->
         [pc : {"idle", "wait", "number", "push"}, counter : Rudp!SeqNums, seq : Rudp!SeqNums]]
  BY DEF Rudp!Inv
<1>2. rudp_sender' \in [RudpThreads \cup {"handshake"} ->
         [pc : {"idle", "wait", "number", "push"}, counter : Rudp!SeqNums, seq : Rudp!SeqNums]]
  BY <1>1
<1>3. \A s \in RudpThreads : rudp_sender'[s] = rudp_sender[s] \/ rudp_sender'[s].pc \in {"idle", "wait"}
  BY <1>1
<1>4. Rudp!TypeOK'
  BY RudpPhaseNames DEF Rudp!Inv, Rudp!TypeOK
<1>5. Rudp!FiledBehind'
  BY <1>3 DEF Rudp!Inv, Rudp!FiledBehind, Rudp!Offset, Rudp!Taken
<1>6. Rudp!NothingForgotten' /\ Rudp!AcksAreTrue' /\ Rudp!Taken' <= Messages
  BY DEF Rudp!Inv, Rudp!Safe, Rudp!NothingForgotten, Rudp!AcksAreTrue, Rudp!Taken
<1>7. asked' \subseteq {Rudp!Phases[i] : i \in DOMAIN Rudp!Phases}
  BY RudpPhaseNames
<1> QED
  BY <1>2, <1>4, <1>5, <1>6, <1>7 DEF Rudp!Inv, Rudp!Safe

\* The phase goes on only after an answer to its own request.
LEMMA RudpHandshake ==
  ASSUME Rudp!Inv, Rudp!Handshake
  PROVE  Rudp!Inv'
<1> DEFINE Named == {"init", "cookie", "session", "finish"}
<1>1. /\ phase \in Named \cup {"ctrl", "failed"} /\ tries \in 0 .. Tries /\ Tries \in Nat
      /\ answers \subseteq asked /\ asked \subseteq Named /\ Rudp!InStep /\ (Rudp!InHandshake <=> phase \in Named)
  BY RudpPhaseNames, TransportAssumption DEF TransportAssumption, Rudp!RudpAssumption, Rudp!Inv, Rudp!TypeOK,
     Rudp!Safe, Rudp!InHandshake
<1>2. Rudp!InStep' <=> /\ phase' = "cookie" => "init" \in asked'
                       /\ phase' = "session" => "init" \in asked' /\ "cookie" \in asked'
                       /\ phase' = "finish" => "init" \in asked' /\ "cookie" \in asked' /\ "session" \in asked'
  BY RudpPhases DEF Rudp!InStep
<1>3. Rudp!InStep <=> /\ phase = "cookie" => "init" \in asked
                      /\ phase = "session" => "init" \in asked /\ "cookie" \in asked
                      /\ phase = "finish" => "init" \in asked /\ "cookie" \in asked /\ "session" \in asked
  BY RudpPhases DEF Rudp!InStep
<1>4. CASE Rudp!SendRequest
  <2>1. UNCHANGED <<counter, packets, victim, rudp_received, acks, accepted, rudp_gaveUp, sentAs>>
          /\ phase \in Named
    BY <1>1, <1>4 DEF Rudp!SendRequest
  <2>2. CASE tries = Tries
    <3>1. /\ phase' \in {"ctrl", "failed"} /\ tries' = 0 /\ UNCHANGED <<answers, asked, rudp_sender>>
      BY <1>4, <2>2 DEF Rudp!SendRequest, Rudp!Finished
    <3>2. Rudp!InStep'
      BY <1>2, <3>1
    <3>3. tries' \in 0 .. Tries
      BY <1>1, <3>1, SMT
    <3> QED
      BY <1>1, <2>1, <3>1, <3>2, <3>3, RudpMessagesKept
  <2>3. CASE tries # Tries
    <3>1. /\ tries' = tries + 1 /\ rudp_sender' = [rudp_sender EXCEPT !["handshake"].pc = "wait"] /\ phase' = phase
          /\ \/ answers' = answers \cup {phase} /\ asked' = asked \cup {phase}
             \/ UNCHANGED <<answers, asked>>
      BY <1>4, <2>3 DEF Rudp!SendRequest
    <3>2. Rudp!InStep' /\ answers' \subseteq asked'
      BY <1>1, <1>2, <1>3, <3>1
    <3>3. tries' \in 0 .. Tries
      BY <1>1, <2>3, <3>1, SMT
    <3> QED
      BY <1>1, <2>1, <3>1, <3>2, <3>3, RudpMessagesKept
  <2> QED
    BY <2>2, <2>3
<1>5. CASE Rudp!ReceiveAnswer
  <2>1. /\ UNCHANGED <<asked, counter, packets, victim, rudp_received, acks, accepted, rudp_gaveUp, sentAs>>
        /\ rudp_sender' = [rudp_sender EXCEPT !["handshake"].pc = "idle"]
    BY <1>5 DEF Rudp!ReceiveAnswer
  <2>2. PICK answer \in answers :
          /\ answers' \in {answers, answers \ {answer}}
          /\ IF answer = phase THEN phase' = Rudp!PhaseAfter(phase) /\ tries' = 0 ELSE UNCHANGED <<phase, tries>>
    BY <1>5 DEF Rudp!ReceiveAnswer, Rudp!Matches
  <2>3. answers' \subseteq asked' /\ tries' \in 0 .. Tries
    BY <1>1, <2>1, <2>2, SMT
  <2>4. CASE answer # phase
    <3>1. phase' = phase /\ Rudp!InStep'
      BY <1>1, <1>2, <1>3, <2>1, <2>2, <2>4
    <3> QED
      BY <1>1, <2>1, <2>3, <3>1, RudpMessagesKept
  <2>5. CASE answer = phase
    <3>1. /\ phase = "init" => phase' = "cookie"
          /\ phase = "cookie" => phase' = "session"
          /\ phase = "session" => phase' = "finish"
          /\ phase = "finish" => phase' = "ctrl"
      BY <2>2, <2>5 DEF Rudp!PhaseAfter
    <3>2. phase \in asked /\ phase \in Named
      BY <1>1, <2>2, <2>5
    <3>3. Rudp!InStep' /\ phase' \in {"cookie", "session", "finish", "ctrl"}
      BY <1>1, <1>2, <1>3, <2>1, <2>5, <3>1, <3>2
    <3> QED
      BY <1>1, <2>1, <2>3, <3>3, RudpMessagesKept
  <2> QED
    BY <2>4, <2>5
<1>6. CASE Rudp!AnswerTimeout
  <2>1. /\ UNCHANGED <<phase, tries, answers, asked, counter, packets, victim, rudp_received, acks, accepted,
                      rudp_gaveUp, sentAs>>
        /\ rudp_sender' = [rudp_sender EXCEPT !["handshake"].pc = "idle"]
    BY <1>6 DEF Rudp!AnswerTimeout, Rudp!handshake
  <2>2. Rudp!InStep'
    BY <1>1, <1>2, <1>3, <2>1
  <2> QED
    BY <1>1, <2>1, <2>2, RudpMessagesKept
<1> QED
  BY <1>4, <1>5, <1>6 DEF Rudp!Handshake

\* A number is taken: it is behind the counter from now on.
LEMMA RudpTakeCounter ==
  ASSUME Rudp!Inv, NEW s \in RudpThreads, Rudp!TakeCounter(s)
  PROVE  Rudp!Inv'
<1>1. /\ counter' = Rudp!Add(counter, 1) /\ Rudp!Taken < Messages /\ counter \in Rudp!SeqNums
      /\ rudp_sender' = [rudp_sender EXCEPT ![s] = [pc |-> "number", counter |-> counter, seq |-> counter]]
      /\ UNCHANGED <<phase, tries, answers, asked, packets, victim, rudp_received, acks, accepted, rudp_gaveUp,
                    sentAs>>
      /\ Messages \in Nat /\ Rudp!Taken \in Nat
  BY RudpNumbers, SMT DEF Rudp!TakeCounter, Rudp!handshake, Rudp!Inv, Rudp!TypeOK, Rudp!Taken, Rudp!Offset
<1>2. counter' \in Rudp!SeqNums /\ Rudp!Taken' = Rudp!Taken + 1 /\ Rudp!Taken' <= Messages
        /\ Rudp!Offset(counter) = Rudp!Taken
  BY <1>1, RudpCounts, SMT DEF Rudp!Taken, Rudp!Offset
<1>3. \A t \in RudpThreads : rudp_sender'[t] = IF t = s THEN [pc |-> "number", counter |-> counter, seq |-> counter]
                                               ELSE rudp_sender[t]
  BY <1>1 DEF Rudp!Inv
<1>4. rudp_sender' \in [RudpThreads \cup {"handshake"} ->
         [pc : {"idle", "wait", "number", "push"}, counter : Rudp!SeqNums, seq : Rudp!SeqNums]]
  BY <1>1 DEF Rudp!Inv
<1>5. Rudp!FiledBehind'
  <2>1. ASSUME NEW t \in RudpThreads, rudp_sender'[t].pc = "number"
        PROVE  Rudp!Offset(rudp_sender'[t].counter) < Rudp!Taken'
    <3>1. rudp_sender'[t].counter \in Rudp!SeqNums /\ Rudp!Offset(rudp_sender'[t].counter) \in Int
      BY <1>4, RudpNumbers
    <3>2. CASE t = s
      BY <1>1, <1>2, <1>3, <3>2, SMT
    <3>3. CASE t # s
      <4>1. Rudp!Offset(rudp_sender'[t].counter) < Rudp!Taken
        BY <1>3, <2>1, <3>3 DEF Rudp!Inv, Rudp!FiledBehind
      <4> QED
        BY <1>1, <1>2, <3>1, <4>1, SMT
    <3> QED
      BY <3>2, <3>3
  <2>2. ASSUME NEW t \in RudpThreads, rudp_sender'[t].pc = "push"
        PROVE  /\ Rudp!Offset(rudp_sender'[t].counter) < Rudp!Offset(rudp_sender'[t].seq)
               /\ Rudp!Offset(rudp_sender'[t].seq) <= Messages
    BY <1>3, <2>2 DEF Rudp!Inv, Rudp!FiledBehind
  <2>3. \A q \in accepted' : Rudp!Offset(sentAs'[q]) < Rudp!Offset(q) /\ Rudp!Offset(q) <= Messages
    BY <1>1 DEF Rudp!Inv, Rudp!FiledBehind
  <2> QED
    BY <2>1, <2>2, <2>3 DEF Rudp!FiledBehind, Rudp!Offset
<1>6. Rudp!TypeOK' /\ Rudp!Safe' /\ Rudp!AcksAreTrue'
  BY <1>1, <1>2 DEF Rudp!Inv, Rudp!TypeOK, Rudp!Safe, Rudp!InStep, Rudp!NothingForgotten, Rudp!AcksAreTrue
<1> QED
  BY <1>1, <1>2, <1>4, <1>5, <1>6 DEF Rudp!Inv

\* The message is filed under the counter as it then is, and sent.
LEMMA RudpSendRaw ==
  ASSUME Rudp!Inv, NEW s \in RudpThreads, Rudp!SendRaw(s)
  PROVE  Rudp!Inv'
<1> DEFINE moved == [pc |-> "push", counter |-> rudp_sender[s].counter, seq |-> counter]
<1>1. /\ rudp_sender[s].pc = "number" /\ rudp_sender[s].counter \in Rudp!SeqNums /\ counter \in Rudp!SeqNums
      /\ rudp_sender' = [rudp_sender EXCEPT ![s] = moved]
      /\ rudp_received \subseteq rudp_received'
      /\ UNCHANGED <<phase, tries, answers, asked, counter, packets, victim, acks, accepted, rudp_gaveUp, sentAs>>
  BY DEF Rudp!SendRaw, Rudp!handshake, Rudp!FiledUnder, Rudp!Inv, Rudp!TypeOK
<1>2. \A t \in RudpThreads : rudp_sender'[t] = IF t = s THEN moved ELSE rudp_sender[t]
  BY <1>1 DEF Rudp!Inv
<1>3. rudp_sender' \in [RudpThreads \cup {"handshake"} ->
         [pc : {"idle", "wait", "number", "push"}, counter : Rudp!SeqNums, seq : Rudp!SeqNums]]
  BY <1>1 DEF Rudp!Inv
<1>4. Rudp!Offset(rudp_sender[s].counter) < Rudp!Offset(counter) /\ Rudp!Offset(counter) <= Messages
  BY <1>1 DEF Rudp!Inv, Rudp!FiledBehind, Rudp!Taken, Rudp!Offset
<1>5. Rudp!FiledBehind'
  BY <1>1, <1>2, <1>4 DEF Rudp!Inv, Rudp!FiledBehind, Rudp!Taken, Rudp!Offset
<1>6. Rudp!AcksAreTrue'
  BY <1>1 DEF Rudp!Inv, Rudp!AcksAreTrue
<1>7. Rudp!Safe' /\ Rudp!TypeOK'
  BY <1>1 DEF Rudp!Inv, Rudp!TypeOK, Rudp!Safe, Rudp!InStep, Rudp!NothingForgotten
<1> QED
  BY <1>1, <1>3, <1>5, <1>6, <1>7 DEF Rudp!Inv, Rudp!Taken

\* The message is filed, unless the buffer is full or has one under this number.
LEMMA RudpPush ==
  ASSUME Rudp!Inv, NEW s \in RudpThreads, Rudp!Push(s)
  PROVE  Rudp!Inv'
<1> DEFINE seq == rudp_sender[s].seq
           full == Len(packets) >= RudpSize \/ \E i \in DOMAIN packets : packets[i].seq = seq
<1>1. /\ rudp_sender[s].pc = "push" /\ rudp_sender[s].counter \in Rudp!SeqNums /\ seq \in Rudp!SeqNums
      /\ rudp_sender' = [rudp_sender EXCEPT ![s].pc = "idle"]
      /\ UNCHANGED <<phase, tries, answers, asked, counter, victim, rudp_received, acks, rudp_gaveUp>>
  BY DEF Rudp!Push, Rudp!handshake, Rudp!Inv
<1>2. \A t \in RudpThreads : rudp_sender'[t] = rudp_sender[t] \/ rudp_sender'[t].pc = "idle"
  BY <1>1 DEF Rudp!Inv
<1>3. rudp_sender' \in [RudpThreads \cup {"handshake"} ->
         [pc : {"idle", "wait", "number", "push"}, counter : Rudp!SeqNums, seq : Rudp!SeqNums]]
  BY <1>1 DEF Rudp!Inv
<1>4. Rudp!AcksAreTrue'
  BY <1>1 DEF Rudp!Inv, Rudp!AcksAreTrue
<1>5. CASE full
  <2>1. UNCHANGED <<packets, accepted, sentAs>>
    BY <1>5 DEF Rudp!Push
  <2>2. Rudp!FiledBehind'
    BY <1>1, <1>2, <2>1 DEF Rudp!Inv, Rudp!FiledBehind, Rudp!Taken, Rudp!Offset
  <2>3. Rudp!Safe' /\ Rudp!TypeOK'
    BY <1>1, <2>1 DEF Rudp!Inv, Rudp!TypeOK, Rudp!Safe, Rudp!InStep, Rudp!NothingForgotten
  <2> QED
    BY <1>1, <1>3, <1>4, <2>1, <2>2, <2>3 DEF Rudp!Inv, Rudp!Taken
<1>6. CASE ~full
  <2> DEFINE filed == [seq |-> seq, tries |-> 0]
  <2>1. /\ packets' = Append(packets, filed) /\ accepted' = accepted \cup {seq}
        /\ sentAs' = [sentAs EXCEPT ![seq] = rudp_sender[s].counter]
    BY <1>6 DEF Rudp!Push
  <2>2. packets \in Seq([seq : Rudp!SeqNums, tries : Nat]) /\ filed \in [seq : Rudp!SeqNums, tries : Nat]
    BY <1>1 DEF Rudp!Inv
  <2>3. /\ packets' \in Seq([seq : Rudp!SeqNums, tries : Nat]) /\ Len(packets') = Len(packets) + 1
        /\ \A i \in 1 .. Len(packets) : packets'[i] = packets[i]
        /\ packets'[Len(packets) + 1] = filed
        /\ DOMAIN packets = 1 .. Len(packets) /\ DOMAIN packets' = 1 .. Len(packets) + 1 /\ Len(packets) \in Nat
    BY <2>1, <2>2, SMT
  <2>4. Len(packets') <= RudpSize
    <3>1. RudpSize \in Nat /\ ~(Len(packets) >= RudpSize)
      BY <1>6, TransportAssumption DEF TransportAssumption, Rudp!RudpAssumption
    <3> QED
      BY <2>3, <3>1, SMT
  <2>5. \A i \in DOMAIN packets' : i = Len(packets) + 1 \/ i \in DOMAIN packets
    BY <2>3, SMT
  <2>6. Rudp!TypeOK'
    <3>1. \A i, j \in DOMAIN packets : i # j => packets[i].seq # packets[j].seq
      BY DEF Rudp!Inv, Rudp!TypeOK
    <3>2. \A i \in DOMAIN packets : packets[i].seq # seq /\ packets'[i] = packets[i]
      BY <1>6, <2>3
    <3>3. packets'[Len(packets) + 1].seq = seq
      BY <2>3
    <3>4. \A i, j \in DOMAIN packets' : i # j => packets'[i].seq # packets'[j].seq
      BY <2>5, <3>1, <3>2, <3>3, Zenon
    <3> QED
      BY <1>1, <2>4, <3>4 DEF Rudp!Inv, Rudp!TypeOK
  <2>7. \A q \in Rudp!SeqNums : sentAs'[q] = IF q = seq THEN rudp_sender[s].counter ELSE sentAs[q]
    BY <2>1 DEF Rudp!Inv
  <2>8. Rudp!FiledBehind'
    <3>1. Rudp!Offset(rudp_sender[s].counter) < Rudp!Offset(seq) /\ Rudp!Offset(seq) <= Messages
      BY <1>1 DEF Rudp!Inv, Rudp!FiledBehind
    <3>2. \A q \in accepted' : q \in Rudp!SeqNums /\ Rudp!Offset(sentAs'[q]) < Rudp!Offset(q)
                               /\ Rudp!Offset(q) <= Messages
      BY <1>1, <2>1, <2>7, <3>1 DEF Rudp!Inv, Rudp!FiledBehind
    <3> QED
      BY <1>1, <1>2, <3>2 DEF Rudp!Inv, Rudp!FiledBehind, Rudp!Taken, Rudp!Offset
  <2>9. Rudp!NothingForgotten'
    <3> SUFFICES ASSUME NEW q \in accepted'
                 PROVE  \/ sentAs'[q] \in rudp_received \/ q \in rudp_gaveUp
                        \/ \E i \in DOMAIN packets' : packets'[i].seq = q
      BY <1>1 DEF Rudp!NothingForgotten
    <3>1. CASE q = seq
      <4>1. Len(packets) + 1 \in DOMAIN packets' /\ packets'[Len(packets) + 1].seq = q
        BY <2>3, <3>1, SMT
      <4> QED
        BY <4>1
    <3>2. CASE q # seq
      <4>1. q \in accepted /\ q \in Rudp!SeqNums /\ sentAs'[q] = sentAs[q]
        BY <2>1, <2>7, <3>2 DEF Rudp!Inv
      <4>2. \A i \in DOMAIN packets : i \in DOMAIN packets' /\ packets'[i] = packets[i]
        BY <2>3, SMT
      <4> QED
        BY <4>1, <4>2 DEF Rudp!Inv, Rudp!Safe, Rudp!NothingForgotten
    <3> QED
      BY <3>1, <3>2
  <2>10. Rudp!InStep'
    BY <1>1 DEF Rudp!Inv, Rudp!Safe, Rudp!InStep
  <2>11. accepted' \subseteq Rudp!SeqNums /\ sentAs' \in [Rudp!SeqNums -> Rudp!SeqNums]
    BY <1>1, <2>1 DEF Rudp!Inv
  <2>12. \A i \in DOMAIN packets' : packets'[i].seq \in accepted'
    BY <2>1, <2>3, <2>5 DEF Rudp!Inv
  <2> QED
    BY <1>1, <1>3, <1>4, <2>3, <2>6, <2>8, <2>9, <2>10, <2>11, <2>12 DEF Rudp!Inv, Rudp!Safe, Rudp!Taken
<1> QED
  BY <1>5, <1>6

\* What an acknowledgement leaves in the buffer.
LEMMA RudpAcknowledged ==
  ASSUME Rudp!Inv, NEW seq, Rudp!Acknowledge(seq)
  PROVE  /\ packets' \in Seq([seq : Rudp!SeqNums, tries : Nat]) /\ Len(packets') <= RudpSize
         /\ \A i, j \in DOMAIN packets' : i # j => packets'[i].seq # packets'[j].seq
         /\ \A i \in DOMAIN packets' : packets'[i].seq \in accepted
         /\ \A k \in Rudp!Unacked(seq) : \E i \in DOMAIN packets' : packets'[i] = packets[k]
<1>1. PICK n \in 0 .. Len(packets) :
        \E from \in [1 .. n -> Rudp!Unacked(seq)] :
          /\ \A i, j \in 1 .. n : i < j => from[i] < from[j]
          /\ \A k \in Rudp!Unacked(seq) : \E i \in 1 .. n : from[i] = k
          /\ packets' = [i \in 1 .. n |-> packets[from[i]]]
  BY DEF Rudp!Acknowledge
<1>2. PICK from \in [1 .. n -> Rudp!Unacked(seq)] :
        /\ \A i, j \in 1 .. n : i < j => from[i] < from[j]
        /\ \A k \in Rudp!Unacked(seq) : \E i \in 1 .. n : from[i] = k
        /\ packets' = [i \in 1 .. n |-> packets[from[i]]]
  BY <1>1
<1>3. /\ packets \in Seq([seq : Rudp!SeqNums, tries : Nat]) /\ Len(packets) <= RudpSize /\ RudpSize \in Nat
      /\ \A i, j \in DOMAIN packets : i # j => packets[i].seq # packets[j].seq
      /\ \A i \in DOMAIN packets : packets[i].seq \in accepted
  BY TransportAssumption DEF TransportAssumption, Rudp!RudpAssumption, Rudp!Inv, Rudp!TypeOK
<1>4. n \in Nat /\ n <= RudpSize /\ DOMAIN packets = 1 .. Len(packets) /\ Len(packets) \in Nat
        /\ \A i \in DOMAIN packets : packets[i] \in [seq : Rudp!SeqNums, tries : Nat]
  <2> DEFINE Slots == [seq : Rudp!SeqNums, tries : Nat]
  <2>1. packets \in Seq(Slots)
    BY <1>3
  <2> HIDE DEF Slots
  <2>2. \A i \in DOMAIN packets : packets[i] \in Slots
    BY <2>1, SMT
  <2> QED
    BY <1>3, <2>1, <2>2, SMT DEF Slots
<1>5. \A i \in 1 .. n : from[i] \in DOMAIN packets /\ packets'[i] = packets[from[i]]
  BY <1>2 DEF Rudp!Unacked
<1>6. packets' \in Seq([seq : Rudp!SeqNums, tries : Nat]) /\ DOMAIN packets' = 1 .. n /\ Len(packets') = n
  <2> DEFINE Slots == [seq : Rudp!SeqNums, tries : Nat]
             At(i) == packets[from[i]]
  <2>1. n \in Nat /\ \A i \in 1 .. n : At(i) \in Slots
    BY <1>4, <1>5
  <2>2. packets' = [i \in 1 .. n |-> At(i)]
    BY <1>2
  <2> HIDE DEF Slots, At
  <2>3. packets' \in Seq(Slots) /\ DOMAIN packets' = 1 .. n /\ Len(packets') = n
    BY <2>1, <2>2, SMT
  <2> QED
    BY <2>3 DEF Slots
<1>7. \A i, j \in 1 .. n : i # j => from[i] # from[j]
  <2>1. \A i \in 1 .. n : from[i] \in Int
    BY <1>4, <1>5
  <2>2. \A i, j \in 1 .. n : i # j => i < j \/ j < i
    BY SMT
  <2> QED
    BY <1>2, <2>1, <2>2, SMT
<1>8. \A i, j \in 1 .. n : i # j => packets'[i].seq # packets'[j].seq
  <2> SUFFICES ASSUME NEW i \in 1 .. n, NEW j \in 1 .. n, i # j PROVE packets'[i].seq # packets'[j].seq
    OBVIOUS
  <2>1. /\ from[i] # from[j] /\ from[i] \in DOMAIN packets /\ from[j] \in DOMAIN packets
        /\ packets'[i] = packets[from[i]] /\ packets'[j] = packets[from[j]]
    BY <1>5, <1>7
  <2>2. packets[from[i]].seq # packets[from[j]].seq
    BY <1>3, <2>1
  <2> QED
    BY <2>1, <2>2
<1>9. \A i \in 1 .. n : packets'[i].seq \in accepted
  BY <1>3, <1>5
<1>10. \A k \in Rudp!Unacked(seq) : \E i \in 1 .. n : packets'[i] = packets[k]
  BY <1>2, <1>5, Zenon
<1> QED
  BY <1>4, <1>6, <1>8, <1>9, <1>10

\* A step that only takes packets from the buffer, each of which has arrived or is
\* given up.
LEMMA RudpTakesOut ==
  ASSUME Rudp!Inv, NEW seq, Rudp!Acknowledge(seq),
         UNCHANGED <<phase, tries, answers, asked, counter, rudp_sender, rudp_received, acks, accepted, sentAs>>,
         rudp_gaveUp \subseteq rudp_gaveUp',
         \A i \in DOMAIN packets : i \in Rudp!Unacked(seq) \/ sentAs[packets[i].seq] \in rudp_received
                                     \/ packets[i].seq \in rudp_gaveUp'
  PROVE  Rudp!Inv'
<1>1. /\ packets' \in Seq([seq : Rudp!SeqNums, tries : Nat]) /\ Len(packets') <= RudpSize
      /\ \A i, j \in DOMAIN packets' : i # j => packets'[i].seq # packets'[j].seq
      /\ \A i \in DOMAIN packets' : packets'[i].seq \in accepted
      /\ \A k \in Rudp!Unacked(seq) : \E i \in DOMAIN packets' : packets'[i] = packets[k]
  BY RudpAcknowledged
<1>2. Rudp!NothingForgotten'
  <2> SUFFICES ASSUME NEW q \in accepted, sentAs[q] \notin rudp_received, q \notin rudp_gaveUp'
               PROVE  \E i \in DOMAIN packets' : packets'[i].seq = q
    BY DEF Rudp!NothingForgotten
  <2>1. PICK k \in DOMAIN packets : packets[k].seq = q
    BY DEF Rudp!Inv, Rudp!Safe, Rudp!NothingForgotten
  <2>2. k \in Rudp!Unacked(seq)
    BY <2>1
  <2> QED
    BY <1>1, <2>1, <2>2
<1>3. Rudp!TypeOK' /\ Rudp!InStep' /\ Rudp!FiledBehind' /\ Rudp!AcksAreTrue'
  BY <1>1 DEF Rudp!Inv, Rudp!TypeOK, Rudp!Safe, Rudp!InStep, Rudp!FiledBehind, Rudp!AcksAreTrue,
     Rudp!Taken, Rudp!Offset
<1> QED
  BY <1>1, <1>2, <1>3 DEF Rudp!Inv, Rudp!Safe, Rudp!Taken

\* An acknowledgement of the console takes out what has arrived: what is filed before
\* it carries a number before it.
LEMMA RudpAckPacket ==
  ASSUME Rudp!Inv, Rudp!AckPacket
  PROVE  Rudp!Inv'
<1>1. PICK seq \in acks : Rudp!Acknowledge(seq)
  BY DEF Rudp!AckPacket
<1>2. UNCHANGED <<phase, tries, answers, asked, counter, rudp_sender, victim, rudp_received, acks, accepted,
                 rudp_gaveUp, sentAs>>
  BY DEF Rudp!AckPacket, Rudp!handshake
<1>3. PICK n \in 1 .. Messages :
        seq = Rudp!Add(FirstCounter, n) /\ \A i \in 0 .. n - 1 : Rudp!Add(FirstCounter, i) \in rudp_received
  BY <1>1 DEF Rudp!Inv, Rudp!AcksAreTrue
<1>4. ASSUME NEW i \in DOMAIN packets, i \notin Rudp!Unacked(seq)
      PROVE  sentAs[packets[i].seq] \in rudp_received
  <2> DEFINE q == packets[i].seq
  <2>1. q \in accepted /\ q \in Rudp!SeqNums /\ sentAs[q] \in Rudp!SeqNums
    BY DEF Rudp!Inv
  <2>2. Rudp!Offset(sentAs[q]) < Rudp!Offset(q) /\ Rudp!Offset(q) <= Messages
    BY <2>1 DEF Rudp!Inv, Rudp!FiledBehind
  <2>3. ~Rudp!Gt(q, seq)
    BY <1>4 DEF Rudp!Unacked
  <2>4. ~(Rudp!Offset(q) > n)
    BY <1>3, <2>1, <2>2, <2>3, RudpOrder
  <2>5. Rudp!Offset(q) \in Int /\ Rudp!Offset(sentAs[q]) \in Nat
          /\ Rudp!Add(FirstCounter, Rudp!Offset(sentAs[q])) = sentAs[q]
    BY <2>1, RudpNumbers
  <2>6. Rudp!Offset(sentAs[q]) \in 0 .. n - 1
    BY <2>2, <2>4, <2>5, SMT
  <2> QED
    BY <1>3, <2>5, <2>6
<1> QED
  BY <1>1, <1>2, <1>4, RudpTakesOut

\* What the thread gives up is on record.
LEMMA RudpGiveUpAck ==
  ASSUME Rudp!Inv, Rudp!GiveUpAck
  PROVE  Rudp!Inv'
<1>1. PICK seq \in Rudp!VictimSeqs :
        /\ Rudp!Acknowledge(seq)
        /\ rudp_gaveUp' = rudp_gaveUp \cup {packets[i].seq : i \in DOMAIN packets \ Rudp!Unacked(seq)}
  BY DEF Rudp!GiveUpAck
<1>2. UNCHANGED <<phase, tries, answers, asked, counter, rudp_sender, rudp_received, acks, accepted, sentAs>>
  BY DEF Rudp!GiveUpAck, Rudp!handshake
<1> QED
  BY <1>1, <1>2, RudpTakesOut

\* The console says what it has; the thread sends again, and chooses what to give up.
LEMMA RudpOthers ==
  ASSUME Rudp!Inv, Rudp!ConsoleAck \/ Rudp!Resend \/ Rudp!GiveUp
  PROVE  Rudp!Inv'
<1>1. CASE Rudp!ConsoleAck
  <2>1. PICK n \in 1 .. Messages : /\ \A i \in 0 .. n - 1 : Rudp!Add(FirstCounter, i) \in rudp_received
                                   /\ acks' = acks \cup {Rudp!Add(FirstCounter, n)}
    BY <1>1 DEF Rudp!ConsoleAck
  <2>2. UNCHANGED <<phase, tries, answers, asked, counter, rudp_sender, packets, victim, rudp_received, accepted,
                   rudp_gaveUp, sentAs>>
    BY <1>1 DEF Rudp!ConsoleAck, Rudp!handshake
  <2>3. Rudp!AcksAreTrue'
    BY <2>1, <2>2 DEF Rudp!Inv, Rudp!AcksAreTrue
  <2> QED
    BY <2>2, <2>3 DEF Rudp!Inv, Rudp!TypeOK, Rudp!Safe, Rudp!InStep, Rudp!NothingForgotten, Rudp!FiledBehind,
       Rudp!Taken, Rudp!Offset
<1>2. CASE Rudp!Resend
  <2>1. PICK i \in DOMAIN packets : packets' = [packets EXCEPT ![i].tries = @ + 1]
    BY <1>2 DEF Rudp!Resend
  <2>2. UNCHANGED <<phase, tries, answers, asked, counter, rudp_sender, victim, acks, accepted, rudp_gaveUp, sentAs>>
          /\ rudp_received \subseteq rudp_received'
    BY <1>2 DEF Rudp!Resend, Rudp!handshake
  <2>3. packets \in Seq([seq : Rudp!SeqNums, tries : Nat])
    BY DEF Rudp!Inv
  <2>4. /\ packets' \in Seq([seq : Rudp!SeqNums, tries : Nat])
        /\ Len(packets') = Len(packets) /\ DOMAIN packets' = DOMAIN packets
    <3> DEFINE Slots == [seq : Rudp!SeqNums, tries : Nat]
               again == [packets[i] EXCEPT !.tries = @ + 1]
    <3>1. packets \in Seq(Slots) /\ packets[i] \in Slots
      <4> HIDE DEF Slots
      <4>1. packets \in Seq(Slots)
        BY <2>3 DEF Slots
      <4> QED
        BY <4>1, SMT
    <3>2. again \in Slots
      BY <3>1
    <3>3. packets' = [packets EXCEPT ![i] = again]
      BY <2>1, <3>1
    <3> HIDE DEF Slots, again
    <3>4. packets' \in Seq(Slots) /\ Len(packets') = Len(packets) /\ DOMAIN packets' = DOMAIN packets
      BY <3>1, <3>2, <3>3, SMT
    <3> QED
      BY <3>4 DEF Slots
  <2>5. \A j \in DOMAIN packets : packets'[j].seq = packets[j].seq
    BY <2>1, <2>3, SMT
  <2>6. Rudp!TypeOK' /\ \A j \in DOMAIN packets' : packets'[j].seq \in accepted'
    BY <2>2, <2>4, <2>5 DEF Rudp!Inv, Rudp!TypeOK
  <2>7. Rudp!NothingForgotten'
    BY <2>2, <2>4, <2>5 DEF Rudp!Inv, Rudp!Safe, Rudp!NothingForgotten
  <2>8. Rudp!AcksAreTrue'
    BY <2>2 DEF Rudp!Inv, Rudp!AcksAreTrue
  <2>9. Rudp!InStep' /\ Rudp!FiledBehind'
    BY <2>2 DEF Rudp!Inv, Rudp!Safe, Rudp!InStep, Rudp!FiledBehind, Rudp!Taken, Rudp!Offset
  <2> QED
    BY <2>2, <2>4, <2>6, <2>7, <2>8, <2>9 DEF Rudp!Inv, Rudp!Safe, Rudp!Taken
<1>3. CASE Rudp!GiveUp
  <2>1. UNCHANGED <<phase, tries, answers, asked, counter, rudp_sender, packets, rudp_received, acks, accepted,
                   rudp_gaveUp, sentAs>>
    BY <1>3 DEF Rudp!GiveUp, Rudp!handshake
  <2> QED
    BY <2>1 DEF Rudp!Inv, Rudp!TypeOK, Rudp!Safe, Rudp!InStep, Rudp!NothingForgotten, Rudp!FiledBehind,
       Rudp!AcksAreTrue, Rudp!Taken, Rudp!Offset
<1> QED
  BY <1>1, <1>2, <1>3

\* Every step of the handshake and the messages keeps the invariant.
LEMMA RudpStep ==
  ASSUME Rudp!Inv, [Rudp!Next]_Rudp!vars
  PROVE  Rudp!Inv'
<1>1. CASE UNCHANGED Rudp!vars
  BY <1>1 DEF Rudp!vars, Rudp!handshake, Rudp!Inv, Rudp!TypeOK, Rudp!Safe, Rudp!InStep, Rudp!NothingForgotten,
     Rudp!FiledBehind, Rudp!AcksAreTrue, Rudp!Taken, Rudp!Offset
<1>2. CASE Rudp!Next
  BY <1>2, RudpHandshake, RudpTakeCounter, RudpSendRaw, RudpPush, RudpAckPacket, RudpGiveUpAck, RudpOthers
     DEF Rudp!Next
<1> QED
  BY <1>1, <1>2

-----------------------------------------------------------------------------
(* What the sending threads send                                            *)

\* The part counts as this module does.
LEMMA SendingCounts ==
  ASSUME NEW S
  PROVE  Sending!Cardinality(S) = Cardinality(S) /\ (Sending!IsFiniteSet(S) <=> IsFiniteSet(S))
<1>1. Sending!IsFiniteSet(S) <=> IsFiniteSet(S)
  BY DEF Sending!IsFiniteSet, IsFiniteSet
<1>2. Sending!Cardinality(S) = Cardinality(S)
  BY DEF Sending!Cardinality, Cardinality
<1> QED
  BY <1>1, <1>2

\* What the assumption says of the sizes.
LEMMA SendingSizes ==
  /\ IsFiniteSet(Sending!Threads) /\ DataThreads \subseteq Sending!Threads
  /\ AckThread \in Sending!Threads /\ CongestionThread \in Sending!Threads
  /\ AckSize \in Nat \ {0} /\ CongestionSize \in Nat \ {0} /\ MicSize \in Nat \ {0} /\ Block \in Nat \ {0}
  /\ Sizes \subseteq Nat \ {0} /\ FeedbackSizes \subseteq Nat \ {0}
  /\ SizeMax \in Nat /\ MaxSends \in Nat /\ MaxFrames \in Nat /\ MaxFailures \in Nat
<1>1. Sending!SendingAssumption
  BY TransportAssumption DEF TransportAssumption
<1>2. IsFiniteSet(DataThreads) /\ IsFiniteSet({AckThread}) /\ IsFiniteSet({CongestionThread})
  BY <1>1, FS_Singleton, SendingCounts DEF Sending!SendingAssumption
<1>3. Sending!Threads = (DataThreads \cup {AckThread}) \cup {CongestionThread}
  BY DEF Sending!Threads
<1>4. IsFiniteSet(Sending!Threads)
  BY <1>2, <1>3, FS_Union
<1> QED
  BY <1>1, <1>3, <1>4 DEF Sending!SendingAssumption

\* A piece is at least as long as was asked for.
LEMMA SendingRounds ==
  ASSUME NEW n \in Nat
  PROVE  Sending!Rounded(n) \in Nat /\ Sending!Rounded(n) >= n
<1>1. n % Block \in 0 .. Block - 1
  BY SendingSizes, SMT
<1> QED
  BY <1>1, SendingSizes, SMT DEF Sending!Rounded

\* Sets of threads are finite.
LEMMA SendingFinite ==
  ASSUME NEW S, S \subseteq Sending!Threads
  PROVE  IsFiniteSet(S) /\ Cardinality(S) \in Nat
  BY SendingSizes, FS_Subset, FS_CardinalityType

\* Nothing is sent at first.
LEMMA SendingInit ==
  ASSUME Sending!Init
  PROVE  Sending!Inv
<1>1. /\ crypt = FALSE /\ key_pos_local = 0 /\ seq_num_local = 0 /\ wire = <<>> /\ failures = 0
      /\ frames = 0 /\ framea = 0 /\ frameb = 0
      /\ at = [t \in Sending!Threads |-> "idle"]
      /\ hand = [t \in Sending!Threads |-> Sending!NoPacket]
  BY DEF Sending!Init
<1>2. Sending!OnTheWay = {} /\ Sending!Numbering = {} /\ DOMAIN wire = {} /\ Len(wire) = 0
  BY <1>1 DEF Sending!OnTheWay, Sending!Numbering
<1>3. Cardinality({}) = 0
  BY FS_EmptySet
<1>4. Sending!TypeOK
  <2>1. /\ wire \in Seq(Sending!PacketType) /\ crypt \in BOOLEAN
        /\ at \in [Sending!Threads -> {"idle", "numbering", "mac", "socket"}]
        /\ DOMAIN hand = Sending!Threads /\ \A t \in Sending!Threads : at[t] = "idle"
    <3>1. wire \in Seq(Sending!PacketType)
      BY <1>1
    <3>2. crypt \in BOOLEAN /\ DOMAIN hand = Sending!Threads
      BY <1>1
    <3>3. at \in [Sending!Threads -> {"idle", "numbering", "mac", "socket"}] /\ \A t \in Sending!Threads : at[t] = "idle"
      BY <1>1
    <3> QED
      BY <3>1, <3>2, <3>3
  <2>2. /\ key_pos_local \in 0 .. SizeMax /\ seq_num_local \in 0 .. MaxSends /\ Len(wire) <= MaxSends + MaxFrames
        /\ failures \in Nat /\ frames \in 0 .. MaxFrames /\ framea \in Nat /\ frameb \in Nat
    BY <1>1, <1>2, SendingSizes, SMT
  <2> QED
    BY <2>1, <2>2 DEF Sending!TypeOK
<1>5. Sending!PacketsSeparate /\ Sending!FramesTwice /\ Sending!LastBrought
  BY <1>2 DEF Sending!PacketsSeparate, Sending!FramesTwice, Sending!LastBrought
<1>6. Sending!NumbersLeave
  <2>1. 1 .. seq_num_local = {}
    BY <1>1, SMT
  <2>2. Cardinality((1 .. seq_num_local) \ Sending!Numbers(Sending!Packets)) = 0
    BY <2>1, <1>3
  <2>3. Sending!Cardinality((1 .. seq_num_local) \ Sending!Numbers(Sending!Packets)) <= failures
    BY <1>1, <2>2, SendingCounts
  <2> QED
    BY <1>2, <2>3 DEF Sending!NumbersLeave
<1>7. Sending!Counted
  <2>1. Sending!Cardinality(Sending!OnTheWay) = 0 /\ Sending!Cardinality(Sending!Numbering) = 0
    BY <1>2, <1>3, SendingCounts
  <2> QED
    BY <1>1, <1>2, <2>1, SendingSizes, SMT DEF Sending!Counted
<1> QED
  BY <1>4, <1>5, <1>6, <1>7 DEF Sending!Inv

\* When a packet of the microphone gets no position, no later one does.
LEMMA SendingStaysFull ==
  ASSUME Sending!Inv, key_pos_local' \in Nat, crypt' \in BOOLEAN, key_pos_local' >= key_pos_local, crypt => crypt',
         Sending!Overflows(Sending!Reserves(MicSize))
  PROVE  Sending!Overflows(Sending!Reserves(MicSize))'
<1>1. Sending!Reserves(MicSize) \in Nat
  BY SendingSizes, SMT DEF Sending!Reserves
<1>2. Sending!Rounded(Sending!Reserves(MicSize)) \in Nat
  BY <1>1, SendingRounds
<1>3. key_pos_local \in Nat /\ SizeMax \in Nat
  BY SendingSizes, SMT DEF Sending!Inv, Sending!TypeOK
<1> QED
  BY <1>2, <1>3, SMT DEF Sending!Overflows, Sending!Rounded, Sending!Reserves

\* When no frame goes out and the position does not go back, what is said of the
\* frames stays true.
LEMMA SendingSameFrames ==
  ASSUME Sending!Inv, UNCHANGED <<wire, framea, frameb>>, key_pos_local' \in Nat, crypt' \in BOOLEAN,
         key_pos_local' >= key_pos_local, crypt => crypt'
  PROVE  Sending!FramesTwice' /\ Sending!LastBrought'
  BY SendingStaysFull DEF Sending!Inv, Sending!FramesTwice, Sending!LastBrought

\* What is taken from the stream begins where every other piece has ended.
LEMMA SendingTakesPiece ==
  ASSUME Sending!Inv, NEW n \in Nat \ {0}, ~Sending!Overflows(n), Sending!Advance(n),
         UNCHANGED <<crypt, seq_num_local>>,
         NEW p \in Sending!PacketType, p.pos = Sending!Position, p.own = crypt, p.size = Sending!Rounded(n),
         p.number = 0,
         p.used[1] > p.used[2] \/ (p.pos <= p.used[1] /\ p.used[2] < p.pos + p.size)
  PROVE  /\ key_pos_local' \in 0 .. SizeMax /\ key_pos_local' >= key_pos_local
         /\ Sending!Sound(p)'
         /\ \A q \in Sending!PacketType :
              Sending!Sound(q) => Sending!Sound(q)' /\ Sending!Separate(p, q) /\ Sending!Separate(q, p)
<1>1. /\ key_pos_local \in 0 .. SizeMax /\ SizeMax \in Nat /\ crypt \in BOOLEAN /\ seq_num_local \in Nat
      /\ Sending!Rounded(n) \in Nat /\ Sending!Rounded(n) > 0
  BY SendingSizes, SendingRounds, SMT DEF Sending!Inv, Sending!TypeOK
<1>2. /\ key_pos_local' = IF crypt THEN key_pos_local + Sending!Rounded(n) ELSE key_pos_local
      /\ crypt => SizeMax - key_pos_local >= Sending!Rounded(n)
      /\ crypt => p.pos = key_pos_local
  BY <1>1, SMT DEF Sending!Advance, Sending!Overflows, Sending!Position
<1>3. key_pos_local' \in 0 .. SizeMax /\ key_pos_local' >= key_pos_local
  BY <1>1, <1>2, SMT
<1>4. p.pos \in Nat /\ p.size \in Nat /\ p.own \in BOOLEAN /\ p.number \in Nat
  BY DEF Sending!PacketType
<1>5. Sending!Sound(p)'
  BY <1>1, <1>2, <1>3, <1>4, SMT DEF Sending!Sound
<1>6. ASSUME NEW q \in Sending!PacketType, Sending!Sound(q)
      PROVE  Sending!Sound(q)' /\ Sending!Separate(p, q) /\ Sending!Separate(q, p)
  <2>1. q.pos \in Nat /\ q.size \in Nat /\ q.own \in BOOLEAN /\ q.number \in Nat
    BY DEF Sending!PacketType
  <2>2. Sending!Sound(q)'
    BY <1>1, <1>3, <1>6, <2>1, SMT DEF Sending!Sound
  <2>3. Sending!Separate(p, q) /\ Sending!Separate(q, p)
    BY <1>1, <1>2, <1>4, <1>6, <2>1, SMT DEF Sending!Sound, Sending!Separate
  <2> QED
    BY <2>2, <2>3
<1> QED
  BY <1>3, <1>5, <1>6

\* One thread more or less.
LEMMA SendingOneThread ==
  ASSUME NEW S, S \subseteq Sending!Threads, NEW t
  PROVE  /\ Sending!Cardinality(S) \in Nat
         /\ t \notin S => Sending!Cardinality(S \cup {t}) = Sending!Cardinality(S) + 1
         /\ t \in S => Sending!Cardinality(S \ {t}) = Sending!Cardinality(S) - 1
<1>1. IsFiniteSet(S) /\ Cardinality(S) \in Nat
  BY SendingFinite
<1>2. t \notin S => Cardinality(S \cup {t}) = Cardinality(S) + 1
  BY <1>1, FS_AddElement
<1>3. t \in S => Cardinality(S \ {t}) = Cardinality(S) - 1
  BY <1>1, FS_RemoveElement
<1> QED
  BY <1>1, <1>2, <1>3, SendingCounts

\* A packet is begun: it has a piece of its own and no number yet.
LEMMA SendingBegin ==
  ASSUME Sending!Inv, NEW t \in Sending!Threads, NEW n \in Nat \ {0}, NEW step \in {"numbering", "mac"},
         step = "numbering" => t \in DataThreads, Sending!Begin(t, n, step)
  PROVE  Sending!Inv'
<1>1. /\ at[t] = "idle" /\ Sending!Room /\ ~Sending!Overflows(n) /\ Sending!Advance(n)
      /\ at' = [at EXCEPT ![t] = step]
      /\ UNCHANGED <<crypt, seq_num_local, wire, failures, frames, framea, frameb>>
  BY DEF Sending!Begin, Sending!Mic
<1>2. /\ key_pos_local \in 0 .. SizeMax /\ SizeMax \in Nat /\ crypt \in BOOLEAN
      /\ wire \in Seq(Sending!PacketType) /\ DOMAIN hand = Sending!Threads
      /\ at \in [Sending!Threads -> {"idle", "numbering", "mac", "socket"}]
      /\ \A u \in Sending!Threads : at[u] # "idle" => hand[u] \in Sending!PacketType
  BY SendingSizes DEF Sending!Inv, Sending!TypeOK
<1>3. PICK p :
      /\ DOMAIN hand' = Sending!Threads /\ p = hand'[t]
      /\ p = [pos |-> Sending!Position, own |-> crypt, size |-> Sending!Rounded(n), used |-> <<0, -1>>,
              number |-> 0, units |-> <<>>]
      /\ \A u \in Sending!Threads : u # t => hand'[u] = hand[u] /\ at'[u] = at[u]
      /\ at'[t] = step
  <2>1. hand' = [hand EXCEPT ![t] = Sending!Packet(Sending!Position, crypt, Sending!Rounded(n), Sending!Nothing, <<>>)]
    BY DEF Sending!Begin
  <2>2. DOMAIN hand' = Sending!Threads /\ \A u \in Sending!Threads : u # t => hand'[u] = hand[u]
    BY <1>2, <2>1
  <2>3. hand'[t] = Sending!Packet(Sending!Position, crypt, Sending!Rounded(n), Sending!Nothing, <<>>)
    BY <1>2, <2>1
  <2>4. at'[t] = step /\ \A u \in Sending!Threads : u # t => at'[u] = at[u]
    BY <1>1, <1>2
  <2> QED
    BY <2>2, <2>3, <2>4 DEF Sending!Packet, Sending!Nothing
<1>4. p \in Sending!PacketType /\ p.units = <<>> /\ p.number = 0
  <2>1. Sending!Position \in Nat
    BY <1>2, SMT DEF Sending!Position
  <2>2. Sending!Rounded(n) \in Nat \ {0} /\ <<0, -1>> \in Int \X Int /\ <<>> \in Seq(Nat)
    BY SendingRounds, SMT
  <2> QED
    BY <1>2, <1>3, <2>1, <2>2 DEF Sending!PacketType
<1>5. /\ key_pos_local' \in 0 .. SizeMax /\ key_pos_local' >= key_pos_local
      /\ Sending!Sound(p)'
      /\ \A q \in Sending!PacketType :
           Sending!Sound(q) => Sending!Sound(q)' /\ Sending!Separate(p, q) /\ Sending!Separate(q, p)
  <2>1. /\ p.pos = Sending!Position /\ p.own = crypt /\ p.size = Sending!Rounded(n) /\ p.number = 0
        /\ p.used[1] > p.used[2]
    BY <1>3
  <2>2. UNCHANGED <<crypt, seq_num_local>>
    BY <1>1
  <2> QED
    BY <1>1, <1>4, <2>1, <2>2, SendingTakesPiece
<1>6. /\ Sending!OnTheWay' = Sending!OnTheWay \cup {t} /\ t \notin Sending!OnTheWay
      /\ \A u \in Sending!OnTheWay : u \in Sending!Threads /\ u # t /\ hand'[u] = hand[u]
      /\ Sending!OnTheWay \subseteq Sending!Threads /\ Sending!Numbering \subseteq Sending!OnTheWay
      /\ Sending!Numbering' = IF step = "numbering" THEN Sending!Numbering \cup {t} ELSE Sending!Numbering
  BY <1>1, <1>3 DEF Sending!OnTheWay, Sending!Numbering
<1>7. Sending!PacketsSeparate'
  <2>1. \A i \in DOMAIN wire : wire[i] \in Sending!PacketType /\ Sending!Sound(wire[i])
    BY <1>2 DEF Sending!Inv, Sending!PacketsSeparate
  <2>2. \A u \in Sending!OnTheWay : hand[u] \in Sending!PacketType /\ Sending!Sound(hand[u])
    BY <1>2 DEF Sending!Inv, Sending!PacketsSeparate, Sending!OnTheWay
  <2>3. \A i \in DOMAIN wire : Sending!Separate(p, wire[i]) /\ Sending!Separate(wire[i], p)
    BY <1>5, <2>1
  <2>4. \A u \in Sending!OnTheWay : Sending!Separate(p, hand[u]) /\ Sending!Separate(hand[u], p)
    BY <1>5, <2>2
  <2>5. \A i \in DOMAIN wire : Sending!Sound(wire[i])'
    BY <1>1, <1>5, <2>1 DEF Sending!Sound
  <2>6. \A u \in Sending!OnTheWay : Sending!Sound(hand[u])'
    BY <1>5, <1>6, <2>2 DEF Sending!Sound
  <2>7. Sending!Sound(hand[t])'
    BY <1>3, <1>5 DEF Sending!Sound
  <2>8. /\ \A i, j \in DOMAIN wire : i # j => Sending!Separate(wire[i], wire[j])
        /\ \A u \in Sending!OnTheWay, i \in DOMAIN wire :
             Sending!Separate(hand[u], wire[i]) /\ Sending!Separate(wire[i], hand[u])
        /\ \A u, v \in Sending!OnTheWay : u # v => Sending!Separate(hand[u], hand[v])
    BY DEF Sending!Inv, Sending!PacketsSeparate
  <2> QED
    <3>1. \A i \in DOMAIN wire' : Sending!Sound(wire[i])'
      BY <1>1, <2>5
    <3>2. \A u \in Sending!OnTheWay' : Sending!Sound(hand[u])'
      BY <1>6, <2>6, <2>7
    <3>3. \A i, j \in DOMAIN wire' : i # j => Sending!Separate(wire[i], wire[j])'
      BY <1>1, <2>8 DEF Sending!Separate
    <3>4. \A u \in Sending!OnTheWay', i \in DOMAIN wire' :
            Sending!Separate(hand[u], wire[i])' /\ Sending!Separate(wire[i], hand[u])'
      <4> SUFFICES ASSUME NEW u \in Sending!OnTheWay', NEW i \in DOMAIN wire'
                   PROVE  Sending!Separate(hand[u], wire[i])' /\ Sending!Separate(wire[i], hand[u])'
        OBVIOUS
      <4>1. CASE u = t
        BY <1>1, <1>3, <2>3, <4>1 DEF Sending!Separate
      <4>2. CASE u \in Sending!OnTheWay
        BY <1>1, <1>6, <2>8, <4>2 DEF Sending!Separate
      <4> QED
        BY <1>6, <4>1, <4>2
    <3>5. \A u, v \in Sending!OnTheWay' : u # v => Sending!Separate(hand[u], hand[v])'
      <4> SUFFICES ASSUME NEW u \in Sending!OnTheWay', NEW v \in Sending!OnTheWay', u # v
                   PROVE  Sending!Separate(hand[u], hand[v])'
        OBVIOUS
      <4>1. CASE u = t
        BY <1>3, <1>6, <2>4, <4>1 DEF Sending!Separate
      <4>2. CASE v = t
        BY <1>3, <1>6, <2>4, <4>2 DEF Sending!Separate
      <4>3. CASE u \in Sending!OnTheWay /\ v \in Sending!OnTheWay
        BY <1>6, <2>8, <4>3 DEF Sending!Separate
      <4> QED
        BY <1>6, <4>1, <4>2, <4>3
    <3> QED
      BY <3>1, <3>2, <3>3, <3>4, <3>5 DEF Sending!PacketsSeparate
<1>8. Sending!NumbersLeave'
  <2>1. Sending!Packets' = Sending!Packets \cup {p}
    BY <1>1, <1>3, <1>6 DEF Sending!Packets
  <2>2. Sending!Numbers(Sending!Packets)' = Sending!Numbers(Sending!Packets)
    BY <1>4, <2>1 DEF Sending!Numbers
  <2> QED
    BY <1>1, <2>2 DEF Sending!Inv, Sending!NumbersLeave
<1>9. Sending!Counted'
  <2>1. /\ Sending!Cardinality(Sending!OnTheWay) \in Nat
        /\ Sending!Cardinality(Sending!OnTheWay') = Sending!Cardinality(Sending!OnTheWay) + 1
    BY <1>6, SendingOneThread
  <2>2. /\ Sending!Cardinality(Sending!Numbering) \in Nat
        /\ Sending!Cardinality(Sending!Numbering') \in Nat
        /\ Sending!Cardinality(Sending!Numbering') <= Sending!Cardinality(Sending!Numbering) + 1
    <3>1. Sending!Numbering \subseteq Sending!Threads /\ t \notin Sending!Numbering
      BY <1>6
    <3>2. /\ Sending!Cardinality(Sending!Numbering) \in Nat
          /\ Sending!Cardinality(Sending!Numbering \cup {t}) = Sending!Cardinality(Sending!Numbering) + 1
      BY <3>1, SendingOneThread
    <3> QED
      BY <1>6, <3>2, SMT
  <2>3. Len(wire) \in Nat /\ failures \in Nat /\ seq_num_local \in Nat /\ frames \in Nat /\ MaxSends \in Nat
    BY <1>2, SendingSizes, SMT DEF Sending!Inv, Sending!TypeOK
  <2> QED
    BY <1>1, <2>1, <2>2, <2>3, SMT DEF Sending!Inv, Sending!Counted, Sending!Room
<1>10. Sending!FramesTwice' /\ Sending!LastBrought'
  BY <1>1, <1>2, <1>5, SendingSameFrames, SMT
<1>11. Sending!TypeOK'
  <2>1. at' \in [Sending!Threads -> {"idle", "numbering", "mac", "socket"}]
    BY <1>1, <1>2
  <2>2. ASSUME NEW u \in Sending!Threads
        PROVE  /\ at'[u] = "numbering" => u \in DataThreads /\ hand'[u].number = 0
               /\ at'[u] # "idle" => hand'[u] \in Sending!PacketType /\ hand'[u].units = <<>>
    <3>1. CASE u = t
      BY <1>3, <1>4, <3>1
    <3>2. CASE u # t
      BY <1>3, <3>2 DEF Sending!Inv, Sending!TypeOK
    <3> QED
      BY <3>1, <3>2
  <2> QED
    BY <1>1, <1>2, <1>3, <1>5, <2>1, <2>2 DEF Sending!Inv, Sending!TypeOK
<1> QED
  BY <1>7, <1>8, <1>9, <1>10, <1>11 DEF Sending!Inv

\* A number is given to one packet.
LEMMA SendingTakeNumber ==
  ASSUME Sending!Inv, NEW t \in Sending!Threads, Sending!TakeNumber(t)
  PROVE  Sending!Inv'
<1>1. /\ at[t] = "numbering" /\ at' = [at EXCEPT ![t] = "mac"]
      /\ seq_num_local' = seq_num_local + 1
      /\ UNCHANGED <<crypt, key_pos_local, wire, failures, frames, framea, frameb>>
  BY DEF Sending!TakeNumber, Sending!Mic
<1>2. /\ key_pos_local \in 0 .. SizeMax /\ SizeMax \in Nat /\ crypt \in BOOLEAN /\ seq_num_local \in Nat
      /\ wire \in Seq(Sending!PacketType) /\ DOMAIN hand = Sending!Threads
      /\ at \in [Sending!Threads -> {"idle", "numbering", "mac", "socket"}]
      /\ \A u \in Sending!Threads : at[u] # "idle" => hand[u] \in Sending!PacketType
  BY SendingSizes, SMT DEF Sending!Inv, Sending!TypeOK
<1>3. hand[t] \in Sending!PacketType /\ hand[t].number = 0 /\ hand[t].units = <<>>
  BY <1>1 DEF Sending!Inv, Sending!TypeOK
<1>4. PICK p :
      /\ DOMAIN hand' = Sending!Threads /\ p = hand'[t]
      /\ p = [pos |-> hand[t].pos, own |-> hand[t].own, size |-> hand[t].size, used |-> hand[t].used,
              number |-> seq_num_local + 1, units |-> hand[t].units]
      /\ \A u \in Sending!Threads : u # t => hand'[u] = hand[u] /\ at'[u] = at[u]
      /\ at'[t] = "mac"
  <2>1. hand' = [hand EXCEPT ![t].number = seq_num_local + 1]
    BY DEF Sending!TakeNumber
  <2>2. DOMAIN hand' = Sending!Threads /\ \A u \in Sending!Threads : u # t => hand'[u] = hand[u]
    BY <1>2, <2>1
  <2>3. hand'[t] = [hand[t] EXCEPT !.number = seq_num_local + 1]
    BY <1>2, <2>1
  <2>4. hand'[t] = [pos |-> hand[t].pos, own |-> hand[t].own, size |-> hand[t].size, used |-> hand[t].used,
                    number |-> seq_num_local + 1, units |-> hand[t].units]
    BY <1>3, <2>3 DEF Sending!PacketType
  <2>5. at'[t] = "mac" /\ \A u \in Sending!Threads : u # t => at'[u] = at[u]
    BY <1>1, <1>2
  <2> QED
    BY <2>2, <2>4, <2>5
<1>5. p \in Sending!PacketType /\ p.units = <<>> /\ p.number = seq_num_local + 1
  <2>1. seq_num_local + 1 \in Nat
    BY <1>2, SMT
  <2> QED
    BY <1>3, <1>4, <2>1 DEF Sending!PacketType
<1>6. /\ Sending!OnTheWay' = Sending!OnTheWay /\ t \in Sending!OnTheWay
      /\ \A u \in Sending!OnTheWay : u \in Sending!Threads /\ (u # t => hand'[u] = hand[u])
      /\ Sending!OnTheWay \subseteq Sending!Threads
      /\ t \in Sending!Numbering /\ Sending!Numbering \subseteq Sending!Threads
      /\ Sending!Numbering' = Sending!Numbering \ {t}
  BY <1>1, <1>4 DEF Sending!OnTheWay, Sending!Numbering
<1>7. /\ \A i \in DOMAIN wire : wire[i] \in Sending!PacketType /\ Sending!Sound(wire[i])
      /\ \A u \in Sending!OnTheWay : hand[u] \in Sending!PacketType /\ Sending!Sound(hand[u])
      /\ \A i, j \in DOMAIN wire : i # j => Sending!Separate(wire[i], wire[j])
      /\ \A u \in Sending!OnTheWay, i \in DOMAIN wire :
           Sending!Separate(hand[u], wire[i]) /\ Sending!Separate(wire[i], hand[u])
      /\ \A u, v \in Sending!OnTheWay : u # v => Sending!Separate(hand[u], hand[v])
  BY <1>2 DEF Sending!Inv, Sending!PacketsSeparate, Sending!OnTheWay
<1>8. ASSUME NEW q \in Sending!PacketType, Sending!Sound(q)
      PROVE  Sending!Sound(q)' /\ q.number # seq_num_local + 1
  <2>1. q.number \in Nat /\ q.number <= seq_num_local
    BY <1>8 DEF Sending!PacketType, Sending!Sound
  <2>2. q.number <= seq_num_local + 1 /\ q.number # seq_num_local + 1
    BY <1>2, <2>1, SMT
  <2> QED
    BY <1>1, <1>8, <2>2 DEF Sending!Sound
<1>9. Sending!PacketsSeparate'
  <2>1. \A i \in DOMAIN wire' : Sending!Sound(wire[i])'
    BY <1>1, <1>7, <1>8 DEF Sending!Sound
  <2>2. \A u \in Sending!OnTheWay' : Sending!Sound(hand[u])'
    <3> SUFFICES ASSUME NEW u \in Sending!OnTheWay
                 PROVE  Sending!Sound(hand[u])'
      BY <1>6
    <3>1. CASE u = t
      <4>1. p.pos = hand[t].pos /\ p.own = hand[t].own /\ p.size = hand[t].size /\ p.used = hand[t].used
        BY <1>4
      <4>2. p.number <= seq_num_local'
        BY <1>1, <1>2, <1>5, SMT
      <4> QED
        BY <1>1, <1>4, <1>7, <3>1, <4>1, <4>2 DEF Sending!Sound
    <3>2. CASE u # t
      BY <1>6, <1>7, <1>8, <3>2 DEF Sending!Sound
    <3> QED
      BY <3>1, <3>2
  <2>3. \A i, j \in DOMAIN wire' : i # j => Sending!Separate(wire[i], wire[j])'
    BY <1>1, <1>7 DEF Sending!Separate
  <2>4. p.pos = hand[t].pos /\ p.own = hand[t].own /\ p.size = hand[t].size
    BY <1>4
  <2>5. ASSUME NEW q \in Sending!PacketType, Sending!Sound(q), Sending!Separate(hand[t], q), Sending!Separate(q, hand[t])
        PROVE  Sending!Separate(p, q) /\ Sending!Separate(q, p)
    BY <1>5, <1>8, <2>4, <2>5 DEF Sending!Separate
  <2>6. \A u \in Sending!OnTheWay', i \in DOMAIN wire' :
          Sending!Separate(hand[u], wire[i])' /\ Sending!Separate(wire[i], hand[u])'
    <3> SUFFICES ASSUME NEW u \in Sending!OnTheWay, NEW i \in DOMAIN wire
                 PROVE  Sending!Separate(hand[u], wire[i])' /\ Sending!Separate(wire[i], hand[u])'
      BY <1>1, <1>6
    <3>1. CASE u = t
      <4>1. Sending!Separate(p, wire[i]) /\ Sending!Separate(wire[i], p)
        BY <1>6, <1>7, <2>5
      <4> QED
        BY <1>1, <1>4, <3>1, <4>1 DEF Sending!Separate
    <3>2. CASE u # t
      BY <1>1, <1>6, <1>7, <3>2 DEF Sending!Separate
    <3> QED
      BY <3>1, <3>2
  <2>7. \A u, v \in Sending!OnTheWay' : u # v => Sending!Separate(hand[u], hand[v])'
    <3> SUFFICES ASSUME NEW u \in Sending!OnTheWay, NEW v \in Sending!OnTheWay, u # v
                 PROVE  Sending!Separate(hand[u], hand[v])'
      BY <1>6
    <3>1. CASE u = t
      <4>1. Sending!Separate(p, hand[v])
        BY <1>6, <1>7, <2>5, <3>1
      <4> QED
        BY <1>4, <1>6, <3>1, <4>1 DEF Sending!Separate
    <3>2. CASE v = t
      <4>1. Sending!Separate(hand[u], p)
        BY <1>6, <1>7, <2>5, <3>2
      <4> QED
        BY <1>4, <1>6, <3>2, <4>1 DEF Sending!Separate
    <3>3. CASE u # t /\ v # t
      BY <1>6, <1>7, <3>3 DEF Sending!Separate
    <3> QED
      BY <3>1, <3>2, <3>3
  <2> QED
    BY <2>1, <2>2, <2>3, <2>6, <2>7 DEF Sending!PacketsSeparate
<1>10. Sending!NumbersLeave'
  <2>1. Sending!Numbers(Sending!Packets)' = Sending!Numbers(Sending!Packets) \cup {seq_num_local + 1}
    <3>1. \A q : q \in Sending!Packets' <=>
                   (\E i \in DOMAIN wire : q = wire[i]) \/ q = p \/ \E u \in Sending!OnTheWay : u # t /\ q = hand[u]
      BY <1>1, <1>4, <1>6 DEF Sending!Packets
    <3>2. \A q : q \in Sending!Packets <=>
                   (\E i \in DOMAIN wire : q = wire[i]) \/ q = hand[t] \/ \E u \in Sending!OnTheWay : u # t /\ q = hand[u]
      BY <1>6 DEF Sending!Packets
    <3>3. p.number # 0 /\ p.number = seq_num_local + 1
      BY <1>2, <1>5, SMT
    <3>4. \A n : n \in Sending!Numbers(Sending!Packets)' <=> n # 0 /\ \E q \in Sending!Packets' : q.number = n
      BY DEF Sending!Numbers
    <3>5. \A n : n \in Sending!Numbers(Sending!Packets) <=> n # 0 /\ \E q \in Sending!Packets : q.number = n
      BY DEF Sending!Numbers
    <3> QED
      BY <1>3, <3>1, <3>2, <3>3, <3>4, <3>5
  <2>2. (1 .. seq_num_local') \ Sending!Numbers(Sending!Packets)' = (1 .. seq_num_local) \ Sending!Numbers(Sending!Packets)
    <3>1. seq_num_local + 1 \notin 1 .. seq_num_local
      BY <1>2, SMT
    <3>2. 1 .. seq_num_local' = (1 .. seq_num_local) \cup {seq_num_local + 1}
      BY <1>1, <1>2, SMT
    <3> QED
      BY <2>1, <3>1, <3>2
  <2> QED
    BY <1>1, <2>2 DEF Sending!Inv, Sending!NumbersLeave
<1>11. Sending!Counted'
  <2>1. /\ Sending!Cardinality(Sending!Numbering) \in Nat
        /\ Sending!Cardinality(Sending!Numbering') = Sending!Cardinality(Sending!Numbering) - 1
    BY <1>6, SendingOneThread
  <2> QED
    BY <1>1, <1>2, <1>6, <2>1, SMT DEF Sending!Inv, Sending!Counted
<1>12. Sending!FramesTwice' /\ Sending!LastBrought'
  BY <1>1, <1>2, SendingSameFrames, SMT
<1>13. Sending!TypeOK'
  <2>1. at' \in [Sending!Threads -> {"idle", "numbering", "mac", "socket"}]
    BY <1>1, <1>2
  <2>2. \A u \in Sending!Threads : /\ at'[u] = "numbering" => u \in DataThreads /\ hand'[u].number = 0
                                   /\ at'[u] # "idle" => hand'[u] \in Sending!PacketType /\ hand'[u].units = <<>>
    BY <1>4, <1>5 DEF Sending!Inv, Sending!TypeOK
  <2>3. seq_num_local' \in 0 .. MaxSends
    <3>1. Sending!Cardinality(Sending!Numbering) \in Nat /\ Sending!Cardinality(Sending!Numbering) - 1 \in Nat
      <4>1. Sending!Numbering \ {t} \subseteq Sending!Threads
        BY <1>6
      <4>2. /\ Sending!Cardinality(Sending!Numbering) \in Nat
            /\ Sending!Cardinality(Sending!Numbering \ {t}) = Sending!Cardinality(Sending!Numbering) - 1
        BY <1>6, SendingOneThread
      <4>3. Sending!Cardinality(Sending!Numbering \ {t}) \in Nat
        BY <4>1, SendingOneThread
      <4> QED
        BY <4>2, <4>3
    <3> QED
      BY <1>1, <1>2, <3>1, SendingSizes, SMT DEF Sending!Inv, Sending!Counted
  <2> QED
    BY <1>1, <1>2, <1>4, <2>1, <2>2, <2>3 DEF Sending!Inv, Sending!TypeOK
<1> QED
  BY <1>9, <1>10, <1>11, <1>12, <1>13 DEF Sending!Inv

\* Packets are added at the end.
LEMMA SendingAppends ==
  ASSUME wire \in Seq(Sending!PacketType), NEW p \in Sending!PacketType, wire' = Append(wire, p)
  PROVE  /\ wire' \in Seq(Sending!PacketType) /\ Len(wire) \in Nat /\ Len(wire') = Len(wire) + 1
         /\ DOMAIN wire' = DOMAIN wire \cup {Len(wire) + 1} /\ wire'[Len(wire) + 1] = p
         /\ \A i \in DOMAIN wire : i \in Nat /\ i < Len(wire) + 1 /\ wire'[i] = wire[i]
         /\ Len(wire) + 1 \notin DOMAIN wire
<1>1. Len(wire) \in Nat /\ DOMAIN wire = 1 .. Len(wire)
  OBVIOUS
<1>2. /\ wire' \in Seq(Sending!PacketType) /\ Len(wire') = Len(wire) + 1 /\ wire'[Len(wire) + 1] = p
      /\ DOMAIN wire' = 1 .. Len(wire) + 1
      /\ \A i \in 1 .. Len(wire) : wire'[i] = wire[i]
  <2>1. wire' \in Seq(Sending!PacketType) /\ Len(wire') = Len(wire) + 1 /\ wire'[Len(wire) + 1] = p
    OBVIOUS
  <2>2. DOMAIN wire' = 1 .. Len(wire')
    BY <2>1
  <2>3. \A i \in 1 .. Len(wire) : wire'[i] = wire[i]
    BY <1>1
  <2> QED
    BY <2>1, <2>2, <2>3
<1>3. /\ 1 .. Len(wire) + 1 = (1 .. Len(wire)) \cup {Len(wire) + 1} /\ Len(wire) + 1 \notin 1 .. Len(wire)
      /\ \A i \in 1 .. Len(wire) : i \in Nat /\ i < Len(wire) + 1
  BY <1>1, SMT
<1> QED
  BY <1>1, <1>2, <1>3

\* A packet that is apart from all may be added to the wire.
LEMMA SendingKeepsApart ==
  ASSUME Sending!Inv, NEW p \in Sending!PacketType, wire' = Append(wire, p),
         Sending!Sound(p)',
         \A q \in Sending!PacketType : Sending!Sound(q) => Sending!Sound(q)',
         \A i \in DOMAIN wire : Sending!Separate(p, wire[i]) /\ Sending!Separate(wire[i], p)
  PROVE  /\ \A i \in DOMAIN wire' : Sending!Sound(wire[i])'
         /\ \A i, j \in DOMAIN wire' : i # j => Sending!Separate(wire[i], wire[j])'
<1> DEFINE n == Len(wire) + 1
<1>1. wire \in Seq(Sending!PacketType)
  BY DEF Sending!Inv, Sending!TypeOK
<1>2. /\ DOMAIN wire' = DOMAIN wire \cup {n} /\ wire'[n] = p /\ n \notin DOMAIN wire
      /\ \A i \in DOMAIN wire : wire'[i] = wire[i] /\ wire[i] \in Sending!PacketType
  BY <1>1, SendingAppends
<1> HIDE DEF n
<1>3. /\ \A i \in DOMAIN wire : Sending!Sound(wire[i])
      /\ \A i, j \in DOMAIN wire : i # j => Sending!Separate(wire[i], wire[j])
  BY DEF Sending!Inv, Sending!PacketsSeparate
<1>4. ASSUME NEW i \in DOMAIN wire'
      PROVE  Sending!Sound(wire[i])'
  <2>1. CASE i = n
    BY <1>2, <2>1 DEF Sending!Sound
  <2>2. CASE i \in DOMAIN wire
    BY <1>2, <1>3, <2>2 DEF Sending!Sound
  <2> QED
    BY <1>2, <1>4, <2>1, <2>2
<1>5. ASSUME NEW i \in DOMAIN wire', NEW j \in DOMAIN wire', i # j
      PROVE  Sending!Separate(wire[i], wire[j])'
  <2>1. CASE i = n
    BY <1>2, <1>5, <2>1 DEF Sending!Separate
  <2>2. CASE j = n
    BY <1>2, <1>5, <2>2 DEF Sending!Separate
  <2>3. CASE i \in DOMAIN wire /\ j \in DOMAIN wire
    BY <1>2, <1>3, <1>5, <2>3 DEF Sending!Separate
  <2> QED
    BY <1>2, <1>5, <2>1, <2>2, <2>3
<1> QED
  BY <1>4, <1>5

\* A packet without frames says nothing new of them.
LEMMA SendingPlainPacket ==
  ASSUME Sending!Inv, NEW p \in Sending!PacketType, wire' = Append(wire, p), p.units = <<>>,
         UNCHANGED <<framea, frameb>>, key_pos_local' \in Nat, crypt' \in BOOLEAN,
         key_pos_local' >= key_pos_local, crypt => crypt'
  PROVE  Sending!FramesTwice' /\ Sending!LastBrought'
<1> DEFINE n == Len(wire) + 1
<1>1. wire \in Seq(Sending!PacketType)
  BY DEF Sending!Inv, Sending!TypeOK
<1>2. /\ DOMAIN wire' = DOMAIN wire \cup {n} /\ wire'[n] = p /\ n \notin DOMAIN wire
      /\ \A i \in DOMAIN wire : wire'[i] = wire[i] /\ i \in Nat /\ i < n
      /\ n \in Nat /\ DOMAIN wire = 1 .. n - 1
  BY <1>1, SendingAppends, SMT
<1> HIDE DEF n
<1>3. Sending!Overflows(Sending!Reserves(MicSize)) => Sending!Overflows(Sending!Reserves(MicSize))'
  BY SendingStaysFull
<1>4. \A i \in DOMAIN wire' : wire'[i].units # <<>> => i \in DOMAIN wire /\ wire'[i] = wire[i]
  BY <1>2
<1>5. Sending!FramesTwice'
  <2> SUFFICES ASSUME NEW i \in DOMAIN wire', NEW j \in DOMAIN wire',
                      i < j, wire'[i].units # <<>>, wire'[j].units # <<>>,
                      \A l \in i + 1 .. j - 1 : wire'[l].units = <<>>
               PROVE  \E k \in DOMAIN wire'[j].units : wire'[j].units[k] = wire'[i].units[1]
    BY DEF Sending!FramesTwice
  <2>1. i \in DOMAIN wire /\ j \in DOMAIN wire /\ wire'[i] = wire[i] /\ wire'[j] = wire[j]
    BY <1>4
  <2>2. \A l \in i + 1 .. j - 1 : wire[l].units = <<>>
    <3>1. \A l \in i + 1 .. j - 1 : l \in DOMAIN wire
      BY <1>2, <2>1, SMT
    <3> QED
      BY <1>2, <3>1
  <2> QED
    BY <2>1, <2>2 DEF Sending!Inv, Sending!FramesTwice
<1>6. Sending!LastBrought'
  <2> SUFFICES ASSUME NEW i \in DOMAIN wire', wire'[i].units # <<>>
               PROVE  /\ framea' # 0 /\ frameb' # 0
                      /\ \/ \E j \in DOMAIN wire' : i < j /\ wire'[j].units # <<>>
                         \/ wire'[i].units[1] = framea' \/ Sending!Overflows(Sending!Reserves(MicSize))'
    BY DEF Sending!LastBrought
  <2>1. i \in DOMAIN wire /\ wire'[i] = wire[i]
    BY <1>4
  <2>2. /\ framea # 0 /\ frameb # 0
        /\ \/ \E j \in DOMAIN wire : i < j /\ wire[j].units # <<>>
           \/ wire[i].units[1] = framea \/ Sending!Overflows(Sending!Reserves(MicSize))
    BY <2>1 DEF Sending!Inv, Sending!LastBrought
  <2> QED
    BY <1>2, <1>3, <2>1, <2>2
<1> QED
  BY <1>5, <1>6

\* The MAC changes nothing that others see.
LEMMA SendingMakeMac ==
  ASSUME Sending!Inv, NEW t \in Sending!Threads, Sending!MakeMac(t)
  PROVE  Sending!Inv'
<1>1. /\ at[t] = "mac" /\ at' = [at EXCEPT ![t] = "socket"]
      /\ UNCHANGED <<crypt, key_pos_local, seq_num_local, hand, wire, failures, frames, framea, frameb>>
  BY DEF Sending!MakeMac, Sending!Mic
<1>2. /\ key_pos_local \in 0 .. SizeMax /\ SizeMax \in Nat /\ crypt \in BOOLEAN
      /\ at \in [Sending!Threads -> {"idle", "numbering", "mac", "socket"}]
  BY SendingSizes DEF Sending!Inv, Sending!TypeOK
<1>3. at'[t] = "socket" /\ \A u \in Sending!Threads : u # t => at'[u] = at[u]
  BY <1>1, <1>2
<1>4. Sending!OnTheWay' = Sending!OnTheWay /\ Sending!Numbering' = Sending!Numbering
  BY <1>1, <1>3 DEF Sending!OnTheWay, Sending!Numbering
<1>5. Sending!TypeOK'
  <2>1. at' \in [Sending!Threads -> {"idle", "numbering", "mac", "socket"}]
    BY <1>1, <1>2
  <2>2. \A u \in Sending!Threads : /\ at'[u] = "numbering" => u \in DataThreads /\ hand'[u].number = 0
                                   /\ at'[u] # "idle" => hand'[u] \in Sending!PacketType /\ hand'[u].units = <<>>
    BY <1>1, <1>3 DEF Sending!Inv, Sending!TypeOK
  <2> QED
    BY <1>1, <2>1, <2>2 DEF Sending!Inv, Sending!TypeOK
<1>6. Sending!PacketsSeparate'
  BY <1>1, <1>4 DEF Sending!Inv, Sending!PacketsSeparate, Sending!Sound, Sending!Separate
<1>7. Sending!NumbersLeave'
  <2>1. Sending!Packets' = Sending!Packets
    BY <1>1, <1>4 DEF Sending!Packets
  <2>2. Sending!Numbers(Sending!Packets)' = Sending!Numbers(Sending!Packets)
    BY <2>1 DEF Sending!Numbers
  <2> QED
    BY <1>1, <2>2 DEF Sending!Inv, Sending!NumbersLeave
<1>8. Sending!Counted'
  BY <1>1, <1>4 DEF Sending!Inv, Sending!Counted
<1>9. Sending!FramesTwice' /\ Sending!LastBrought'
  BY <1>1, <1>2, SendingSameFrames, SMT
<1> QED
  BY <1>5, <1>6, <1>7, <1>8, <1>9 DEF Sending!Inv

\* A packet that left has the place on the wire that it had on the way.
LEMMA SendingLeaves ==
  ASSUME Sending!Inv, NEW t \in Sending!Threads, Sending!Leaves(t)
  PROVE  Sending!Inv'
<1>1. /\ at[t] = "socket" /\ at' = [at EXCEPT ![t] = "idle"] /\ wire' = Append(wire, hand[t])
      /\ hand' = [hand EXCEPT ![t] = Sending!NoPacket]
      /\ UNCHANGED <<crypt, key_pos_local, seq_num_local, failures, frames, framea, frameb>>
  BY DEF Sending!Leaves, Sending!Mic
<1>2. /\ key_pos_local \in 0 .. SizeMax /\ SizeMax \in Nat /\ crypt \in BOOLEAN
      /\ wire \in Seq(Sending!PacketType) /\ DOMAIN hand = Sending!Threads
      /\ at \in [Sending!Threads -> {"idle", "numbering", "mac", "socket"}]
      /\ \A u \in Sending!Threads : at[u] # "idle" => hand[u] \in Sending!PacketType
  BY SendingSizes DEF Sending!Inv, Sending!TypeOK
<1>3. PICK p : p = hand[t] /\ p \in Sending!PacketType /\ p.units = <<>>
  BY <1>1 DEF Sending!Inv, Sending!TypeOK
<1>4. /\ DOMAIN hand' = Sending!Threads /\ at'[t] = "idle"
      /\ \A u \in Sending!Threads : u # t => hand'[u] = hand[u] /\ at'[u] = at[u]
  BY <1>1, <1>2
<1>5. /\ t \in Sending!OnTheWay /\ Sending!OnTheWay' = Sending!OnTheWay \ {t}
      /\ \A u \in Sending!OnTheWay' : u \in Sending!OnTheWay /\ u # t /\ hand'[u] = hand[u]
      /\ Sending!OnTheWay \subseteq Sending!Threads /\ Sending!Numbering' = Sending!Numbering
  BY <1>1, <1>4 DEF Sending!OnTheWay, Sending!Numbering
<1>6. /\ wire' \in Seq(Sending!PacketType) /\ Len(wire) \in Nat /\ Len(wire') = Len(wire) + 1
      /\ DOMAIN wire' = DOMAIN wire \cup {Len(wire) + 1} /\ wire'[Len(wire) + 1] = p
      /\ \A i \in DOMAIN wire : wire'[i] = wire[i] /\ wire[i] \in Sending!PacketType
  BY <1>1, <1>2, <1>3, SendingAppends
<1>7. /\ Sending!Sound(p)
      /\ \A i \in DOMAIN wire : Sending!Separate(p, wire[i]) /\ Sending!Separate(wire[i], p)
      /\ \A u \in Sending!OnTheWay, i \in DOMAIN wire :
           Sending!Separate(hand[u], wire[i]) /\ Sending!Separate(wire[i], hand[u])
      /\ \A u \in Sending!OnTheWay : u # t => Sending!Separate(hand[u], p) /\ Sending!Separate(p, hand[u])
      /\ \A u \in Sending!OnTheWay : Sending!Sound(hand[u])
      /\ \A u, v \in Sending!OnTheWay : u # v => Sending!Separate(hand[u], hand[v])
  BY <1>3, <1>5 DEF Sending!Inv, Sending!PacketsSeparate
<1>8. /\ \A i \in DOMAIN wire' : Sending!Sound(wire[i])'
      /\ \A i, j \in DOMAIN wire' : i # j => Sending!Separate(wire[i], wire[j])'
  <2>1. \A q \in Sending!PacketType : Sending!Sound(q) => Sending!Sound(q)'
    BY <1>1 DEF Sending!Sound
  <2>2. Sending!Sound(p)' /\ wire' = Append(wire, p)
    BY <1>1, <1>3, <1>7, <2>1
  <2> QED
    BY <1>3, <1>7, <2>1, <2>2, SendingKeepsApart
<1>9. Sending!PacketsSeparate'
  <2>1. \A u \in Sending!OnTheWay' : Sending!Sound(hand[u])'
    BY <1>1, <1>5, <1>7 DEF Sending!Sound
  <2>2. ASSUME NEW u \in Sending!OnTheWay', NEW i \in DOMAIN wire'
        PROVE  Sending!Separate(hand[u], wire[i])' /\ Sending!Separate(wire[i], hand[u])'
    <3>1. CASE i \in DOMAIN wire
      BY <1>5, <1>6, <1>7, <2>2, <3>1 DEF Sending!Separate
    <3>2. CASE i = Len(wire) + 1
      BY <1>5, <1>6, <1>7, <2>2, <3>2 DEF Sending!Separate
    <3> QED
      BY <1>6, <2>2, <3>1, <3>2
  <2>3. \A u, v \in Sending!OnTheWay' : u # v => Sending!Separate(hand[u], hand[v])'
    BY <1>5, <1>7 DEF Sending!Separate
  <2> QED
    BY <1>8, <2>1, <2>2, <2>3 DEF Sending!PacketsSeparate
<1>10. Sending!NumbersLeave'
  <2>1. Sending!Packets' = Sending!Packets
    <3>1. \A q : q \in Sending!Packets <=>
                   (\E i \in DOMAIN wire : q = wire[i]) \/ q = p \/ \E u \in Sending!OnTheWay' : q = hand[u]
      BY <1>3, <1>5 DEF Sending!Packets
    <3>2. \A q : q \in Sending!Packets' <=>
                   (\E i \in DOMAIN wire : q = wire[i]) \/ q = p \/ \E u \in Sending!OnTheWay' : q = hand[u]
      BY <1>5, <1>6 DEF Sending!Packets
    <3> QED
      BY <3>1, <3>2
  <2>2. Sending!Numbers(Sending!Packets)' = Sending!Numbers(Sending!Packets)
    BY <2>1 DEF Sending!Numbers
  <2>3. \A i, j \in DOMAIN wire' : (i # j /\ wire'[i].number # 0) => wire'[i].number # wire'[j].number
    BY <1>8 DEF Sending!Separate
  <2> QED
    BY <1>1, <2>2, <2>3 DEF Sending!Inv, Sending!NumbersLeave
<1>11. Sending!Counted'
  <2>1. /\ Sending!Cardinality(Sending!OnTheWay) \in Nat
        /\ Sending!Cardinality(Sending!OnTheWay') = Sending!Cardinality(Sending!OnTheWay) - 1
    BY <1>5, SendingOneThread
  <2>2. failures \in Nat
    BY DEF Sending!Inv, Sending!TypeOK
  <2>3. Sending!Cardinality(Sending!Numbering') = Sending!Cardinality(Sending!Numbering)
    BY <1>5
  <2>4. UNCHANGED <<seq_num_local, failures, frames>> /\ Len(wire) \in Nat /\ Len(wire') = Len(wire) + 1
    BY <1>1, <1>6
  <2>5. Len(wire) + failures + Sending!Cardinality(Sending!OnTheWay)
          = Len(wire') + failures + Sending!Cardinality(Sending!OnTheWay')
    BY <2>1, <2>2, <2>4, SMT
  <2> QED
    BY <2>3, <2>4, <2>5 DEF Sending!Inv, Sending!Counted
<1>12. Sending!FramesTwice' /\ Sending!LastBrought'
  <2>1. /\ wire' = Append(wire, p) /\ key_pos_local' \in Nat /\ crypt' \in BOOLEAN
        /\ key_pos_local' >= key_pos_local /\ (crypt => crypt') /\ UNCHANGED <<framea, frameb>>
    BY <1>1, <1>2, <1>3, SMT
  <2> QED
    BY <1>3, <2>1, SendingPlainPacket
<1>13. Sending!TypeOK'
  <2>1. at' \in [Sending!Threads -> {"idle", "numbering", "mac", "socket"}]
    BY <1>1, <1>2
  <2>2. \A u \in Sending!Threads : /\ at'[u] = "numbering" => u \in DataThreads /\ hand'[u].number = 0
                                   /\ at'[u] # "idle" => hand'[u] \in Sending!PacketType /\ hand'[u].units = <<>>
    BY <1>4 DEF Sending!Inv, Sending!TypeOK
  <2>3. Len(wire') <= MaxSends + MaxFrames
    <3>1. /\ Sending!Cardinality(Sending!OnTheWay) \in Nat
          /\ Sending!Cardinality(Sending!OnTheWay \ {t}) = Sending!Cardinality(Sending!OnTheWay) - 1
      BY <1>5, SendingOneThread
    <3>2. Sending!Cardinality(Sending!OnTheWay \ {t}) \in Nat
      <4>1. Sending!OnTheWay \ {t} \subseteq Sending!Threads
        BY <1>5
      <4> QED
        BY <4>1, SendingOneThread
    <3>3. failures \in Nat /\ frames \in 0 .. MaxFrames
      BY DEF Sending!Inv, Sending!TypeOK
    <3> QED
      BY <1>6, <3>1, <3>2, <3>3, SendingSizes, SMT DEF Sending!Inv, Sending!Counted
  <2> QED
    BY <1>1, <1>2, <1>4, <1>6, <2>1, <2>2, <2>3 DEF Sending!Inv, Sending!TypeOK
<1> QED
  BY <1>9, <1>10, <1>11, <1>12, <1>13 DEF Sending!Inv

\* A packet that the socket refused takes its number with it.
LEMMA SendingSocketFails ==
  ASSUME Sending!Inv, NEW t \in Sending!Threads, Sending!SocketFails(t)
  PROVE  Sending!Inv'
<1>1. /\ at[t] = "socket" /\ at' = [at EXCEPT ![t] = "idle"] /\ failures' = failures + 1
      /\ hand' = [hand EXCEPT ![t] = Sending!NoPacket]
      /\ UNCHANGED <<crypt, key_pos_local, seq_num_local, wire, frames, framea, frameb>>
  BY DEF Sending!SocketFails, Sending!Mic
<1>2. /\ key_pos_local \in 0 .. SizeMax /\ SizeMax \in Nat /\ crypt \in BOOLEAN /\ failures \in Nat
      /\ wire \in Seq(Sending!PacketType) /\ DOMAIN hand = Sending!Threads /\ seq_num_local \in Nat
      /\ at \in [Sending!Threads -> {"idle", "numbering", "mac", "socket"}]
  BY SendingSizes, SMT DEF Sending!Inv, Sending!TypeOK
<1>3. /\ DOMAIN hand' = Sending!Threads /\ at'[t] = "idle"
      /\ \A u \in Sending!Threads : u # t => hand'[u] = hand[u] /\ at'[u] = at[u]
  BY <1>1, <1>2
<1>4. /\ t \in Sending!OnTheWay /\ Sending!OnTheWay' = Sending!OnTheWay \ {t}
      /\ \A u \in Sending!OnTheWay' : u \in Sending!OnTheWay /\ u # t /\ hand'[u] = hand[u]
      /\ Sending!OnTheWay \subseteq Sending!Threads /\ Sending!Numbering' = Sending!Numbering
  BY <1>1, <1>3 DEF Sending!OnTheWay, Sending!Numbering
<1>5. Sending!PacketsSeparate'
  BY <1>1, <1>4 DEF Sending!Inv, Sending!PacketsSeparate, Sending!Sound, Sending!Separate
<1>6. Sending!NumbersLeave'
  <2> DEFINE missing == (1 .. seq_num_local) \ Sending!Numbers(Sending!Packets)
             missed  == (1 .. seq_num_local) \ Sending!Numbers(Sending!Packets)'
             n == hand[t].number
  <2>1. missed \subseteq missing \cup {n}
    <3>1. \A q \in Sending!Packets : q = hand[t] \/ q \in Sending!Packets'
      BY <1>1, <1>4 DEF Sending!Packets
    <3>2. \A k : k \in Sending!Numbers(Sending!Packets)' <=> k # 0 /\ \E q \in Sending!Packets' : q.number = k
      BY DEF Sending!Numbers
    <3>3. \A k : k \in Sending!Numbers(Sending!Packets) <=> k # 0 /\ \E q \in Sending!Packets : q.number = k
      BY DEF Sending!Numbers
    <3> QED
      BY <3>1, <3>2, <3>3
  <2>2. IsFiniteSet(1 .. seq_num_local)
    BY <1>2, FS_Interval, SMT
  <2>3. IsFiniteSet(missing) /\ missing \subseteq 1 .. seq_num_local
    BY <2>2, FS_Subset
  <2>4. Cardinality(missing) \in Nat /\ Cardinality(missing) <= failures
    BY <2>3, SendingCounts, FS_CardinalityType DEF Sending!Inv, Sending!NumbersLeave
  <2> HIDE DEF missing, missed, n
  <2>5. IsFiniteSet(missing \cup {n}) /\ Cardinality(missing \cup {n}) <= Cardinality(missing) + 1
        /\ Cardinality(missing \cup {n}) \in Nat
    <3>1. /\ IsFiniteSet(missing \cup {n})
          /\ Cardinality(missing \cup {n}) = IF n \in missing THEN Cardinality(missing) ELSE Cardinality(missing) + 1
      BY <2>3, FS_AddElement
    <3> QED
      BY <2>4, <3>1, SMT
  <2>6. Cardinality(missed) \in Nat /\ Cardinality(missed) <= Cardinality(missing \cup {n})
    BY <2>1, <2>5, FS_Subset, FS_CardinalityType
  <2>7. Cardinality(missed) <= failures'
    BY <1>1, <1>2, <2>4, <2>5, <2>6, SMT
  <2>8. Sending!Cardinality((1 .. seq_num_local) \ Sending!Numbers(Sending!Packets)') <= failures'
    BY <2>7, SendingCounts DEF missed
  <2> QED
    BY <1>1, <2>8 DEF Sending!Inv, Sending!NumbersLeave
<1>7. Sending!Counted'
  <2>1. /\ Sending!Cardinality(Sending!OnTheWay) \in Nat
        /\ Sending!Cardinality(Sending!OnTheWay') = Sending!Cardinality(Sending!OnTheWay) - 1
    BY <1>4, SendingOneThread
  <2>2. Len(wire) \in Nat
    BY <1>2
  <2> QED
    BY <1>1, <1>2, <1>4, <2>1, <2>2, SMT DEF Sending!Inv, Sending!Counted
<1>8. Sending!FramesTwice' /\ Sending!LastBrought'
  BY <1>1, <1>2, SendingSameFrames, SMT
<1>9. Sending!TypeOK'
  <2>1. at' \in [Sending!Threads -> {"idle", "numbering", "mac", "socket"}]
    BY <1>1, <1>2
  <2>2. \A u \in Sending!Threads : /\ at'[u] = "numbering" => u \in DataThreads /\ hand'[u].number = 0
                                   /\ at'[u] # "idle" => hand'[u] \in Sending!PacketType /\ hand'[u].units = <<>>
    BY <1>3 DEF Sending!Inv, Sending!TypeOK
  <2>3. failures' \in Nat
    BY <1>1, <1>2, SMT
  <2> QED
    BY <1>1, <1>2, <1>3, <2>1, <2>2, <2>3 DEF Sending!Inv, Sending!TypeOK
<1> QED
  BY <1>5, <1>6, <1>7, <1>8, <1>9 DEF Sending!Inv

\* An encrypted packet goes onto the wire with a piece of its own.
LEMMA SendingEncrypted ==
  ASSUME Sending!Inv, NEW n \in Nat \ {0}, NEW units \in Seq(Nat), Sending!SendEncrypted(n, units),
         UNCHANGED <<crypt, seq_num_local, at, hand, failures>>
  PROVE  /\ key_pos_local' \in 0 .. SizeMax /\ key_pos_local' >= key_pos_local
         /\ \E p \in Sending!PacketType : wire' = Append(wire, p) /\ p.units = units
         /\ Sending!PacketsSeparate' /\ Sending!NumbersLeave'
         /\ UNCHANGED <<Sending!OnTheWay, Sending!Numbering>>
<1> DEFINE m == Sending!Reserves(n)
<1>1. /\ crypt /\ ~Sending!Overflows(m) /\ Sending!Advance(m)
      /\ wire' = Append(wire, Sending!Packet(Sending!Position, TRUE, Sending!Rounded(m),
                   <<Sending!Position + Block, Sending!Position + Block + n - 1>>, units))
  BY DEF Sending!SendEncrypted
<1>2. /\ wire \in Seq(Sending!PacketType) /\ Block \in Nat /\ crypt \in BOOLEAN
      /\ \A u \in Sending!OnTheWay : hand[u] \in Sending!PacketType
  BY SendingSizes DEF Sending!Inv, Sending!TypeOK, Sending!OnTheWay
<1>3. m \in Nat \ {0} /\ m = n + Block /\ Sending!Rounded(m) \in Nat /\ Sending!Rounded(m) >= m
  <2>1. m \in Nat \ {0} /\ m = n + Block
    BY <1>2, SMT DEF Sending!Reserves
  <2> QED
    BY <2>1, SendingRounds
<1>4. Sending!Position \in Nat
  BY SMT DEF Sending!Position, Sending!Inv, Sending!TypeOK
<1> HIDE DEF m
<1>5. PICK p :
        /\ wire' = Append(wire, p)
        /\ p = [pos |-> Sending!Position, own |-> TRUE, size |-> Sending!Rounded(m),
                used |-> <<Sending!Position + Block, Sending!Position + Block + n - 1>>, number |-> 0,
                units |-> units]
  BY <1>1 DEF Sending!Packet
<1>6. p \in Sending!PacketType /\ p.units = units /\ p.number = 0
  <2>1. /\ Sending!Rounded(m) \in Nat \ {0}
        /\ <<Sending!Position + Block, Sending!Position + Block + n - 1>> \in Int \X Int
    BY <1>2, <1>3, <1>4, SMT
  <2> QED
    BY <1>4, <1>5, <2>1 DEF Sending!PacketType
<1>7. /\ key_pos_local' \in 0 .. SizeMax /\ key_pos_local' >= key_pos_local
      /\ Sending!Sound(p)'
      /\ \A q \in Sending!PacketType :
           Sending!Sound(q) => Sending!Sound(q)' /\ Sending!Separate(p, q) /\ Sending!Separate(q, p)
  <2>1. /\ p.pos = Sending!Position /\ p.own = crypt /\ p.size = Sending!Rounded(m)
        /\ p.used[1] = Sending!Position + Block /\ p.used[2] = Sending!Position + Block + n - 1
    BY <1>1, <1>2, <1>5
  <2>2. p.pos <= p.used[1] /\ p.used[2] < p.pos + p.size
    BY <1>2, <1>3, <1>4, <2>1, SMT
  <2> QED
    BY <1>1, <1>3, <1>6, <2>1, <2>2, SendingTakesPiece
<1>8. /\ \A i \in DOMAIN wire : Sending!Separate(p, wire[i]) /\ Sending!Separate(wire[i], p)
      /\ \A u \in Sending!OnTheWay :
           Sending!Sound(hand[u])' /\ Sending!Separate(p, hand[u]) /\ Sending!Separate(hand[u], p)
  <2>1. \A i \in DOMAIN wire : wire[i] \in Sending!PacketType /\ Sending!Sound(wire[i])
    BY <1>2 DEF Sending!Inv, Sending!PacketsSeparate
  <2>2. \A u \in Sending!OnTheWay : hand[u] \in Sending!PacketType /\ Sending!Sound(hand[u])
    BY <1>2 DEF Sending!Inv, Sending!PacketsSeparate
  <2>3. \A u \in Sending!OnTheWay : Sending!Sound(hand[u])'
    BY <1>7, <2>2 DEF Sending!Sound
  <2> QED
    BY <1>7, <2>1, <2>2, <2>3
<1>9. /\ \A i \in DOMAIN wire' : Sending!Sound(wire[i])'
      /\ \A i, j \in DOMAIN wire' : i # j => Sending!Separate(wire[i], wire[j])'
  BY <1>5, <1>6, <1>7, <1>8, SendingKeepsApart
<1>10. /\ DOMAIN wire' = DOMAIN wire \cup {Len(wire) + 1} /\ wire'[Len(wire) + 1] = p
       /\ \A i \in DOMAIN wire : wire'[i] = wire[i]
  BY <1>2, <1>5, <1>6, SendingAppends
<1>11. UNCHANGED <<Sending!OnTheWay, Sending!Numbering>>
  BY DEF Sending!OnTheWay, Sending!Numbering
<1>12. Sending!PacketsSeparate'
  <2>1. /\ \A u \in Sending!OnTheWay, i \in DOMAIN wire :
             Sending!Separate(hand[u], wire[i]) /\ Sending!Separate(wire[i], hand[u])
        /\ \A u, v \in Sending!OnTheWay : u # v => Sending!Separate(hand[u], hand[v])
    BY DEF Sending!Inv, Sending!PacketsSeparate
  <2>2. ASSUME NEW u \in Sending!OnTheWay', NEW i \in DOMAIN wire'
        PROVE  Sending!Separate(hand[u], wire[i])' /\ Sending!Separate(wire[i], hand[u])'
    <3>1. CASE i \in DOMAIN wire
      BY <1>10, <1>11, <2>1, <2>2, <3>1 DEF Sending!Separate
    <3>2. CASE i = Len(wire) + 1
      BY <1>8, <1>10, <1>11, <2>2, <3>2 DEF Sending!Separate
    <3> QED
      BY <1>10, <2>2, <3>1, <3>2
  <2>3. \A u, v \in Sending!OnTheWay' : u # v => Sending!Separate(hand[u], hand[v])'
    BY <1>11, <2>1 DEF Sending!Separate
  <2>4. \A u \in Sending!OnTheWay' : Sending!Sound(hand[u])'
    BY <1>8, <1>11
  <2> QED
    BY <1>9, <2>2, <2>3, <2>4 DEF Sending!PacketsSeparate
<1>13. Sending!NumbersLeave'
  <2>1. Sending!Packets' = Sending!Packets \cup {p}
    BY <1>10, <1>11 DEF Sending!Packets
  <2>2. Sending!Numbers(Sending!Packets)' = Sending!Numbers(Sending!Packets)
    BY <1>6, <2>1 DEF Sending!Numbers
  <2>3. \A i, j \in DOMAIN wire' : (i # j /\ wire'[i].number # 0) => wire'[i].number # wire'[j].number
    BY <1>9 DEF Sending!Separate
  <2> QED
    BY <2>2, <2>3 DEF Sending!Inv, Sending!NumbersLeave
<1> QED
  BY <1>5, <1>6, <1>7, <1>11, <1>12, <1>13

\* Feedback needs room.
LEMMA SendingFeedback ==
  ASSUME Sending!Inv, NEW n \in FeedbackSizes, Sending!SendFeedbackState(n)
  PROVE  Sending!Inv'
<1>1. /\ Sending!Room /\ Sending!SendEncrypted(n, <<>>) /\ n \in Nat \ {0}
      /\ UNCHANGED <<crypt, seq_num_local, at, hand, failures>> /\ UNCHANGED <<frames, framea, frameb>>
      /\ <<>> \in Seq(Nat)
  BY SendingSizes DEF Sending!SendFeedbackState, Sending!Mic
<1>2. /\ key_pos_local' \in 0 .. SizeMax /\ key_pos_local' >= key_pos_local
      /\ Sending!PacketsSeparate' /\ Sending!NumbersLeave'
      /\ UNCHANGED <<Sending!OnTheWay, Sending!Numbering>>
  BY <1>1, SendingEncrypted
<1>3. PICK p \in Sending!PacketType : wire' = Append(wire, p) /\ p.units = <<>>
  BY <1>1, SendingEncrypted
<1>4. wire \in Seq(Sending!PacketType) /\ crypt \in BOOLEAN /\ failures \in Nat /\ frames \in 0 .. MaxFrames
  BY DEF Sending!Inv, Sending!TypeOK
<1>5. wire' \in Seq(Sending!PacketType) /\ Len(wire) \in Nat /\ Len(wire') = Len(wire) + 1
  BY <1>3, <1>4, SendingAppends
<1>6. Sending!Cardinality(Sending!OnTheWay) \in Nat /\ Sending!Cardinality(Sending!Numbering) \in Nat
  <2>1. Sending!OnTheWay \subseteq Sending!Threads /\ Sending!Numbering \subseteq Sending!Threads
    BY DEF Sending!OnTheWay, Sending!Numbering
  <2> QED
    BY <2>1, SendingOneThread
<1>7. Sending!Counted'
  <2>1. seq_num_local \in Nat
    BY SMT DEF Sending!Inv, Sending!TypeOK
  <2>2. /\ Sending!Cardinality(Sending!OnTheWay)' = Sending!Cardinality(Sending!OnTheWay)
        /\ Sending!Cardinality(Sending!Numbering)' = Sending!Cardinality(Sending!Numbering)
    BY <1>2
  <2> QED
    BY <1>1, <1>4, <1>5, <1>6, <2>1, <2>2, SendingSizes, SMT DEF Sending!Inv, Sending!Counted, Sending!Room
<1>8. Sending!TypeOK'
  <2>1. Len(wire') <= MaxSends + MaxFrames
    BY <1>1, <1>4, <1>5, <1>6, SendingSizes, SMT DEF Sending!Room
  <2> QED
    BY <1>1, <1>2, <1>5, <2>1 DEF Sending!Inv, Sending!TypeOK
<1>9. Sending!FramesTwice' /\ Sending!LastBrought'
  <2>1. key_pos_local' \in Nat /\ crypt' \in BOOLEAN /\ (crypt => crypt')
    BY <1>1, <1>2, <1>4, SMT
  <2> QED
    BY <1>1, <1>2, <1>3, <2>1, SendingPlainPacket
<1> QED
  BY <1>2, <1>7, <1>8, <1>9 DEF Sending!Inv

\* The ciphers are set.
LEMMA SendingSetCrypt ==
  ASSUME Sending!Inv, Sending!SetCrypt
  PROVE  Sending!Inv'
<1>1. /\ crypt' = TRUE
      /\ UNCHANGED <<key_pos_local, seq_num_local, at, hand, wire, failures, frames, framea, frameb>>
  BY DEF Sending!SetCrypt, Sending!Mic
<1>2. key_pos_local \in 0 .. SizeMax /\ SizeMax \in Nat /\ crypt \in BOOLEAN
  BY SendingSizes DEF Sending!Inv, Sending!TypeOK
<1>3. UNCHANGED <<Sending!OnTheWay, Sending!Numbering, Sending!Packets>>
  BY <1>1 DEF Sending!OnTheWay, Sending!Numbering, Sending!Packets
<1>4. Sending!TypeOK'
  BY <1>1 DEF Sending!Inv, Sending!TypeOK
<1>5. Sending!PacketsSeparate'
  BY <1>1, <1>3 DEF Sending!Inv, Sending!PacketsSeparate, Sending!Sound, Sending!Separate
<1>6. Sending!NumbersLeave' /\ Sending!Counted'
  <2>1. Sending!Numbers(Sending!Packets)' = Sending!Numbers(Sending!Packets)
    BY <1>3 DEF Sending!Numbers
  <2> QED
    BY <1>1, <1>3, <2>1 DEF Sending!Inv, Sending!NumbersLeave, Sending!Counted
<1>7. Sending!FramesTwice' /\ Sending!LastBrought'
  BY <1>1, <1>2, SendingSameFrames, SMT
<1> QED
  BY <1>4, <1>5, <1>6, <1>7 DEF Sending!Inv

\* The first two frames of the microphone are only kept, and a frame whose packet gets
\* no position is kept too.
LEMMA SendingKeepsFrame ==
  ASSUME Sending!Inv, UNCHANGED <<crypt, key_pos_local, wire, seq_num_local, at, hand, failures>>,
         frames < MaxFrames, frames' = frames + 1, framea' \in Nat, frameb' \in Nat,
         \/ framea = 0 \/ frameb = 0
         \/ framea' # 0 /\ frameb' # 0 /\ Sending!Overflows(Sending!Reserves(MicSize))
  PROVE  Sending!Inv'
<1>1. frames \in Nat /\ MaxFrames \in Nat /\ key_pos_local \in Nat /\ MaxSends \in Nat
  BY SendingSizes, SMT DEF Sending!Inv, Sending!TypeOK
<1>2. Sending!TypeOK'
  <2>1. frames' \in 0 .. MaxFrames
    BY <1>1, SMT
  <2> QED
    BY <2>1 DEF Sending!Inv, Sending!TypeOK
<1>3. UNCHANGED <<Sending!OnTheWay, Sending!Numbering, Sending!Packets>>
  BY DEF Sending!OnTheWay, Sending!Numbering, Sending!Packets
<1>4. Sending!PacketsSeparate'
  BY <1>3 DEF Sending!Inv, Sending!PacketsSeparate, Sending!Sound, Sending!Separate
<1>5. Sending!NumbersLeave'
  <2>1. Sending!Numbers(Sending!Packets)' = Sending!Numbers(Sending!Packets)
    BY <1>3 DEF Sending!Numbers
  <2> QED
    BY <1>3, <2>1 DEF Sending!Inv, Sending!NumbersLeave
<1>6. Sending!Counted'
  <2>1. Sending!OnTheWay \subseteq Sending!Threads /\ Sending!Numbering \subseteq Sending!Threads
    BY DEF Sending!OnTheWay, Sending!Numbering
  <2>2. Sending!Cardinality(Sending!OnTheWay) \in Nat /\ Sending!Cardinality(Sending!Numbering) \in Nat
    BY <2>1, SendingOneThread
  <2>3. /\ Sending!Cardinality(Sending!OnTheWay)' = Sending!Cardinality(Sending!OnTheWay)
        /\ Sending!Cardinality(Sending!Numbering)' = Sending!Cardinality(Sending!Numbering)
    BY <1>3
  <2>4. failures \in Nat /\ Len(wire) \in Nat /\ seq_num_local \in Nat
    BY SMT DEF Sending!Inv, Sending!TypeOK
  <2> QED
    BY <1>1, <2>2, <2>3, <2>4, SMT DEF Sending!Inv, Sending!Counted
<1>7. Sending!FramesTwice'
  BY DEF Sending!Inv, Sending!FramesTwice
<1>8. Sending!LastBrought'
  <2>1. Sending!Overflows(Sending!Reserves(MicSize)) => Sending!Overflows(Sending!Reserves(MicSize))'
    BY DEF Sending!Overflows
  <2> QED
    BY <2>1 DEF Sending!Inv, Sending!LastBrought
<1> QED
  BY <1>2, <1>4, <1>5, <1>6, <1>7, <1>8 DEF Sending!Inv

\* Each later frame goes out with the one before.
LEMMA SendingFrameOut ==
  ASSUME Sending!Inv, UNCHANGED <<crypt, seq_num_local, at, hand, failures>>,
         frames < MaxFrames, frames' = frames + 1, framea' = frames + 1, frameb' = frames + 1,
         framea # 0, frameb # 0,
         ~Sending!Overflows(Sending!Reserves(MicSize)),
         Sending!SendEncrypted(MicSize, <<frames + 1, framea, frames + 1>>)
  PROVE  Sending!Inv'
<1> DEFINE n == Len(wire) + 1
           f == frames + 1
<1>1. /\ frames \in Nat /\ f \in Nat /\ f # 0 /\ f <= MaxFrames /\ framea \in Nat /\ MaxFrames \in Nat
      /\ MaxSends \in Nat /\ failures \in Nat /\ seq_num_local \in Nat
      /\ wire \in Seq(Sending!PacketType) /\ crypt \in BOOLEAN
  BY SendingSizes, SMT DEF Sending!Inv, Sending!TypeOK
<1>2. <<f, framea, f>> \in Seq(Nat)
  BY <1>1
<1>3. MicSize \in Nat \ {0}
  BY SendingSizes
<1>4. /\ key_pos_local' \in 0 .. SizeMax /\ key_pos_local' >= key_pos_local
      /\ Sending!PacketsSeparate' /\ Sending!NumbersLeave'
      /\ UNCHANGED <<Sending!OnTheWay, Sending!Numbering>>
  BY <1>2, <1>3, SendingEncrypted
<1>5. PICK p \in Sending!PacketType : wire' = Append(wire, p) /\ p.units = <<f, framea, f>>
  BY <1>2, <1>3, SendingEncrypted
<1>6. /\ wire' \in Seq(Sending!PacketType) /\ Len(wire') = Len(wire) + 1 /\ Len(wire) \in Nat
      /\ DOMAIN wire' = DOMAIN wire \cup {n} /\ wire'[n] = p /\ n \notin DOMAIN wire
      /\ \A i \in DOMAIN wire : wire'[i] = wire[i] /\ i \in Nat /\ i < n
      /\ n \in Nat /\ DOMAIN wire = 1 .. n - 1
  BY <1>1, <1>5, SendingAppends, SMT
<1>7. Sending!Cardinality(Sending!OnTheWay) \in Nat /\ Sending!Cardinality(Sending!Numbering) \in Nat
  <2>1. Sending!OnTheWay \subseteq Sending!Threads /\ Sending!Numbering \subseteq Sending!Threads
    BY DEF Sending!OnTheWay, Sending!Numbering
  <2> QED
    BY <2>1, SendingOneThread
<1> HIDE DEF n
<1>8. Sending!Counted'
  <2>1. /\ Sending!Cardinality(Sending!OnTheWay)' = Sending!Cardinality(Sending!OnTheWay)
        /\ Sending!Cardinality(Sending!Numbering)' = Sending!Cardinality(Sending!Numbering)
    BY <1>4
  <2> QED
    BY <1>1, <1>6, <1>7, <2>1, SMT DEF Sending!Inv, Sending!Counted
<1>9. Sending!TypeOK'
  <2>1. Len(wire') <= MaxSends + MaxFrames
    BY <1>1, <1>6, <1>7, SMT DEF Sending!Inv, Sending!Counted
  <2>2. frames' \in 0 .. MaxFrames /\ framea' \in Nat /\ frameb' \in Nat
    BY <1>1, SMT
  <2> QED
    BY <1>4, <1>6, <2>1, <2>2 DEF Sending!Inv, Sending!TypeOK
<1>10. p.units # <<>> /\ p.units[1] = f /\ p.units[2] = framea /\ 2 \in DOMAIN p.units
  BY <1>1, <1>5
<1>11. Sending!FramesTwice'
  <2> SUFFICES ASSUME NEW i \in DOMAIN wire', NEW j \in DOMAIN wire',
                      i < j, wire'[i].units # <<>>, wire'[j].units # <<>>,
                      \A l \in i + 1 .. j - 1 : wire'[l].units = <<>>
               PROVE  \E k \in DOMAIN wire'[j].units : wire'[j].units[k] = wire'[i].units[1]
    BY DEF Sending!FramesTwice
  <2>1. i \in DOMAIN wire
    BY <1>6, SMT
  <2>2. wire'[i] = wire[i]
    BY <1>6, <2>1
  <2>3. CASE j = n
    <3>1. ~\E l \in DOMAIN wire : i < l /\ wire[l].units # <<>>
      <4> SUFFICES ASSUME NEW l \in DOMAIN wire, i < l
                   PROVE  wire[l].units = <<>>
        OBVIOUS
      <4>1. l \in i + 1 .. j - 1
        BY <1>6, <2>1, <2>3, SMT
      <4> QED
        BY <1>6, <4>1
    <3>2. wire[i].units[1] = framea
      BY <2>1, <2>2, <3>1 DEF Sending!Inv, Sending!LastBrought
    <3> QED
      BY <1>6, <1>10, <2>2, <2>3, <3>2
  <2>4. CASE j \in DOMAIN wire
    <3>1. \A l \in i + 1 .. j - 1 : l \in DOMAIN wire
      BY <1>6, <2>1, <2>4, SMT
    <3>2. \A l \in i + 1 .. j - 1 : wire[l].units = <<>>
      BY <1>6, <3>1
    <3> QED
      BY <1>6, <2>1, <2>2, <2>4, <3>2 DEF Sending!Inv, Sending!FramesTwice
  <2> QED
    BY <1>6, <2>3, <2>4
<1>12. Sending!LastBrought'
  <2> SUFFICES ASSUME NEW i \in DOMAIN wire', wire'[i].units # <<>>
               PROVE  /\ framea' # 0 /\ frameb' # 0
                      /\ \/ \E j \in DOMAIN wire' : i < j /\ wire'[j].units # <<>>
                         \/ wire'[i].units[1] = framea' \/ Sending!Overflows(Sending!Reserves(MicSize))'
    BY DEF Sending!LastBrought
  <2>1. framea' # 0 /\ frameb' # 0 /\ framea' = f
    BY <1>1
  <2>2. CASE i = n
    BY <1>6, <1>10, <2>1, <2>2
  <2>3. CASE i \in DOMAIN wire
    <3>1. n \in DOMAIN wire' /\ i < n /\ wire'[n].units # <<>>
      BY <1>6, <1>10, <2>3
    <3> QED
      BY <2>1, <3>1
  <2> QED
    BY <1>6, <2>2, <2>3
<1> QED
  BY <1>4, <1>8, <1>9, <1>11, <1>12 DEF Sending!Inv

\* A frame of the microphone.
LEMMA SendingMicFrame ==
  ASSUME Sending!Inv, Sending!MicFrame
  PROVE  Sending!Inv'
<1> DEFINE f == frames + 1
<1>1. frames < MaxFrames /\ frames' = f /\ UNCHANGED <<crypt, seq_num_local, at, hand, failures>>
  BY DEF Sending!MicFrame
<1>2. f \in Nat /\ f # 0 /\ framea \in Nat /\ frameb \in Nat
  <2>1. frames \in Nat /\ framea \in Nat /\ frameb \in Nat
    BY SMT DEF Sending!Inv, Sending!TypeOK
  <2> QED
    BY <2>1, SMT
<1>3. CASE frameb = 0
  <2>1. frameb' = f /\ UNCHANGED <<framea, key_pos_local, wire>>
    BY <1>3 DEF Sending!MicFrame
  <2> QED
    BY <1>1, <1>2, <1>3, <2>1, SendingKeepsFrame
<1>4. CASE frameb # 0 /\ framea = 0
  <2>1. framea' = f /\ UNCHANGED <<frameb, key_pos_local, wire>>
    BY <1>4 DEF Sending!MicFrame
  <2> QED
    BY <1>1, <1>2, <1>4, <2>1, SendingKeepsFrame
<1>5. CASE frameb # 0 /\ framea # 0
  <2>1. framea' = f /\ frameb' = f /\ Sending!SendMicPacket(<<f, framea, f>>)
    BY <1>5 DEF Sending!MicFrame, Sending!ShiftFrames
  <2>2. CASE Sending!Overflows(Sending!Reserves(MicSize))
    <3>1. UNCHANGED <<key_pos_local, wire>>
      BY <2>1, <2>2 DEF Sending!SendMicPacket
    <3> QED
      BY <1>1, <1>2, <2>1, <2>2, <3>1, SendingKeepsFrame
  <2>3. CASE ~Sending!Overflows(Sending!Reserves(MicSize))
    <3>1. Sending!SendEncrypted(MicSize, <<f, framea, f>>)
      BY <2>1, <2>3 DEF Sending!SendMicPacket
    <3> QED
      BY <1>1, <1>5, <2>1, <2>3, <3>1, SendingFrameOut
  <2> QED
    BY <2>2, <2>3
<1> QED
  BY <1>3, <1>4, <1>5

\* Every step keeps the invariant.
LEMMA SendingStep ==
  ASSUME Sending!Inv, [Sending!Next]_Sending!vars
  PROVE  Sending!Inv'
<1>1. CASE \E t \in DataThreads, n \in Sizes : Sending!SendMessageData(t, n)
  BY <1>1, SendingSizes, SendingBegin DEF Sending!SendMessageData
<1>2. CASE Sending!SendMessageDataAck
  BY <1>2, SendingSizes, SendingBegin DEF Sending!SendMessageDataAck
<1>3. CASE Sending!SendCongestion
  BY <1>3, SendingSizes, SendingBegin DEF Sending!SendCongestion
<1>4. CASE \E t \in Sending!Threads :
             Sending!TakeNumber(t) \/ Sending!MakeMac(t) \/ Sending!Leaves(t) \/ Sending!SocketFails(t)
  BY <1>4, SendingTakeNumber, SendingMakeMac, SendingLeaves, SendingSocketFails
<1>5. CASE \E n \in FeedbackSizes : Sending!SendFeedbackState(n) \/ Sending!SendFeedbackHistory(n)
  BY <1>5, SendingFeedback DEF Sending!SendFeedbackHistory
<1>6. CASE Sending!MicFrame
  BY <1>6, SendingMicFrame
<1>7. CASE Sending!SetCrypt
  BY <1>7, SendingSetCrypt
<1>8. CASE UNCHANGED Sending!vars
  <2>1. UNCHANGED <<crypt, key_pos_local, seq_num_local, at, hand, wire, failures, frames, framea, frameb>>
    BY <1>8 DEF Sending!vars
  <2>2. UNCHANGED <<Sending!OnTheWay, Sending!Numbering, Sending!Packets>>
    BY <2>1 DEF Sending!OnTheWay, Sending!Numbering, Sending!Packets
  <2>3. Sending!Numbers(Sending!Packets)' = Sending!Numbers(Sending!Packets)
    BY <2>2 DEF Sending!Numbers
  <2>4. Sending!TypeOK' /\ Sending!Counted' /\ Sending!NumbersLeave'
    BY <2>1, <2>2, <2>3 DEF Sending!Inv, Sending!TypeOK, Sending!Counted, Sending!NumbersLeave
  <2>5. Sending!PacketsSeparate'
    BY <2>1, <2>2 DEF Sending!Inv, Sending!PacketsSeparate, Sending!Sound, Sending!Separate
  <2>6. Sending!FramesTwice'
    BY <2>1 DEF Sending!Inv, Sending!FramesTwice
  <2>7. Sending!LastBrought'
    BY <2>1 DEF Sending!Inv, Sending!LastBrought, Sending!Overflows
  <2> QED
    BY <2>4, <2>5, <2>6, <2>7 DEF Sending!Inv
<1> QED
  BY <1>1, <1>2, <1>3, <1>4, <1>5, <1>6, <1>7, <1>8 DEF Sending!Next

\* What is apart is used once.
LEMMA SendingIsSafe ==
  ASSUME Sending!Inv
  PROVE  Sending!TypeOK /\ Sending!Safe
<1>1. /\ \A i \in DOMAIN wire : wire[i] \in Sending!PacketType /\ Sending!Sound(wire[i])
      /\ \A t \in Sending!OnTheWay : hand[t] \in Sending!PacketType
      /\ \A i, j \in DOMAIN wire : i # j => Sending!Separate(wire[i], wire[j])
      /\ \A t \in Sending!OnTheWay, i \in DOMAIN wire : Sending!Separate(hand[t], wire[i])
  <2>1. wire \in Seq(Sending!PacketType) /\ \A t \in Sending!OnTheWay : hand[t] \in Sending!PacketType
    BY DEF Sending!Inv, Sending!TypeOK, Sending!OnTheWay
  <2> QED
    BY <2>1 DEF Sending!Inv, Sending!PacketsSeparate
<1>2. ASSUME NEW p \in Sending!PacketType, NEW q \in Sending!PacketType, Sending!Separate(p, q)
      PROVE  Sending!Apart(p, q)
  <2>1. p.pos \in Nat /\ p.size \in Nat /\ q.pos \in Nat /\ q.size \in Nat
    BY DEF Sending!PacketType
  <2> QED
    BY <1>2, <2>1, SMT DEF Sending!Apart, Sending!Separate, Sending!Reserved
<1>3. ASSUME NEW p \in Sending!PacketType, Sending!Sound(p)
      PROVE  p.used[1] .. p.used[2] \subseteq Sending!Reserved(p)
  <2>1. p.pos \in Nat /\ p.size \in Nat /\ p.used[1] \in Int /\ p.used[2] \in Int
    BY DEF Sending!PacketType
  <2> QED
    BY <1>3, <2>1, SMT DEF Sending!Sound, Sending!Reserved
<1>4. Sending!StreamUsedOnce
  BY <1>1, <1>2, <1>3 DEF Sending!StreamUsedOnce
<1> QED
  BY <1>4 DEF Sending!Inv, Sending!Safe

-----------------------------------------------------------------------------
(* Audio: no frame goes uncounted, and those of a console stay in order     *)

\* Numbers of a console's frames as offsets from the number of an earlier one.
LEMMA AudioNumbers ==
  ASSUME NEW a \in Nat, start \in Nat, NEW age \in 0 .. Audio!Half
  PROVE  /\ Audio!Index(a) \in Audio!SeqNums
         /\ Audio!Index(a + age) = IF Audio!Index(a) + age < AudioCircle THEN Audio!Index(a) + age
                                   ELSE (Audio!Index(a) + age) - AudioCircle
         /\ (Audio!Index(a) - age) % AudioCircle = IF Audio!Index(a) >= age THEN Audio!Index(a) - age
                                                   ELSE (Audio!Index(a) - age) + AudioCircle
<1> DEFINE b == (start + a) % AudioCircle
           q == (start + a) \div AudioCircle
<1>1. Audio!ModulusAssumption
  BY TransportAssumption DEF TransportAssumption, Audio!AudioAssumption
<1>2. /\ AudioCircle \in Nat /\ AudioCircle > 2 /\ AudioCircle > 0
      /\ Audio!Half \in Nat /\ AudioCircle = 2 * Audio!Half
  BY <1>1, Audio!HalfFacts, SMT DEF Audio!ModulusAssumption
<1>3. b \in 0 .. AudioCircle - 1 /\ q \in Nat /\ start + a = (AudioCircle * q) + b
  <2>1. start + a \in Nat
    BY SMT
  <2> QED
    BY <1>1, <1>2, <2>1, Audio!Division
<1>4. Audio!Index(a) = b /\ Audio!Index(a + age) = ((start + a) + age) % AudioCircle
  <2>1. start + (a + age) = (start + a) + age
    BY SMT
  <2> QED
    BY <2>1 DEF Audio!Index
<1> HIDE DEF b, q
<1>5. b + age \in Nat /\ (AudioCircle * q) + (b + age) = (start + a) + age
  BY <1>2, <1>3, SMT
<1>6. ((start + a) + age) % AudioCircle = (b + age) % AudioCircle
  <2>1. ((AudioCircle * q) + (b + age)) % AudioCircle = (b + age) % AudioCircle
    BY <1>1, <1>2, <1>3, <1>5, Audio!WholeTurns
  <2> QED
    BY <1>5, <2>1
<1>7. (b + age) % AudioCircle = IF b + age < AudioCircle THEN b + age ELSE (b + age) - AudioCircle
  BY <1>2, <1>3, SMT
<1>8. (b - age) % AudioCircle = IF b >= age THEN b - age ELSE (b - age) + AudioCircle
  BY <1>2, <1>3, SMT
<1> QED
  BY <1>3, <1>4, <1>6, <1>7, <1>8 DEF Audio!SeqNums

\* A frame is newer than another if its place in the stream is, less than half of the
\* circle apart; a copy that is older by its age is not newer than what is.
LEMMA AudioNewer ==
  ASSUME NEW a \in Nat, NEW c \in Nat, start \in Nat
  PROVE  /\ a - c < Audio!Half /\ c - a <= Audio!Half => (Audio!Gt(Audio!Index(a), Audio!Index(c)) <=> a > c)
         /\ \A age \in 0 .. Audio!Half :
              c >= a /\ (c - a) + age <= Audio!Half
                => ~Audio!Gt((Audio!Index(a) - age) % AudioCircle, Audio!Index(c))
<1>1. Audio!ModulusAssumption
  BY TransportAssumption DEF TransportAssumption, Audio!AudioAssumption
<1>2. AudioCircle \in Nat /\ AudioCircle > 2 /\ Audio!Half \in Nat /\ AudioCircle = 2 * Audio!Half
  BY <1>1, Audio!HalfFacts DEF Audio!ModulusAssumption
<1>3. ASSUME c >= a, c - a <= Audio!Half
      PROVE  /\ ~Audio!Gt(Audio!Index(a), Audio!Index(c))
             /\ \A age \in 0 .. Audio!Half : (c - a) + age <= Audio!Half
                  => ~Audio!Gt((Audio!Index(a) - age) % AudioCircle, Audio!Index(c))
  <2> DEFINE d == c - a
             b == Audio!Index(a)
  <2>1. d \in 0 .. Audio!Half /\ c = a + d
    BY <1>2, <1>3, SMT
  <2>2. /\ b \in 0 .. AudioCircle - 1
        /\ Audio!Index(c) = IF b + d < AudioCircle THEN b + d ELSE (b + d) - AudioCircle
    BY <2>1, AudioNumbers DEF Audio!SeqNums
  <2>3. \A age \in 0 .. Audio!Half :
          (b - age) % AudioCircle = IF b >= age THEN b - age ELSE (b - age) + AudioCircle
    BY AudioNumbers
  <2> HIDE DEF d, b
  <2>4. ~Audio!Gt(b, Audio!Index(c))
    BY <1>2, <2>1, <2>2, SMT DEF Audio!Gt
  <2>5. ASSUME NEW age \in 0 .. Audio!Half, d + age <= Audio!Half
        PROVE  ~Audio!Gt((b - age) % AudioCircle, Audio!Index(c))
    <3>1. (b - age) % AudioCircle = IF b >= age THEN b - age ELSE (b - age) + AudioCircle
      BY <2>3
    <3> QED
      BY <1>2, <2>1, <2>2, <2>5, <3>1, SMT DEF Audio!Gt
  <2> QED
    BY <2>4, <2>5 DEF d, b
<1>4. ASSUME a > c, a - c < Audio!Half
      PROVE  Audio!Gt(Audio!Index(a), Audio!Index(c))
  <2> DEFINE d == a - c
             b == Audio!Index(c)
  <2>1. d \in 1 .. Audio!Half - 1 /\ d \in 0 .. Audio!Half /\ a = c + d
    BY <1>2, <1>4, SMT
  <2>2. /\ b \in 0 .. AudioCircle - 1
        /\ Audio!Index(a) = IF b + d < AudioCircle THEN b + d ELSE (b + d) - AudioCircle
    BY <2>1, AudioNumbers DEF Audio!SeqNums
  <2> HIDE DEF d, b
  <2>3. Audio!Gt(Audio!Index(a), b)
    BY <1>2, <2>1, <2>2, SMT DEF Audio!Gt
  <2> QED
    BY <2>3 DEF b
<1>5. a > c \/ c >= a
  BY SMT
<1> QED
  BY <1>2, <1>3, <1>4, <1>5, SMT

\* The calls for a packet: its own frame, then copies that are older.
LEMMA AudioCalls ==
  ASSUME NEW k \in Nat, start \in Nat
  PROVE  /\ Audio!ConsoleCalls(k) \in Seq([index : Int, content : Int, count : Int])
         /\ Audio!ConsoleCalls(k) # <<>> /\ Audio!ConsoleCalls(k)[1].content = k
         /\ \A i \in DOMAIN Audio!ConsoleCalls(k) : \E age \in 0 .. Fec :
              /\ Audio!ConsoleCalls(k)[i].content = k - age
              /\ Audio!ConsoleCalls(k)[i].index = (Audio!Index(k) - age) % AudioCircle
              /\ i > 1 => age > 0
<1> DEFINE copies == Audio!CopiesKept(k)
           Age(i) == IF i = 1 THEN 0 ELSE copies + 2 - i
           Count(i) == IF i = copies + 1 THEN Audio!Index(k) ELSE -1
           Call(i) == Audio!Frame((Audio!Index(k) - Age(i)) % AudioCircle, k - Age(i), Count(i))
<1>1. /\ Fec \in Nat /\ AudioCircle \in Nat /\ AudioCircle > 0
      /\ Audio!Index(k) \in 0 .. AudioCircle - 1 /\ Audio!Index(k) \in Int
  <2>1. Audio!ModulusAssumption /\ Fec \in Nat
    BY TransportAssumption DEF TransportAssumption, Audio!AudioAssumption
  <2>2. 0 \in 0 .. Audio!Half
    BY <2>1, Audio!HalfFacts, SMT
  <2> QED
    BY <2>1, <2>2, AudioNumbers, SMT DEF Audio!ModulusAssumption, Audio!SeqNums
<1>2. copies \in 0 .. Fec
  BY <1>1, SMT DEF Audio!CopiesKept
<1>3. Audio!ConsoleCalls(k) = [i \in 1 .. copies + 1 |-> Call(i)]
  BY DEF Audio!ConsoleCalls, Audio!Uncounted
<1> HIDE DEF copies
<1>4. ASSUME NEW i \in 1 .. copies + 1
      PROVE  /\ Age(i) \in 0 .. Fec /\ (i > 1 => Age(i) > 0) /\ (i = 1 => Age(i) = 0)
             /\ Call(i).content = k - Age(i)
             /\ Call(i).index = (Audio!Index(k) - Age(i)) % AudioCircle
             /\ Call(i) \in [index : Int, content : Int, count : Int]
  <2>1. Age(i) \in 0 .. Fec /\ Age(i) \in Int /\ (i > 1 => Age(i) > 0) /\ (i = 1 => Age(i) = 0)
    BY <1>1, <1>2, SMT
  <2> HIDE DEF Age
  <2>2. (Audio!Index(k) - Age(i)) % AudioCircle \in Int /\ k - Age(i) \in Int /\ Count(i) \in Int
    BY <1>1, <2>1, SMT
  <2> QED
    BY <2>1, <2>2 DEF Audio!Frame
<1> HIDE DEF Call
<1>5. Audio!ConsoleCalls(k) \in Seq([index : Int, content : Int, count : Int])
  <2> DEFINE Record == [index : Int, content : Int, count : Int]
  <2>1. copies + 1 \in Nat
    BY <1>1, <1>2, SMT
  <2>2. \A i \in 1 .. copies + 1 : Call(i) \in Record
    BY <1>4
  <2> HIDE DEF Record
  <2>3. [i \in 1 .. copies + 1 |-> Call(i)] \in Seq(Record)
    BY <2>1, <2>2, SMT
  <2> QED
    BY <1>3, <2>3 DEF Record
<1>6. 1 \in 1 .. copies + 1 /\ DOMAIN Audio!ConsoleCalls(k) = 1 .. copies + 1
  BY <1>1, <1>2, <1>3, SMT
<1>7. Audio!ConsoleCalls(k)[1].content = k
  <2>1. Call(1).content = k - 0
    BY <1>4, <1>6
  <2> QED
    BY <1>3, <1>6, <2>1, SMT
<1>8. Audio!ConsoleCalls(k) # <<>>
  <2>1. DOMAIN <<>> = {}
    BY SMT
  <2> QED
    BY <1>6, <2>1
<1> QED
  BY <1>3, <1>4, <1>5, <1>6, <1>7, <1>8

\* What push_seq has read is still counted when it writes, whether the counts were
\* reported in between or not.
LEMMA AudioCounts ==
  ASSUME Audio!Counted, Audio!NoneUncounted, Audio!Next
  PROVE  Audio!Counted' /\ Audio!NoneUncounted'
<1> USE DEF Audio!Counted, Audio!NoneUncounted
<1>1. CASE Audio!Arrives \/ Audio!Swapped \/ Audio!Overtaken \/ Audio!Repeated \/ Audio!Lost
  BY <1>1 DEF Audio!Arrives, Audio!Swapped, Audio!Overtaken, Audio!Repeated, Audio!Lost, Audio!AvPacket,
     Audio!statVars
<1>2. CASE Audio!AudioFrame
  <2>1. old' = old \/ old' = stats.received
    BY <1>2 DEF Audio!AudioFrame
  <2>2. UNCHANGED <<stats, audio_pushed, counted>>
    BY <1>2 DEF Audio!AudioFrame
  <2> QED
    BY <2>1, <2>2, SMT
<1>3. CASE Audio!PushSeqWrite
  <2>1. /\ old \in Nat /\ old' = -1 /\ stats'.received = old + 1 /\ counted' = counted
        /\ audio_pushed' = audio_pushed + 1 /\ DOMAIN stats' = DOMAIN stats
    BY <1>3, SMT DEF Audio!PushSeqWrite, Audio!PushSeq
  <2> QED
    BY <2>1, SMT
<1>4. CASE Audio!CongestionReport
  <2>1. /\ stats'.received = 0 /\ counted' = counted + stats.received
        /\ UNCHANGED <<old, audio_pushed>> /\ DOMAIN stats' = DOMAIN stats
    BY <1>4 DEF Audio!CongestionReport, Audio!Reset
  <2> QED
    BY <2>1, SMT
<1>5. CASE Audio!CongestionStop \/ Audio!CongestionThreadEnds
  BY <1>5 DEF Audio!CongestionStop, Audio!CongestionThreadEnds
<1> QED
  BY <1>1, <1>2, <1>3, <1>4, <1>5 DEF Audio!Next

\* What the bounds are for.
LEMMA AudioBounds ==
  /\ Fec \in Nat /\ MaxFaults \in Nat /\ Audio!Half \in Nat
  /\ MaxFaults + 1 < Audio!Half /\ MaxFaults + Fec <= Audio!Half
<1>1. Audio!ModulusAssumption
  BY TransportAssumption DEF TransportAssumption, Audio!AudioAssumption
<1> QED
  BY <1>1, TransportAssumption, Audio!HalfFacts DEF TransportAssumption, Audio!AudioAssumption

AudioConsole == Audio!Network /\ Audio!CallsOfPacket /\ Audio!Played

\* A packet arrives: its frame is the next to be played.
LEMMA AudioArrival ==
  ASSUME AudioConsole, old \in Nat \cup {-1}, ~cloud, NEW k \in Nat, Audio!AvPacket(k),
         Audio!Network', last' = k, next' - next <= (faults' - faults) + 1, next' >= next
  PROVE  AudioConsole'
<1> USE DEF AudioConsole
<1>1. /\ calls = <<>> /\ calls' = Audio!ConsoleCalls(k) /\ UNCHANGED <<start, played, old>>
      /\ rx' = [rx EXCEPT !.startup = @ /\ Audio!Index(k) <= Audio!Half]
  BY DEF Audio!AvPacket, Audio!statVars
<1>2. start \in Nat /\ old = -1 /\ last' = k
  BY <1>1 DEF Audio!Network, Audio!CallsOfPacket
<1>3. Audio!CallsOfPacket' /\ Audio!Fresh'
  <2>1. Audio!Index(k)' = Audio!Index(k)
    BY <1>1 DEF Audio!Index
  <2>2. Audio!CallsOfPacket'
    <3>1. \A i \in DOMAIN calls' : \E age \in 0 .. Fec :
            /\ calls'[i].content = k - age
            /\ calls'[i].index = (Audio!Index(k) - age) % AudioCircle
            /\ i > 1 => age > 0
      BY <1>1, <1>2, AudioCalls
    <3>2. calls' \in Seq([index : Int, content : Int, count : Int])
      BY <1>1, <1>2, AudioCalls
    <3>3. k >= 0 /\ ~(old' >= 0)
      BY <1>1, <1>2, SMT
    <3>4. Audio!Index(last)' = Audio!Index(k)
      BY <1>1 DEF Audio!Index
    <3>5. \A i \in DOMAIN calls' : \E age \in 0 .. Fec :
            Audio!CopyOf(calls[i], age)' /\ (i > 1 => age > 0)
      BY <1>2, <3>1, <3>4 DEF Audio!CopyOf
    <3> QED
      BY <1>2, <3>2, <3>3, <3>5 DEF Audio!CallsOfPacket
  <2>3. Audio!Fresh'
    <3>1. calls' # <<>> /\ calls'[1].content = k
      BY <1>1, <1>2, AudioCalls
    <3>2. Head(calls') = calls'[1]
      BY <3>1, SMT
    <3> QED
      BY <1>1, <1>2, <3>1, <3>2 DEF Audio!Fresh
  <2> QED
    BY <2>2, <2>3
<1>4. Audio!Played'
  <2>1. DOMAIN rx' = {"valid", "prev", "startup"} /\ rx'.valid = rx.valid /\ rx'.prev = rx.prev
    BY <1>1, SMT DEF Audio!Played
  <2>2. ASSUME played # <<>>
        PROVE  /\ Audio!Newest' = Audio!Newest /\ Audio!Newest >= 0 /\ Audio!Newest < next'
               /\ next' - Audio!Newest <= faults' + 2 /\ rx'.prev = Audio!Index(Audio!Newest)'
    <3>1. Audio!Newest' = Audio!Newest
      BY <1>1 DEF Audio!Newest
    <3>2. Audio!Newest \in Int
      BY <2>2, SMT DEF Audio!Played, Audio!Newest
    <3>3. Audio!Newest >= last
      <4>1. ~Audio!Fresh
        BY <1>1 DEF Audio!Fresh
      <4>2. last >= 0 => Audio!Newest >= last
        BY <4>1 DEF Audio!Played
      <4>3. Audio!Newest >= 0
        BY <2>2 DEF Audio!Played
      <4> QED
        BY <3>2, <4>2, <4>3, SMT DEF Audio!Network
    <3>4. Audio!Newest >= 0 /\ Audio!Newest < next /\ rx.prev = Audio!Index(Audio!Newest)
      BY <2>2 DEF Audio!Played
    <3>5. Audio!Newest < next' /\ next' - Audio!Newest <= faults' + 2
      <4>1. next \in Int /\ faults \in Int /\ last \in Int /\ next - last <= faults + 1
        BY AudioBounds, SMT DEF Audio!Network
      <4>2. next' \in Int /\ faults' \in Int
        BY AudioBounds, SMT DEF Audio!Network
      <4>3. next' - next <= (faults' - faults) + 1 /\ next' >= next
        OBVIOUS
      <4>4. \A n, n0, n1, l, f0, f1 \in Int :
              n >= l /\ n < n0 /\ n0 - l <= f0 + 1 /\ n1 - n0 <= (f1 - f0) + 1 /\ n1 >= n0
                => n < n1 /\ n1 - n <= f1 + 2
        BY SMT
      <4> QED
        BY <3>2, <3>3, <3>4, <4>1, <4>2, <4>3, <4>4
    <3>6. Audio!Index(Audio!Newest)' = Audio!Index(Audio!Newest)
      BY <1>1, <3>1 DEF Audio!Index
    <3> QED
      BY <2>1, <3>1, <3>4, <3>5, <3>6
  <2> QED
    BY <1>1, <1>3, <2>1, <2>2 DEF Audio!Played
<1> QED
  BY <1>3, <1>4

\* A call is taken off the list, and the next one is that of a copy.
LEMMA AudioNextCall ==
  ASSUME AudioConsole, calls # <<>>, calls' = Tail(calls), old' = -1, UNCHANGED <<start, last>>
  PROVE  Audio!CallsOfPacket' /\ ~Audio!Fresh'
<1> USE DEF AudioConsole
<1> DEFINE Record == [index : Int, content : Int, count : Int]
<1>1. calls \in Seq(Record) /\ last >= 0 /\ last \in Int
  BY DEF Audio!CallsOfPacket, Audio!Network
<1> HIDE DEF Record
<1>2. /\ calls' \in Seq(Record)
      /\ \A i \in DOMAIN calls' : i \in Nat /\ i > 0 /\ i + 1 \in DOMAIN calls /\ calls'[i] = calls[i + 1]
  BY <1>1, SMT
<1>3. Audio!Index(last)' = Audio!Index(last)
  BY DEF Audio!Index
<1>4. ASSUME NEW i \in DOMAIN calls'
      PROVE  \E age \in 0 .. Fec : Audio!CopyOf(calls'[i], age) /\ age > 0
  <2>1. i + 1 \in DOMAIN calls /\ i + 1 > 1 /\ calls'[i] = calls[i + 1]
    BY <1>2, SMT
  <2>2. PICK age \in 0 .. Fec : Audio!CopyOf(calls[i + 1], age) /\ (i + 1 > 1 => age > 0)
    BY <2>1 DEF Audio!CallsOfPacket
  <2> QED
    BY <2>1, <2>2
<1>5. Audio!CallsOfPacket'
  <2>1. ~(old' >= 0)
    BY SMT
  <2>2. calls' \in Seq([index : Int, content : Int, count : Int])
    BY <1>2 DEF Record
  <2>3. \A i \in DOMAIN calls' : \E age \in 0 .. Fec : Audio!CopyOf(calls[i], age)' /\ (i > 1 => age > 0)
    BY <1>3, <1>4 DEF Audio!CopyOf
  <2> QED
    BY <1>1, <2>1, <2>2, <2>3 DEF Audio!CallsOfPacket
<1>6. ~Audio!Fresh'
  <2> SUFFICES ASSUME calls' # <<>> PROVE Head(calls').content # last
    BY DEF Audio!Fresh
  <2>1. 1 \in DOMAIN calls' /\ Head(calls') = calls'[1]
    BY <1>2, SMT
  <2>2. PICK age \in 0 .. Fec : calls'[1].content = last - age /\ age > 0
    BY <1>4, <2>1 DEF Audio!CopyOf
  <2>3. last - age # last
    BY <1>1, <2>2, AudioBounds, SMT
  <2> QED
    BY <2>1, <2>2, <2>3
<1> QED
  BY <1>5, <1>6

\* A frame is played if it is the packet's own and newer than what was; its copies
\* come too late.
LEMMA AudioPlays ==
  ASSUME AudioConsole, Audio!AudioFrame, old = -1
  PROVE  /\ ~Audio!Fresh => played # <<>> /\ UNCHANGED <<rx, played>>
         /\ Audio!Fresh => IF played # <<>> /\ last <= Audio!Newest THEN UNCHANGED <<rx, played>>
                           ELSE /\ played' = Append(played, last)
                                /\ rx' = [rx EXCEPT !.valid = TRUE, !.prev = Audio!Index(last)]
<1> USE DEF AudioConsole
<1> DEFINE call == Head(calls)
<1>1. /\ calls # <<>>
      /\ IF Audio!Accept(call.index)
         THEN /\ rx' = [rx EXCEPT !.valid = TRUE, !.prev = call.index]
              /\ played' = Append(played, call.content)
         ELSE UNCHANGED <<rx, played>>
  BY DEF Audio!AudioFrame
<1>2. PICK age \in 0 .. Fec : Audio!CopyOf(call, age)
  <2>1. 1 \in DOMAIN calls /\ call = calls[1]
    BY <1>1, SMT DEF Audio!CallsOfPacket
  <2> QED
    BY <2>1 DEF Audio!CallsOfPacket
<1> HIDE DEF call
<1>3. /\ last \in Nat /\ start \in Nat /\ age \in Nat /\ age <= Fec /\ next \in Nat /\ last < next
      /\ faults \in Nat /\ faults <= MaxFaults /\ next - last <= faults + 1 /\ age \in 0 .. Audio!Half
  <2>1. last >= 0
    BY <1>1 DEF Audio!CallsOfPacket
  <2> QED
    BY <1>2, <2>1, AudioBounds, SMT DEF Audio!Network
<1>4. Audio!Accept(call.index) <=> played = <<>> \/ Audio!Gt(call.index, rx.prev)
  BY DEF Audio!Accept, Audio!Played
<1>5. ASSUME played # <<>>
      PROVE  /\ Audio!Newest \in Nat /\ Audio!Newest < next /\ next - Audio!Newest <= faults + 2
             /\ rx.prev = Audio!Index(Audio!Newest)
  <2>1. Audio!Newest \in Int
    BY <1>5, SMT DEF Audio!Played, Audio!Newest
  <2> QED
    BY <1>5, <2>1, SMT DEF Audio!Played
<1>6. ASSUME ~Audio!Fresh
      PROVE  played # <<>> /\ UNCHANGED <<rx, played>>
  <2>1. played # <<>> /\ Audio!Newest >= last
    BY <1>3, <1>6, SMT DEF Audio!Played
  <2>2. (Audio!Newest - last) + age <= Audio!Half
    BY <1>3, <1>5, <2>1, AudioBounds, SMT
  <2>3. ~Audio!Gt(call.index, rx.prev)
    BY <1>2, <1>3, <1>5, <2>1, <2>2, AudioNewer DEF Audio!CopyOf
  <2> QED
    BY <1>1, <1>4, <2>1, <2>3
<1>7. ASSUME Audio!Fresh
      PROVE  IF played # <<>> /\ last <= Audio!Newest THEN UNCHANGED <<rx, played>>
             ELSE /\ played' = Append(played, last)
                  /\ rx' = [rx EXCEPT !.valid = TRUE, !.prev = Audio!Index(last)]
  <2>1. call.content = last /\ age = 0
    <3>1. call.content = last
      BY <1>7 DEF Audio!Fresh, call
    <3> QED
      BY <1>2, <1>3, <3>1, SMT DEF Audio!CopyOf
  <2>2. call.index = Audio!Index(last)
    <3>1. Audio!Index(last) \in Audio!SeqNums /\ AudioCircle \in Nat
      BY <1>3, AudioNumbers, TransportAssumption
         DEF TransportAssumption, Audio!AudioAssumption, Audio!ModulusAssumption
    <3>2. (Audio!Index(last) - 0) % AudioCircle = Audio!Index(last)
      BY <3>1, SMT DEF Audio!SeqNums
    <3> QED
      BY <1>2, <2>1, <3>2 DEF Audio!CopyOf
  <2>3. ASSUME played # <<>>
        PROVE  Audio!Gt(call.index, rx.prev) <=> last > Audio!Newest
    <3>1. last - Audio!Newest < Audio!Half /\ Audio!Newest - last <= Audio!Half
      BY <1>3, <1>5, <2>3, AudioBounds, SMT
    <3> QED
      BY <1>3, <1>5, <2>2, <2>3, <3>1, AudioNewer
  <2>4. played # <<>> => (last <= Audio!Newest <=> ~(last > Audio!Newest))
    BY <1>3, <1>5, SMT
  <2> QED
    BY <1>1, <1>4, <2>1, <2>2, <2>3, <2>4
<1> QED
  BY <1>6, <1>7

\* A packet is delivered: it is near the newest one.
LEMMA AudioDelivery ==
  ASSUME AudioConsole, old \in Nat \cup {-1}, ~cloud,
         Audio!Arrives \/ Audio!Swapped \/ Audio!Overtaken \/ Audio!Repeated
  PROVE  AudioConsole'
<1>1. /\ start \in Nat /\ next \in Nat /\ faults \in Nat /\ faults <= MaxFaults /\ MaxFaults \in Nat
      /\ last \in Int /\ last >= -1 /\ last < next /\ next - last <= faults + 1
      /\ held >= -1 /\ (held >= 0 => held = next - 2 /\ faults >= 1)
  BY AudioBounds, SMT DEF AudioConsole, Audio!Network
<1>2. CASE Audio!Arrives
  <2>1. Audio!AvPacket(next) /\ next' = next + 1 /\ last' = next /\ UNCHANGED <<start, held, faults>> /\ held = -1
    BY <1>2 DEF Audio!Arrives, Audio!AvPacket
  <2>2. Audio!Network' /\ next' - next <= (faults' - faults) + 1 /\ next' >= next
    BY <1>1, <2>1, SMT DEF Audio!Network
  <2> QED
    BY <1>1, <2>1, <2>2, AudioArrival
<1>3. CASE Audio!Swapped
  <2>1. /\ Audio!AvPacket(next + 1) /\ next' = next + 2 /\ last' = next + 1 /\ held' = next
        /\ faults' = faults + 1 /\ faults < MaxFaults /\ UNCHANGED start
    BY <1>3 DEF Audio!Swapped, Audio!AvPacket
  <2>2. /\ Audio!Network' /\ next' - next <= (faults' - faults) + 1 /\ next' >= next
        /\ next + 1 \in Nat
    BY <1>1, <2>1, SMT DEF Audio!Network
  <2> QED
    BY <2>1, <2>2, AudioArrival
<1>4. CASE Audio!Overtaken
  <2>1. /\ Audio!AvPacket(held) /\ last' = held /\ held' = -1 /\ held >= 0
        /\ UNCHANGED <<start, next, faults>>
    BY <1>4 DEF Audio!Overtaken, Audio!AvPacket
  <2>2. /\ Audio!Network' /\ next' - next <= (faults' - faults) + 1 /\ next' >= next
        /\ held \in Nat
    BY <1>1, <2>1, SMT DEF Audio!Network
  <2> QED
    BY <2>1, <2>2, AudioArrival
<1>5. CASE Audio!Repeated
  <2>1. /\ Audio!AvPacket(last) /\ last' = last /\ last >= 0 /\ faults < MaxFaults /\ faults' = faults + 1
        /\ UNCHANGED <<start, next, held>>
    BY <1>5 DEF Audio!Repeated, Audio!AvPacket
  <2>2. /\ Audio!Network' /\ next' - next <= (faults' - faults) + 1 /\ next' >= next
        /\ last \in Nat
    BY <1>1, <2>1, SMT DEF Audio!Network
  <2> QED
    BY <2>1, <2>2, AudioArrival
<1> QED
  BY <1>2, <1>3, <1>4, <1>5

\* The sink gets the frame of a call, or it is too old.
LEMMA AudioFrameInOrder ==
  ASSUME AudioConsole, Audio!Counted, ~cloud, Audio!AudioFrame
  PROVE  AudioConsole'
<1> USE DEF AudioConsole
<1>1. /\ old = -1 /\ calls # <<>> /\ UNCHANGED <<start, next, held, last, faults>>
      /\ \/ calls' = Tail(calls) /\ old' = old
         \/ old' = stats.received /\ UNCHANGED calls
  BY DEF Audio!AudioFrame, Audio!net
<1>2. Audio!Network'
  BY <1>1 DEF Audio!Network
<1>3. Audio!CallsOfPacket' /\ ~Audio!Fresh'
  <2>1. CASE calls' = Tail(calls) /\ old' = old
    BY <1>1, <2>1, AudioNextCall
  <2>2. CASE old' = stats.received /\ UNCHANGED calls
    <3>1. old' # -1
      BY <2>2, SMT DEF Audio!Counted
    <3>2. Audio!Index(last)' = Audio!Index(last)
      BY <1>1 DEF Audio!Index
    <3>3. \A i \in DOMAIN calls' : \E age \in 0 .. Fec : Audio!CopyOf(calls[i], age)' /\ (i > 1 => age > 0)
      BY <1>1, <2>2, <3>2 DEF Audio!CallsOfPacket, Audio!CopyOf
    <3> QED
      BY <1>1, <2>2, <3>1, <3>3 DEF Audio!CallsOfPacket, Audio!Fresh
  <2> QED
    BY <1>1, <2>1, <2>2
<1>4. /\ last \in Nat /\ start \in Nat /\ next \in Nat /\ faults \in Nat /\ last < next
      /\ next - last <= faults + 1
  <2>1. last >= 0
    BY <1>1 DEF Audio!CallsOfPacket
  <2> QED
    BY <2>1, AudioBounds, SMT DEF Audio!Network
<1>5. ASSUME UNCHANGED <<rx, played>>, played # <<>> /\ Audio!Newest >= last
      PROVE  Audio!Played'
  <2>1. Audio!Newest' = Audio!Newest
    BY <1>5 DEF Audio!Newest
  <2>2. Audio!Index(Audio!Newest)' = Audio!Index(Audio!Newest)
    BY <1>1, <2>1 DEF Audio!Index
  <2> QED
    BY <1>1, <1>5, <2>1, <2>2 DEF Audio!Played
<1>6. ASSUME played' = Append(played, last), played # <<>> => last > Audio!Newest,
             rx' = [rx EXCEPT !.valid = TRUE, !.prev = Audio!Index(last)]
      PROVE  Audio!Played'
  <2>1. played \in Seq(Int) /\ last \in Int /\ \A i, j \in DOMAIN played : i < j => played[i] < played[j]
    BY <1>4, SMT DEF Audio!Played
  <2>2. /\ played' \in Seq(Int) /\ Len(played') = Len(played) + 1 /\ Len(played) \in Nat
        /\ played' # <<>> /\ played'[Len(played')] = last
        /\ \A i \in DOMAIN played' : i \in 1 .. Len(played) + 1
        /\ \A i \in 1 .. Len(played) : i \in DOMAIN played /\ played'[i] = played[i]
        /\ played[Len(played)] = Audio!Newest
    BY <1>6, <2>1, SMT DEF Audio!Newest
  <2>3. \A i \in 1 .. Len(played) : played[i] < last
    <3> SUFFICES ASSUME NEW i \in 1 .. Len(played) PROVE played[i] < last
      OBVIOUS
    <3>1. played # <<>> /\ Len(played) \in DOMAIN played /\ i \in DOMAIN played
      BY <2>1, <2>2, SMT
    <3>2. i < Len(played) => played[i] < played[Len(played)]
      BY <2>1, <3>1
    <3>3. played[Len(played)] < last /\ played[i] \in Int /\ played[Len(played)] \in Int
      BY <1>6, <2>1, <2>2, <3>1, SMT
    <3> QED
      BY <2>1, <2>2, <3>2, <3>3, SMT
  <2>4. \A i, j \in DOMAIN played' : i < j => played'[i] < played'[j]
    <3> SUFFICES ASSUME NEW i \in DOMAIN played', NEW j \in DOMAIN played', i < j
                 PROVE  played'[i] < played'[j]
      OBVIOUS
    <3>1. i \in 1 .. Len(played) /\ (j \in 1 .. Len(played) \/ j = Len(played'))
      BY <2>2, SMT
    <3>2. CASE j \in 1 .. Len(played)
      BY <2>1, <2>2, <3>1, <3>2
    <3>3. CASE j = Len(played')
      BY <2>2, <2>3, <3>1, <3>3
    <3> QED
      BY <3>1, <3>2, <3>3
  <2>5. Audio!Newest' = last
    BY <2>2 DEF Audio!Newest
  <2>6. DOMAIN rx' = {"valid", "prev", "startup"} /\ rx'.valid = TRUE /\ rx'.prev = Audio!Index(last)
    BY <1>6, SMT DEF Audio!Played
  <2>7. Audio!Index(Audio!Newest)' = Audio!Index(last)
    BY <1>1, <2>5 DEF Audio!Index
  <2>8. last >= 0 /\ last < next' /\ next' - last <= faults' + 2 /\ last >= last'
    BY <1>1, <1>4, SMT
  <2> QED
    BY <2>2, <2>4, <2>5, <2>6, <2>7, <2>8 DEF Audio!Played
<1>7. Audio!Played'
  <2>1. CASE ~Audio!Fresh
    <3>1. Audio!Newest >= last
      BY <1>4, <2>1, SMT DEF Audio!Played
    <3> QED
      BY <1>1, <1>5, <2>1, <3>1, AudioPlays
  <2>2. CASE Audio!Fresh /\ played # <<>> /\ last <= Audio!Newest
    <3>1. Audio!Newest >= last
      <4>1. Audio!Newest \in Int
        BY <2>2, SMT DEF Audio!Played, Audio!Newest
      <4> QED
        BY <1>4, <2>2, <4>1, SMT
    <3> QED
      BY <1>1, <1>5, <2>2, <3>1, AudioPlays
  <2>3. CASE Audio!Fresh /\ ~(played # <<>> /\ last <= Audio!Newest)
    <3>1. played # <<>> => last > Audio!Newest
      <4>1. played # <<>> => Audio!Newest \in Int
        BY SMT DEF Audio!Played, Audio!Newest
      <4> QED
        BY <1>4, <2>3, <4>1, SMT
    <3> QED
      BY <1>1, <1>6, <2>3, <3>1, AudioPlays
  <2> QED
    BY <2>1, <2>2, <2>3
<1> QED
  BY <1>2, <1>3, <1>7

\* Nothing of the console's order is touched by a loss, the counts and the reports.
LEMMA AudioOthers ==
  ASSUME AudioConsole, Audio!Counted,
         \/ Audio!Lost \/ Audio!PushSeqWrite \/ Audio!CongestionReport
         \/ Audio!CongestionStop \/ Audio!CongestionThreadEnds \/ UNCHANGED Audio!vars
  PROVE  AudioConsole'
<1> USE DEF AudioConsole
<1>1. UNCHANGED start /\ UNCHANGED rx /\ UNCHANGED played /\ UNCHANGED last /\ UNCHANGED held
  BY DEF Audio!Lost, Audio!PushSeqWrite, Audio!CongestionReport, Audio!CongestionStop,
     Audio!CongestionThreadEnds, Audio!vars, Audio!net, Audio!statVars
<1>2. \/ UNCHANGED <<next, faults>>
      \/ held = -1 /\ faults < MaxFaults /\ next' = next + 1 /\ faults' = faults + 1
  BY DEF Audio!Lost, Audio!PushSeqWrite, Audio!CongestionReport, Audio!CongestionStop,
     Audio!CongestionThreadEnds, Audio!vars, Audio!net
<1>3. \/ UNCHANGED <<calls, old>>
      \/ calls # <<>> /\ calls' = Tail(calls) /\ old' = -1 /\ old >= 0
  <2>1. CASE Audio!PushSeqWrite
    <3>1. ~(-1 >= 0)
      BY SMT
    <3> QED
      BY <2>1, <3>1 DEF Audio!PushSeqWrite, Audio!CallsOfPacket
  <2>2. CASE ~Audio!PushSeqWrite
    BY <2>2 DEF Audio!Lost, Audio!CongestionReport, Audio!CongestionStop, Audio!CongestionThreadEnds,
       Audio!vars, Audio!statVars
  <2> QED
    BY <2>1, <2>2
<1>4. /\ next \in Nat /\ faults \in Nat /\ faults <= MaxFaults /\ MaxFaults \in Nat /\ last \in Int /\ last < next
      /\ next - last <= faults + 1
  BY AudioBounds, SMT DEF Audio!Network
<1>5. Audio!Network'
  BY <1>1, <1>2, <1>4, SMT DEF Audio!Network
<1>6. Audio!CallsOfPacket' /\ (Audio!Fresh' => Audio!Fresh) /\ (Audio!Fresh => Audio!Fresh')
  <2>1. CASE UNCHANGED <<calls, old>>
    <3>1. Audio!Index(last)' = Audio!Index(last)
      BY <1>1 DEF Audio!Index
    <3>2. \A i \in DOMAIN calls' : \E age \in 0 .. Fec : Audio!CopyOf(calls[i], age)' /\ (i > 1 => age > 0)
      BY <1>1, <2>1, <3>1 DEF Audio!CallsOfPacket, Audio!CopyOf
    <3> QED
      BY <1>1, <2>1, <3>2 DEF Audio!CallsOfPacket, Audio!Fresh
  <2>2. CASE calls # <<>> /\ calls' = Tail(calls) /\ old' = -1 /\ old >= 0
    <3>1. old # -1
      BY <2>2, SMT
    <3>2. ~Audio!Fresh
      BY <3>1 DEF Audio!Fresh
    <3> QED
      BY <1>1, <2>2, <3>2, AudioNextCall
  <2> QED
    BY <1>3, <2>1, <2>2
<1>7. Audio!Played'
  <2>1. Audio!Newest' = Audio!Newest
    BY <1>1 DEF Audio!Newest
  <2>2. Audio!Index(Audio!Newest)' = Audio!Index(Audio!Newest)
    BY <1>1, <2>1 DEF Audio!Index
  <2>3. played # <<>> => Audio!Newest < next' /\ next' - Audio!Newest <= faults' + 2
    <3>1. ASSUME played # <<>>
          PROVE  Audio!Newest \in Int /\ Audio!Newest < next /\ next - Audio!Newest <= faults + 2
      BY <3>1, SMT DEF Audio!Played, Audio!Newest
    <3> QED
      BY <1>2, <1>4, <3>1, SMT
  <2> QED
    BY <1>1, <1>6, <2>1, <2>2, <2>3 DEF Audio!Played
<1> QED
  BY <1>5, <1>6, <1>7

\* Before the first packet.
LEMMA AudioInit == Audio!Init => Audio!Inv
<1> SUFFICES ASSUME Audio!Init PROVE Audio!Inv
  OBVIOUS
<1> USE DEF Audio!Init
<1>1. Audio!Counted /\ Audio!NoneUncounted
  <2>1. stats.received = 0 /\ DOMAIN stats = {"min", "max", "received"}
    BY SMT
  <2> QED
    BY <2>1, SMT DEF Audio!Counted, Audio!NoneUncounted
<1>2. Audio!Network
  <2>1. AudioStarts \subseteq Nat /\ MaxFaults \in Nat
    BY TransportAssumption DEF TransportAssumption, Audio!AudioAssumption
  <2> QED
    BY <2>1, SMT DEF Audio!Network
<1>3. Audio!CallsOfPacket
  <2>1. calls \in Seq([index : Int, content : Int, count : Int]) /\ ~(old >= 0) /\ DOMAIN calls = {}
    BY SMT
  <2> QED
    BY <2>1 DEF Audio!CallsOfPacket
<1>4. Audio!Played
  <2>1. /\ played \in Seq(Int) /\ DOMAIN played = {} /\ DOMAIN rx = {"valid", "prev", "startup"}
        /\ rx.valid = FALSE /\ ~(last >= 0)
    BY SMT
  <2> QED
    BY <2>1 DEF Audio!Played
<1> QED
  BY <1>1, <1>2, <1>3, <1>4 DEF Audio!Inv

LEMMA AudioStep == Audio!Inv /\ [Audio!Next]_Audio!vars => Audio!Inv'
<1> SUFFICES ASSUME Audio!Inv, [Audio!Next]_Audio!vars PROVE Audio!Inv'
  OBVIOUS
<1>1. Audio!Counted' /\ Audio!NoneUncounted'
  <2>1. CASE Audio!Next
    BY <2>1, AudioCounts DEF Audio!Inv
  <2>2. CASE UNCHANGED Audio!vars
    BY <2>2 DEF Audio!Inv, Audio!vars, Audio!statVars, Audio!Counted, Audio!NoneUncounted
  <2> QED
    BY <2>1, <2>2
<1>2. cloud' = cloud
  BY DEF Audio!Next, Audio!vars, Audio!net, Audio!Arrives, Audio!Swapped, Audio!Overtaken, Audio!Repeated,
     Audio!Lost, Audio!AvPacket, Audio!AudioFrame, Audio!PushSeqWrite, Audio!CongestionReport,
     Audio!CongestionStop, Audio!CongestionThreadEnds
<1>3. ASSUME ~cloud
      PROVE  Audio!Network' /\ Audio!CallsOfPacket' /\ Audio!Played'
  <2>1. AudioConsole /\ Audio!Counted /\ old \in Nat \cup {-1}
    BY <1>3 DEF Audio!Inv, AudioConsole, Audio!Counted
  <2>2. AudioConsole'
    BY <1>3, <2>1, AudioDelivery, AudioFrameInOrder, AudioOthers DEF Audio!Next
  <2> QED
    BY <2>2 DEF AudioConsole
<1> QED
  BY <1>1, <1>2, <1>3 DEF Audio!Inv

\* From the invariant: the order of a console's frames.
LEMMA AudioOrder == Audio!Inv => Audio!ConsoleInOrder
<1> SUFFICES ASSUME Audio!Inv, ~cloud,
                    NEW i \in DOMAIN played, NEW j \in DOMAIN played, i < j
             PROVE  played[i] <= played[j]
  BY DEF Audio!ConsoleInOrder, Audio!PlayedInOrder
<1>1. played[i] < played[j] /\ played \in Seq(Int)
  BY DEF Audio!Inv, Audio!Played
<1> QED
  BY <1>1, SMT

-----------------------------------------------------------------------------
(* The parts in one specification                                           *)

\* A step of the whole is one of each part, or leaves it alone.
LEMMA StepOfParts ==
  ASSUME [Next]_vars
  PROVE  /\ [Audio!Next]_Audio!vars /\ [Keys!Next]_Keys!vars /\ [Position!Next]_Position!vars
         /\ [Rudp!Next]_Rudp!vars /\ [SendBuffer!Next]_SendBuffer!vars /\ [Sending!Next]_Sending!vars
         /\ [Feedback!Next]_Feedback!vars
<1>1. UNCHANGED KeysVars => UNCHANGED Keys!vars
  BY DEF KeysVars, Keys!vars, Keys!buffer
<1>2. UNCHANGED PositionVars => UNCHANGED Position!vars
  BY DEF PositionVars, Position!vars
<1>3. UNCHANGED FeedbackVars => UNCHANGED Feedback!vars
  BY DEF FeedbackVars, Feedback!vars, Feedback!ownerVars, Feedback!threadVars, Feedback!netVars,
     Feedback!histVars
<1>4. UNCHANGED RudpVars => UNCHANGED Rudp!vars
  BY DEF RudpVars, Rudp!vars, Rudp!handshake
<1>5. UNCHANGED SendBufferVars => UNCHANGED SendBuffer!vars
  BY DEF SendBufferVars, SendBuffer!vars, SendBuffer!finiVars
<1>6. UNCHANGED SendingVars => UNCHANGED Sending!vars
  BY DEF SendingVars, Sending!vars
<1>7. UNCHANGED AudioVars => UNCHANGED Audio!vars
  BY DEF AudioVars, Audio!vars, Audio!net, Audio!statVars
<1>8. UNCHANGED vars => /\ UNCHANGED AudioVars
                       /\ UNCHANGED KeysVars /\ UNCHANGED PositionVars /\ UNCHANGED FeedbackVars
                       /\ UNCHANGED RudpVars /\ UNCHANGED SendBufferVars /\ UNCHANGED SendingVars
  BY DEF vars
<1> QED
  BY <1>1, <1>2, <1>3, <1>4, <1>5, <1>6, <1>7, <1>8 DEF Next

\* The invariants of the parts.
LEMMA PartsInv ==
  Spec => [](/\ Audio!Inv /\ Keys!Inv /\ PositionInv /\ Rudp!Inv /\ SendBuffer!Inv /\ Sending!Inv
             /\ Feedback!Inv)
<1> DEFINE All == /\ Audio!Inv /\ Keys!Inv /\ PositionInv /\ Rudp!Inv /\ SendBuffer!Inv /\ Sending!Inv
                  /\ Feedback!Inv
<1>1. Keys!KeyStreamAssumption /\ Feedback!SenderAssumption
  BY TransportAssumption DEF TransportAssumption
<1>2. Init => All
  BY <1>1, AudioInit, KeysInit, PositionInit, RudpInit, BufferInit, SendingInit, FeedbackInit DEF Init
<1>3. All /\ [Next]_vars => All'
  BY <1>1, StepOfParts, AudioStep, KeysStep, PositionStep, RudpStep, BufferStep, SendingStep,
     FeedbackStep
<1> HIDE DEF All
<1>4. Spec => []All
  BY <1>2, <1>3, PTL DEF Spec
<1> QED
  BY <1>4 DEF All

\* The sink gets the frames of a console in their order, whatever the network loses,
\* repeats and swaps, and a report that races with push_seq forgets no packet, for
\* every circle of numbers and any copies in a packet (audioreceiver.c,
\* packetstats.c).
THEOREM AudioCorrect == Spec => [](Audio!ConsoleInOrder /\ Audio!NoneUncounted)
<1>1. Audio!Inv => Audio!ConsoleInOrder /\ Audio!NoneUncounted
  BY AudioOrder DEF Audio!Inv
<1> QED
  BY PartsInv, <1>1, PTL

\* The ring holds whole chunks, never more than fit, and room for the one that is
\* generated.
THEOREM RingCorrect == Spec => []Keys!TypeOK
<1>1. Keys!Inv => Keys!TypeOK
  <2> SUFFICES ASSUME Keys!Inv PROVE Keys!TypeOK
    OBVIOUS
  <2>1. Keys!KeyStreamAssumption
    BY TransportAssumption DEF TransportAssumption
  <2>2. populated % ChunkCells = 0 /\ key_pos_min % ChunkCells = 0
    <3>1. populated \in Nat
      BY <2>1, SizeFacts, SMT DEF Keys!Inv, Keys!Aligned
    <3> QED
      BY <2>1, <3>1, NoRemainder DEF Keys!Inv, Keys!Aligned
  <2>3. thread = "generate" => populated < Keys!Size
    BY <2>1, SizeFacts, SMT DEF Keys!Inv, Keys!Aligned, Keys!WritesNext
  <2> QED
    BY <2>2, <2>3 DEF Keys!TypeOK, Keys!Inv, Keys!Aligned
<1> QED
  BY PartsInv, <1>1, PTL

\* Nobody who asks for the key stream gets cells of another position, for any size
\* of the ring and of its chunks, although chiaki_gkcrypt's thread writes into the
\* ring while others read it.
THEOREM StreamCorrect == Spec => []Keys!RightStream
<1>1. Keys!Inv => Keys!RightStream
  BY DEF Keys!Inv
<1> QED
  BY PartsInv, <1>1, PTL

\* A packet less than half the circle away from the last one gets its own position
\* back from the low bits it carries, and its MAC is made with the key of that
\* position, for every circle, jitter and interval of the keys (gkcrypt.c).
THEOREM PositionCorrect ==
  Spec => [](Position!TypeOK /\ Position!RightPosition /\ Position!RightMacKey)
<1>1. PositionInv => Position!TypeOK /\ Position!RightPosition /\ Position!RightMacKey
  BY DEF PositionInv
<1> QED
  BY PartsInv, <1>1, PTL

\* The console has what the user holds, also after losses, and no part of a chord,
\* for every length of the hold, the pulse and the wait and every size of the
\* history (feedbacksender.c).
THEOREM InputCorrect == Spec => []InputSafe
<1>1. Feedback!Inv => InputSafe
  <2> SUFFICES ASSUME Feedback!Inv
               PROVE  /\ Feedback!TypeOK /\ Feedback!SourcesDoNotLeak
                      /\ Feedback!LastPushIsSent /\ Feedback!HistoryRepairsLoss
    BY DEF InputSafe
  <2>1. Feedback!TypeOK
    BY DEF Feedback!Inv
  <2>2. Feedback!SourcesDoNotLeak
    BY DEF Feedback!Inv, Feedback!EngagedIsSilent, Feedback!SourcesDoNotLeak
  <2>3. Feedback!LastPushIsSent
    BY DEF Feedback!Inv, Feedback!CrossFollows, Feedback!LastPushIsSent
  <2>4. Feedback!HistoryRepairsLoss
    <3> SUFFICES ASSUME lost = 0 PROVE console = controller_state_prev
      BY DEF Feedback!HistoryRepairsLoss
    <3>1. SubSeq(history_buf, 1, lost) = <<>>
      BY SMT DEF Feedback!Inv, Feedback!BufferCovers
    <3>2. Feedback!Seen(<<>>, console) = console
      BY SeenNothing DEF Feedback!Inv, Feedback!TypeOK
    <3> QED
      BY <3>1, <3>2 DEF Feedback!Inv, Feedback!BufferCovers
  <2> QED
    BY <2>1, <2>2, <2>3, <2>4
<1> QED
  BY PartsInv, <1>1, PTL

\* The chord fires only after both buttons were found held at every wake for the
\* whole hold time, and once until both have been up (chiaki_ps_chord_apply).
THEOREM ChordCorrect == Spec => ChordFiresOnce
<1>1. Feedback!Inv /\ [Next]_vars => [part = "feedback" => Feedback!OncePerFullHold]_vars
  BY TransportAssumption, StepOfParts, FiresAfterHold DEF TransportAssumption
<1> QED
  BY PartsInv, <1>1, PTL DEF Spec, ChordFiresOnce

\* Of what the threads send nothing is forgotten, no two packets share a number or a
\* piece of the key stream, and the frames of the microphone go out twice, for any
\* threads, sizes and tries (takionsendbuffer.c, rudpsendbuffer.c, takion.c,
\* audiosender.c).
THEOREM SendersCorrect == Spec => []SendersSafe
<1>1. Rudp!Inv => Rudp!TypeOK /\ Rudp!Safe
  BY DEF Rudp!Inv
<1>2. SendBuffer!Inv => SendBuffer!TypeOK /\ SendBuffer!NothingForgotten
  BY DEF SendBuffer!Inv
<1>3. Sending!Inv => Sending!TypeOK /\ Sending!Safe
  BY SendingIsSafe
<1>4. Rudp!Inv /\ SendBuffer!Inv /\ Sending!Inv => SendersSafe
  BY <1>1, <1>2, <1>3 DEF SendersSafe
<1> QED
  BY PartsInv, <1>4, PTL
===============================================================================
