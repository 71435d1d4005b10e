----------------------------- MODULE TakionSending -----------------------------
(***************************************************************************)
(* What lib/src/takion.c does to a packet before it leaves: a position in  *)
(* the local key stream is taken under one mutex, the number of a data     *)
(* packet under another, the MAC is made under the first again, and only   *)
(* then it is sent. Feedback and microphone packets are encrypted with the *)
(* key stream behind their position, under one lock. The Takion thread     *)
(* sets the ciphers when BANG has come, under no lock. The microphone's    *)
(* packets are put together by lib/src/audiosender.c. What happens to data *)
(* after it was sent is in TakionSendBuffer.                               *)
(***************************************************************************)
EXTENDS Integers, FiniteSets, Sequences

CONSTANTS DataThreads, AckThread, CongestionThread, \* who sends what
          Sizes, AckSize, CongestionSize, \* what advance_key_pos is called with
          FeedbackSizes, MicSize, \* the payloads of feedback and microphone packets
          Block,      \* CHIAKI_GKCRYPT_BLOCK_SIZE
          SizeMax,    \* SIZE_MAX
          MaxSends, MaxFrames, MaxFailures \* bounds: packets in all, frames of the microphone, sends that fail

SendingAssumption == /\ AckSize \in Nat \ {0} /\ CongestionSize \in Nat \ {0} /\ Block \in Nat \ {0} /\ SizeMax \in Nat
                     /\ Sizes \subseteq Nat \ {0} /\ FeedbackSizes \subseteq Nat \ {0} /\ MicSize \in Nat \ {0}
                     /\ IsFiniteSet(DataThreads) /\ MaxSends \in Nat /\ MaxFrames \in Nat /\ MaxFailures \in Nat

VARIABLES crypt,         \* gkcrypt_local is set
          key_pos_local,
          seq_num_local, \* numbers taken so far
          at,            \* thread -> where it is in sending
          hand,          \* thread -> the packet that it sends
          wire,          \* the packets that were sent, in order
          failures,
          frames,        \* units of opus that the microphone had so far
          framea, frameb \* the sender's older frames; 0 while there are none
vars == <<crypt, key_pos_local, seq_num_local, at, hand, wire, failures, frames, framea, frameb>>

Threads == DataThreads \union {AckThread, CongestionThread}
Mic == <<frames, framea, frameb>>
OnTheWay == {t \in Threads : at[t] # "idle"}
Room == Len(wire) + failures + Cardinality(OnTheWay) < MaxSends

\* own: the position was taken from the stream; first..first + size - 1 of it is
\* reserved and used[1]..used[2] encrypts; units: the frames inside.
Packet(pos, own, size, used, units) == [pos |-> pos, own |-> own, size |-> size, used |-> used, number |-> 0, units |-> units]
Nothing == <<0, -1>>
NoPacket == Packet(0, FALSE, 0, Nothing, <<>>)

\* chiaki_takion_crypt_advance_key_pos
Rounded(n) == n + (n % Block)
Overflows(n) == crypt /\ SizeMax - key_pos_local < Rounded(n)
Advance(n) == key_pos_local' = IF crypt THEN key_pos_local + Rounded(n) ELSE key_pos_local
Position == IF crypt THEN key_pos_local ELSE 0

\* mutant: the number is taken first, and nobody gives it back
BeginAfterNumber(t, n, step) ==
  /\ at[t] = "idle" /\ Room /\ seq_num_local < MaxSends
  /\ IF Overflows(n) THEN seq_num_local' = seq_num_local + 1 /\ UNCHANGED <<key_pos_local, at, hand>>
     ELSE /\ Advance(n) /\ hand' = [hand EXCEPT ![t] = Packet(Position, crypt, Rounded(n), Nothing, <<>>)]
          /\ at' = [at EXCEPT ![t] = step] /\ UNCHANGED seq_num_local
  /\ UNCHANGED <<crypt, wire, failures>> /\ UNCHANGED Mic

\* A packet without a position is given up before it gets a number.
Begin(t, n, step) ==
  /\ at[t] = "idle" /\ Room /\ ~Overflows(n) /\ Advance(n)
  /\ hand' = [hand EXCEPT ![t] = Packet(Position, crypt, Rounded(n), Nothing, <<>>)]
  /\ at' = [at EXCEPT ![t] = step]
  /\ UNCHANGED <<crypt, seq_num_local, wire, failures>> /\ UNCHANGED Mic

SendMessageData(t, n) == Begin(t, n, "numbering")
SendMessageDataAck == Begin(AckThread, AckSize, "mac")
SendCongestion == Begin(CongestionThread, CongestionSize, "mac")

TakeNumber(t) ==
  /\ at[t] = "numbering" /\ at' = [at EXCEPT ![t] = "mac"]
  /\ seq_num_local' = seq_num_local + 1 /\ hand' = [hand EXCEPT ![t].number = seq_num_local + 1]
  /\ UNCHANGED <<crypt, key_pos_local, wire, failures>> /\ UNCHANGED Mic

\* chiaki_takion_send: the MAC under the lock, and then the socket. A packet that
\* could not be sent is freed and not tried again.
MakeMac(t) ==
  /\ at[t] = "mac" /\ at' = [at EXCEPT ![t] = "socket"]
  /\ UNCHANGED <<crypt, key_pos_local, seq_num_local, hand, wire, failures>> /\ UNCHANGED Mic
Leaves(t) ==
  /\ at[t] = "socket" /\ at' = [at EXCEPT ![t] = "idle"] /\ wire' = Append(wire, hand[t])
  /\ hand' = [hand EXCEPT ![t] = NoPacket] /\ UNCHANGED <<crypt, key_pos_local, seq_num_local, failures>> /\ UNCHANGED Mic
SocketFails(t) ==
  /\ at[t] = "socket" /\ failures < MaxFailures /\ failures' = failures + 1 /\ at' = [at EXCEPT ![t] = "idle"]
  /\ hand' = [hand EXCEPT ![t] = NoPacket] /\ UNCHANGED <<crypt, key_pos_local, seq_num_local, wire>> /\ UNCHANGED Mic

\* mutant: only the payload is reserved, not the block before it
ReservesPayload(n) == n

Reserves(n) == n + Block

\* takion_send_feedback_packet and chiaki_takion_send_mic_packet, under the lock
\* from the position to the socket.
SendEncrypted(n, units) ==
  /\ crypt /\ ~Overflows(Reserves(n)) /\ Advance(Reserves(n))
  /\ wire' = Append(wire, Packet(Position, TRUE, Rounded(Reserves(n)), <<Position + Block, Position + Block + n - 1>>, units))

SendFeedbackState(n) == /\ Room /\ SendEncrypted(n, <<>>) /\ UNCHANGED <<crypt, seq_num_local, at, hand, failures>> /\ UNCHANGED Mic
SendFeedbackHistory(n) == SendFeedbackState(n)

SendMicPacket(units) == IF Overflows(Reserves(MicSize)) THEN UNCHANGED <<key_pos_local, wire>>
                        ELSE SendEncrypted(MicSize, units)

\* mutant: the older frame is not replaced
KeepsFrames(f) == UNCHANGED <<framea, frameb>>

\* framea is copied to frameb only after it was overwritten.
ShiftFrames(f) == framea' = f /\ frameb' = f

\* chiaki_audio_sender_opus_data: the first two frames are only kept; each later
\* one goes out with them.
MicFrame ==
  LET f == frames + 1 IN
  /\ frames < MaxFrames /\ frames' = f
  /\ CASE frameb = 0 -> frameb' = f /\ UNCHANGED <<framea, key_pos_local, wire>>
       [] frameb # 0 /\ framea = 0 -> framea' = f /\ UNCHANGED <<frameb, key_pos_local, wire>>
       [] OTHER -> crypt /\ ShiftFrames(f) /\ SendMicPacket(<<f, framea, f>>)
  /\ UNCHANGED <<crypt, seq_num_local, at, hand, failures>>

SetCrypt == ~crypt /\ crypt' = TRUE /\ UNCHANGED <<key_pos_local, seq_num_local, at, hand, wire, failures>> /\ UNCHANGED Mic

Init == /\ crypt = FALSE /\ key_pos_local = 0 /\ seq_num_local = 0
        /\ at = [t \in Threads |-> "idle"] /\ hand = [t \in Threads |-> NoPacket]
        /\ wire = <<>> /\ failures = 0 /\ frames = 0 /\ framea = 0 /\ frameb = 0

Next == \/ \E t \in DataThreads, n \in Sizes : SendMessageData(t, n)
        \/ SendMessageDataAck \/ SendCongestion
        \/ \E t \in Threads : TakeNumber(t) \/ MakeMac(t) \/ Leaves(t) \/ SocketFails(t)
        \/ \E n \in FeedbackSizes : SendFeedbackState(n) \/ SendFeedbackHistory(n)
        \/ MicFrame \/ SetCrypt
Spec == Init /\ [][Next]_vars

-----------------------------------------------------------------------------
Packets == {wire[i] : i \in DOMAIN wire} \union {hand[t] : t \in OnTheWay}
PacketType == [pos : Nat, own : BOOLEAN, size : Nat \ {0}, used : Int \X Int, number : Nat, units : Seq(Nat)]
TypeOK ==
  /\ key_pos_local \in 0..SizeMax /\ seq_num_local \in 0..MaxSends /\ Len(wire) <= MaxSends + MaxFrames
  /\ crypt \in BOOLEAN /\ wire \in Seq(PacketType) /\ failures \in Nat
  /\ frames \in 0..MaxFrames /\ framea \in Nat /\ frameb \in Nat
  /\ at \in [Threads -> {"idle", "numbering", "mac", "socket"}] /\ DOMAIN hand = Threads
  /\ \A t \in Threads : /\ at[t] = "numbering" => t \in DataThreads /\ hand[t].number = 0
                        /\ at[t] # "idle" => hand[t] \in PacketType /\ hand[t].units = <<>>

\* No piece of the key stream is given to two packets, and what encrypts a packet is
\* a piece of its own (the mutex around key_pos_local).
Reserved(p) == p.pos..p.pos + p.size - 1
Apart(p, q) == (p.own /\ q.own) => Reserved(p) \intersect Reserved(q) = {}
StreamUsedOnce ==
  /\ \A i, j \in DOMAIN wire : i # j => Apart(wire[i], wire[j])
  /\ \A i \in DOMAIN wire : wire[i].used[1]..wire[i].used[2] \subseteq Reserved(wire[i])
  /\ \A t \in OnTheWay, i \in DOMAIN wire : Apart(hand[t], wire[i])

\* The console hands on data in the order of the numbers: each number that was taken
\* has left or is about to, unless the socket failed. One packet has it.
Numbers(s) == {p.number : p \in s} \ {0}
NumbersLeave ==
  /\ \A i, j \in DOMAIN wire : (i # j /\ wire[i].number # 0) => wire[i].number # wire[j].number
  /\ Cardinality((1..seq_num_local) \ Numbers(Packets)) <= failures

\* A lost microphone packet costs no frame: what it brought first comes in the next
\* one again. Only the first two frames, which wait for the third, are not sent so.
FramesTwice ==
  \A i, j \in DOMAIN wire :
     (i < j /\ wire[i].units # <<>> /\ wire[j].units # <<>> /\ \A l \in i + 1..j - 1 : wire[l].units = <<>>)
        => \E k \in DOMAIN wire[j].units : wire[j].units[k] = wire[i].units[1]

Safe == StreamUsedOnce /\ NumbersLeave /\ FramesTwice

-----------------------------------------------------------------------------
(* An inductive invariant                                                   *)

\* A piece ends where the next one may begin, a number is one that was taken, and
\* what encrypts is inside the piece.
Sound(p) ==
  /\ p.own => p.pos + p.size <= key_pos_local
  /\ p.number <= seq_num_local
  /\ p.used[1] > p.used[2] \/ (p.pos <= p.used[1] /\ p.used[2] < p.pos + p.size)
Separate(p, q) ==
  /\ (p.own /\ q.own) => (p.pos + p.size <= q.pos \/ q.pos + q.size <= p.pos)
  /\ p.number = 0 \/ p.number # q.number
PacketsSeparate ==
  /\ \A i \in DOMAIN wire : Sound(wire[i])
  /\ \A t \in OnTheWay : Sound(hand[t])
  /\ \A i, j \in DOMAIN wire : i # j => Separate(wire[i], wire[j])
  /\ \A t \in OnTheWay, i \in DOMAIN wire : Separate(hand[t], wire[i]) /\ Separate(wire[i], hand[t])
  /\ \A t, u \in OnTheWay : t # u => Separate(hand[t], hand[u])

\* Only frames of the microphone are sent without room, and each number was taken
\* for a packet.
Numbering == {t \in Threads : at[t] = "numbering"}
Counted ==
  /\ seq_num_local + Cardinality(Numbering) <= MaxSends
  /\ seq_num_local + Cardinality(Numbering) <= Len(wire) + failures + Cardinality(OnTheWay)
  /\ Len(wire) + failures + Cardinality(OnTheWay) <= MaxSends + frames

\* The last packet of the microphone brought the frame that is kept. When one did not
\* get a position, no later one does.
LastBrought ==
  \A i \in DOMAIN wire :
     wire[i].units # <<>> =>
        /\ framea # 0 /\ frameb # 0
        /\ \/ \E j \in DOMAIN wire : i < j /\ wire[j].units # <<>>
           \/ wire[i].units[1] = framea \/ Overflows(Reserves(MicSize))

Inv == TypeOK /\ PacketsSeparate /\ NumbersLeave /\ Counted /\ FramesTwice /\ LastBrought
=============================================================================
