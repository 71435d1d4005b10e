-------------------------------- MODULE Rudp --------------------------------
(***************************************************************************)
(* lib/src/remote/rudp.c and rudpsendbuffer.c: the reliable datagrams that *)
(* carry the session request and the control messages when the console is  *)
(* reached through a hole punched in a NAT.                                *)
(*                                                                         *)
(* First requests are sent and answered in turn (chiaki_rudp_send_recv:    *)
(* Tries tries of a second, a late answer costs a try).  Then the ctrl and *)
(* the session thread send control messages, kept in a buffer that a       *)
(* thread sends again until the console's cumulative acknowledgement or    *)
(* until it gives up.  The network loses and delays; an acknowledgement    *)
(* may be delayed past newer ones.  The stop flag and the end of the       *)
(* thread are those of TakionSendBuffer and left out, as are malformed     *)
(* messages and allocations that fail.                                     *)
(***************************************************************************)
EXTENDS SeqNum, Sequences, FiniteSets

CONSTANTS Senders,    \* threads in chiaki_rudp_send_ctrl_message
          First,      \* the counter when control messages begin
          Messages,   \* bound: control messages
          Tries,      \* tries of send_recv
          Size,       \* RUDP_SEND_BUFFER_SIZE
          MaxTries    \* RUDP_DATA_RESEND_TRIES_MAX

RudpAssumption ==
  /\ ModulusAssumption /\ First \in SeqNums /\ Messages \in Nat /\ Messages < Half
  /\ Tries \in Nat /\ Size \in Nat /\ MaxTries \in Nat

VARIABLES phase, tries, answers,    \* the handshake, and answers under way
          asked,                    \* history: requests that reached the console
          counter, sender,          \* rudp->counter; what each thread is about to do
          packets,                  \* the send buffer
          victim,                   \* slot of a packet given up, 0 if none
          received, acks,           \* the console: counters it has; acknowledgements under way
          accepted, gaveUp, sentAs  \* history: packets accepted, given up; counter of a seq_num

handshake == <<phase, tries, answers, asked>>
vars == <<handshake, counter, sender, packets, victim, received, acks, accepted, gaveUp, sentAs>>

-----------------------------------------------------------------------------
(* The handshake of session_thread_request_session                          *)

Phases == <<"init", "cookie", "session", "finish">>
PhaseAfter(p) == CASE p = "init" -> "cookie" [] p = "cookie" -> "session"
                   [] p = "session" -> "finish" [] p = "finish" -> "ctrl"

InHandshake == phase \in {Phases[i] : i \in DOMAIN Phases}

Finished == IF phase = "finish" THEN "ctrl" ELSE "failed"   \* the last one may fail

\* A request goes out; if it arrives, an answer to it is under way.
SendRequest ==
  /\ InHandshake /\ sender["handshake"].pc = "idle"
  /\ IF tries = Tries
     THEN phase' = Finished /\ tries' = 0 /\ UNCHANGED <<answers, asked, sender, counter>>
     ELSE /\ tries' = tries + 1
          /\ sender' = [sender EXCEPT !["handshake"].pc = "wait"]
          /\ \/ answers' = answers \cup {phase} /\ asked' = asked \cup {phase}
             \/ UNCHANGED <<answers, asked>>
          /\ UNCHANGED <<phase, counter>>
  /\ UNCHANGED <<packets, victim, received, acks, accepted, gaveUp, sentAs>>

\* mutant: any answer will do
MatchesAny(answer) == TRUE

Matches(answer) == answer = phase

ReceiveAnswer ==
  /\ sender["handshake"].pc = "wait"
  /\ \E answer \in answers :
       /\ answers' \in {answers, answers \ {answer}}      \* it may come twice
       /\ IF Matches(answer) THEN phase' = PhaseAfter(phase) /\ tries' = 0
          ELSE UNCHANGED <<phase, tries>>
  /\ sender' = [sender EXCEPT !["handshake"].pc = "idle"]
  /\ UNCHANGED <<asked, counter, packets, victim, received, acks, accepted, gaveUp, sentAs>>

AnswerTimeout ==
  /\ sender["handshake"].pc = "wait"
  /\ sender' = [sender EXCEPT !["handshake"].pc = "idle"]
  /\ UNCHANGED <<handshake, counter, packets, victim, received, acks, accepted, gaveUp, sentAs>>

-----------------------------------------------------------------------------
(* Control messages.  The number a message carries is taken under the       *)
(* counter mutex; the number it is filed under is read after it             *)

Taken == Dist(First, counter)

TakeCounter(s) ==
  /\ phase = "ctrl" /\ sender[s].pc = "idle" /\ Taken < Messages
  /\ counter' = Add(counter, 1)
  /\ sender' = [sender EXCEPT ![s] = [pc |-> "number", counter |-> counter, seq |-> counter]]
  /\ UNCHANGED <<handshake, packets, victim, received, acks, accepted, gaveUp, sentAs>>

\* mutant: filed under the number it carries
FiledUnderOwn(s) == sender[s].counter

FiledUnder(s) == counter

\* Filed under a number, the message is sent once; it may arrive.
SendRaw(s) ==
  /\ sender[s].pc = "number"
  /\ sender' = [sender EXCEPT ![s] = [pc |-> "push", counter |-> sender[s].counter, seq |-> FiledUnder(s)]]
  /\ received' \in {received, received \cup {sender[s].counter}}
  /\ UNCHANGED <<handshake, counter, packets, victim, acks, accepted, gaveUp, sentAs>>

Push(s) ==
  /\ sender[s].pc = "push"
  /\ LET seq == sender[s].seq
         refused == Len(packets) >= Size \/ \E i \in DOMAIN packets : packets[i].seq = seq
     IN IF refused THEN UNCHANGED <<packets, accepted, sentAs>>
        ELSE /\ packets' = Append(packets, [seq |-> seq, tries |-> 0])
             /\ accepted' = accepted \cup {seq}
             /\ sentAs' = [sentAs EXCEPT ![seq] = sender[s].counter]
  /\ sender' = [sender EXCEPT ![s].pc = "idle"]
  /\ UNCHANGED <<handshake, counter, victim, received, acks, gaveUp>>

-----------------------------------------------------------------------------
(* The console: it acknowledges with the number after the last one that     *)
(* completes what it has                                                    *)

ConsoleAck ==
  /\ \E n \in 1 .. Messages :
       /\ \A i \in 0 .. n - 1 : Add(First, i) \in received
       /\ acks' = acks \cup {Add(First, n)}
  /\ UNCHANGED <<handshake, counter, sender, packets, victim, received, accepted, gaveUp, sentAs>>

Unacked(seq) == {i \in DOMAIN packets : Gt(packets[i].seq, seq)}

\* What an acknowledgement leaves is moved together in its order.
Acknowledge(seq) ==
  \E n \in 0 .. Len(packets) : \E from \in [1 .. n -> Unacked(seq)] :
    /\ \A i, j \in 1 .. n : i < j => from[i] < from[j]
    /\ \A k \in Unacked(seq) : \E i \in 1 .. n : from[i] = k
    /\ packets' = [i \in 1 .. n |-> packets[from[i]]]

\* chiaki_rudp_ack_packet on the ctrl thread; the acknowledgement may come again.
AckPacket ==
  /\ \E seq \in acks : Unacked(seq) # DOMAIN packets /\ Acknowledge(seq)
  /\ UNCHANGED <<handshake, counter, sender, victim, received, acks, accepted, gaveUp, sentAs>>

-----------------------------------------------------------------------------
(* The resend thread.  Every packet is due now and then                     *)

Resend ==
  /\ victim = 0
  /\ \E i \in DOMAIN packets :
       /\ packets[i].tries < MaxTries
       /\ packets' = [packets EXCEPT ![i].tries = @ + 1]
       /\ received' \in {received, received \cup {sentAs[packets[i].seq]}}
  /\ UNCHANGED <<handshake, counter, sender, victim, acks, accepted, gaveUp, sentAs>>

\* The mutex is released to give up on the packet in slot i ...
GiveUp ==
  /\ victim = 0
  /\ \E i \in DOMAIN packets : packets[i].tries >= MaxTries /\ victim' = i
  /\ UNCHANGED <<handshake, counter, sender, packets, received, acks, accepted, gaveUp, sentAs>>

\* ... whose number is read only then: an acknowledgement in between may have
\* moved another packet there, or left there what was moved away.
VictimSeqs == IF victim \in DOMAIN packets THEN {packets[victim].seq} ELSE accepted

GiveUpAck ==
  /\ victim # 0 /\ victim' = 0
  /\ \E seq \in VictimSeqs :
       /\ Acknowledge(seq)
       /\ gaveUp' = gaveUp \cup {packets[i].seq : i \in DOMAIN packets \ Unacked(seq)}
  /\ UNCHANGED <<handshake, counter, sender, received, acks, accepted, sentAs>>

-----------------------------------------------------------------------------
Init ==
  /\ phase = "init" /\ tries = 0 /\ answers = {} /\ asked = {}
  /\ counter = First /\ sender = [s \in Senders \cup {"handshake"} |-> [pc |-> "idle", counter |-> First, seq |-> First]]
  /\ packets = <<>> /\ victim = 0
  /\ received = {} /\ acks = {} /\ accepted = {} /\ gaveUp = {}
  /\ sentAs = [q \in SeqNums |-> First]

Handshake == SendRequest \/ ReceiveAnswer \/ AnswerTimeout

Next == \/ Handshake
        \/ \E s \in Senders : TakeCounter(s) \/ SendRaw(s) \/ Push(s)
        \/ ConsoleAck \/ AckPacket \/ Resend \/ GiveUp \/ GiveUpAck

Spec == Init /\ [][Next]_vars
FairSpec == Spec /\ WF_vars(Handshake)

-----------------------------------------------------------------------------
TypeOK ==
  /\ phase \in {Phases[i] : i \in DOMAIN Phases} \cup {"ctrl", "failed"}
  /\ tries \in 0 .. Tries /\ counter \in SeqNums /\ Len(packets) <= Size
  /\ \A i, j \in DOMAIN packets : i # j => packets[i].seq # packets[j].seq

\* A step of the handshake is only taken when the console was asked all the
\* ones before it, however many late answers are still under way.
InStep == \A i \in 1 .. 3 : (\E j \in i + 1 .. 4 : phase = Phases[j]) => Phases[i] \in asked

\* A message that send_ctrl_message accepted has arrived, or waits in the buffer,
\* or was given up: the two numbers of a message, late acknowledgements, and a
\* counter that wraps never let an acknowledgement remove one that was lost.
NothingForgotten ==
  \A seq \in accepted : \/ sentAs[seq] \in received
                        \/ \E i \in DOMAIN packets : packets[i].seq = seq
                        \/ seq \in gaveUp

Safe == InStep /\ NothingForgotten

\* The inductive invariant. A message is filed behind the number that it carries, so
\* that a number which completes what the console has covers it only if it arrived.
Offset(q) == Dist(First, q)
FiledBehind ==
  /\ \A s \in Senders : /\ sender[s].pc = "number" => Offset(sender[s].counter) < Taken
                        /\ sender[s].pc = "push" => /\ Offset(sender[s].counter) < Offset(sender[s].seq)
                                                    /\ Offset(sender[s].seq) <= Messages
  /\ \A q \in accepted : Offset(sentAs[q]) < Offset(q) /\ Offset(q) <= Messages
AcksAreTrue ==
  \A a \in acks : \E n \in 1 .. Messages :
    a = Add(First, n) /\ \A i \in 0 .. n - 1 : Add(First, i) \in received
Inv ==
  /\ TypeOK /\ Safe /\ FiledBehind /\ AcksAreTrue
  /\ answers \subseteq asked /\ asked \subseteq {Phases[i] : i \in DOMAIN Phases}
  /\ Taken <= Messages /\ accepted \subseteq SeqNums
  /\ packets \in Seq([seq : SeqNums, tries : Nat]) /\ \A i \in DOMAIN packets : packets[i].seq \in accepted
  /\ sentAs \in [SeqNums -> SeqNums]
  /\ sender \in [Senders \cup {"handshake"} ->
                   [pc : {"idle", "wait", "number", "push"}, counter : SeqNums, seq : SeqNums]]

\* Without the stop pipe, which nobody writes to, the handshake ends by its tries.
HandshakeOver == phase \in {"ctrl", "failed"}
HandshakeEnds == []<>HandshakeOver
=============================================================================
