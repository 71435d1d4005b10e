------------------------------- MODULE Takion -------------------------------
(***************************************************************************)
(* The Takion thread of lib/src/takion.c: the handshake, the main loop and *)
(* the end of a connection, against a console that is only assumed to      *)
(* answer INIT and COOKIE and to send its data packets in order.           *)
(*                                                                         *)
(* The network loses, duplicates and reorders: "net" holds every packet    *)
(* ever sent to this side, and any of them may arrive at any time, again   *)
(* or never.  A packet that fails its MAC or its header checks is freed    *)
(* without a trace, which is the same as being lost.                       *)
(*                                                                         *)
(* The thread touches its queues alone, and what it does between two waits *)
(* is one step: the top of the loop, and the handling of one packet with   *)
(* all the callbacks that this makes.                                      *)
(***************************************************************************)
EXTENDS ReorderQueueOps, Sequences

CONSTANTS First,          \* initial_seq_num of the console
          DataCount,      \* bound: number of data packets the console sends
          Bang,           \* the data packet whose callback sets gkcrypt_remote
          AvCount,        \* bound: number of AV packets the console sends
          MaxAvArrivals,  \* bound: number of AV packets that arrive
          EnableCrypt,    \* takion->enable_crypt
          MaxTries,       \* MAX_CONNECT_RESEND_TRIES
          PostponeSize,   \* TAKION_POSTPONE_PACKETS_SIZE
          Faults          \* which of "stop", "send", "recv", "setup", "reject" may happen

ASSUME TakionAssumption ==
         /\ First \in SeqNums
         /\ DataCount \in Nat /\ DataCount < Half
         /\ Bang \in 1 .. DataCount
         /\ AvCount \in Nat /\ MaxAvArrivals \in Nat
         /\ EnableCrypt \in BOOLEAN
         /\ MaxTries \in Nat \ {0} /\ PostponeSize \in Nat \ {0}

VARIABLES pc,          \* where the thread is
          tries,       \* attempts of the current handshake step
          stop,        \* the stop pipe has been written
          queue,       \* data_queue, of data packets named by their position
          crypt,       \* gkcrypt_remote is set
          crypt_available,
          postponed,   \* AV packets that wait for crypt, in order
          arrivals,    \* history: AV packets that arrived, in order
          lost,        \* how many packets were neither kept nor freed
          owner,       \* history: the last CONNECTED or DISCONNECT given to takion->cb
          dataCalls,   \* history: data packets given to takion->cb, in order
          avCalls,     \* history: AV packets given to takion->cb, in order
          ack,         \* the last cumulative acknowledgement sent, or Empty
          net          \* packets on the way to this side

dataVars == <<queue, crypt, dataCalls, ack>>
avVars == <<crypt_available, postponed, arrivals, lost, avCalls>>
loopVars == <<dataVars, avVars>>
vars == <<pc, tries, stop, owner, loopVars, net>>

Number(i) == Add(First, i - 1)                  \* of the i-th data packet, from 1

InitAck(ok) == [type |-> "init_ack", ok |-> ok]
CookieAck == [type |-> "cookie_ack"]
Data(i) == [type |-> "data", n |-> i]
Av(k)   == [type |-> "av", n |-> k]

Init ==
  /\ pc = "send_init" /\ tries = 0 /\ stop = FALSE
  /\ queue = NewQueue(First)
  /\ crypt = FALSE /\ crypt_available = FALSE
  /\ postponed = <<>> /\ arrivals = <<>> /\ lost = 0
  /\ owner = "none" /\ dataCalls = <<>> /\ avCalls = <<>>
  /\ ack = Empty /\ net = {}

-----------------------------------------------------------------------------
(* The console (external).  It has got INIT or COOKIE if it answers.       *)

ConsoleUnchanged == UNCHANGED <<pc, tries, stop, owner, loopVars>>

ConsoleAnswersInit(ok) ==
  /\ pc = "wait_init_ack"
  /\ ok \/ "reject" \in Faults
  /\ net' = net \cup {InitAck(ok)}
  /\ ConsoleUnchanged

ConsoleAnswersCookie ==
  /\ pc \in {"wait_cookie_ack", "wait_next_packet"}
  /\ net' = net \cup {CookieAck}
  /\ ConsoleUnchanged

ConsoleSendsData(i) ==
  /\ CookieAck \in net
  /\ i > 1 => Data(i - 1) \in net
  /\ net' = net \cup {Data(i)}
  /\ ConsoleUnchanged

ConsoleSendsAv(k) ==
  /\ Data(Bang) \in net
  /\ k > 1 => Av(k - 1) \in net
  /\ net' = net \cup {Av(k)}
  /\ ConsoleUnchanged

-----------------------------------------------------------------------------
(* takion_handshake                                                        *)

HandshakeUnchanged == UNCHANGED <<stop, loopVars, owner, net>>

SendInit ==
  /\ pc = "send_init"
  /\ pc' = "wait_init_ack"
  /\ UNCHANGED tries /\ HandshakeUnchanged

\* Failing to send INIT or COOKIE is not tried again.
HandshakeSendFails ==
  /\ pc \in {"send_init", "send_cookie"} /\ "send" \in Faults
  /\ pc' = "ending"
  /\ UNCHANGED tries /\ HandshakeUnchanged

\* Timeout, cancellation or anything but a proper answer: try again from "send",
\* or give up.
Retry(send) ==
  /\ tries' = IF tries + 1 < MaxTries THEN tries + 1 ELSE 0
  /\ pc' = IF tries + 1 < MaxTries THEN send ELSE "ending"

InitAckMissing ==
  /\ pc = "wait_init_ack"
  /\ Retry("send_init")
  /\ HandshakeUnchanged

\* An INIT_ACK with tag 0 or unusable stream counts ends the attempt for good.
ReceiveInitAck(ok) ==
  /\ pc = "wait_init_ack" /\ ~stop
  /\ InitAck(ok) \in net
  /\ tries' = 0
  /\ pc' = IF ok THEN "send_cookie" ELSE "ending"
  /\ HandshakeUnchanged

SendCookie ==
  /\ pc = "send_cookie"
  /\ pc' = "wait_cookie_ack"
  /\ UNCHANGED tries /\ HandshakeUnchanged

\* Of any packet only byte 13 is compared with INIT_ACK, which that byte of an
\* AV packet may happen to be; the next packet is then read instead.
ReceiveInitAckAgain ==
  /\ pc = "wait_cookie_ack" /\ ~stop
  /\ \E m \in net : m.type \in {"init_ack", "av"}
  /\ pc' = "wait_next_packet"
  /\ UNCHANGED tries /\ HandshakeUnchanged

CookieAckMissing ==
  /\ pc \in {"wait_cookie_ack", "wait_next_packet"}
  /\ Retry("send_cookie")
  /\ HandshakeUnchanged

ReceiveCookieAck ==
  /\ pc \in {"wait_cookie_ack", "wait_next_packet"} /\ ~stop
  /\ CookieAck \in net
  /\ pc' = "connected"
  /\ UNCHANGED tries /\ HandshakeUnchanged

-----------------------------------------------------------------------------
(* takion_thread_func                                                      *)

\* The queue and the send buffer are set up, and CONNECTED is reported.
EnterLoop ==
  /\ pc = "connected"
  /\ pc' = "top"
  /\ owner' = "connected"
  /\ UNCHANGED <<tries, stop, loopVars, net>>

SetupFails ==
  /\ pc = "connected" /\ "setup" \in Faults
  /\ pc' = "ending"
  /\ UNCHANGED <<tries, stop, owner, loopVars, net>>

CryptSwitch == EnableCrypt /\ crypt /\ ~crypt_available

\* The re-check of what the data queue holds passes NULL for the number that
\* chiaki_reorder_queue_peek writes when it finds an element.
RecheckCrashes ==
  /\ pc = "top" /\ CryptSwitch
  /\ Elements(queue) # {}
  /\ pc' = "crashed"
  /\ UNCHANGED <<tries, stop, owner, loopVars, net>>

\* Mutant: packets are still kept back in the round in which crypt comes up.
FlushesPostponedLate == crypt /\ crypt_available

FlushesPostponed == crypt

\* Back at the top: note that crypt has become available, handle what has been
\* postponed, and wait for the next packet.
LoopTop ==
  /\ pc = "top"
  /\ CryptSwitch => Elements(queue) = {}
  /\ crypt_available' = (crypt_available \/ CryptSwitch)
  /\ IF FlushesPostponed
     THEN avCalls' = avCalls \o postponed /\ postponed' = <<>>
     ELSE UNCHANGED <<avCalls, postponed>>
  /\ pc' = "recv"
  /\ UNCHANGED <<tries, stop, owner, dataVars, arrivals, lost, net>>


\* chiaki_stop_pipe_select_single prefers the stop pipe to the socket.
MayReceive == pc = "recv" /\ ~stop

RecvCanceled ==
  /\ pc = "recv" /\ stop
  /\ pc' = "ending"
  /\ UNCHANGED <<tries, stop, owner, loopVars, net>>

RecvFails ==
  /\ pc = "recv" /\ "recv" \in Faults
  /\ pc' = "ending"
  /\ UNCHANGED <<tries, stop, owner, loopVars, net>>

\* What takion_flush_data_queue pulls: everything up to the first gap.
ReadyCount(q) ==
  CHOOSE k \in 0 .. q.count :
    /\ \A j \in 0 .. k - 1 : EntryAt(q, Add(q.begin, j)) # Empty
    /\ k < q.count => EntryAt(q, Add(q.begin, k)) = Empty

\* Mutant: an element is handled but stays at the front.
FlushedHalfway(q) == q

Flushed(q) == [begin |-> Add(q.begin, ReadyCount(q)),
               count |-> q.count - ReadyCount(q),
               slots |-> q.slots]

\* Mutant: acknowledges the highest number seen.
CumulativeHighest(q) == Add(End(q), M - 1)

\* The number that was pulled last.
Cumulative(q) == Add(q.begin, ReadyCount(q) - 1)

ReceiveData(i) ==
  /\ MayReceive
  /\ Data(i) \in net
  /\ ~AssertFails(queue, Number(i))
  /\ LET q == Pushed(queue, Number(i), i, "end")
         ready == [j \in 1 .. ReadyCount(q) |-> EntryAt(q, Add(q.begin, j - 1))]
     IN  /\ queue' = Flushed(q)
         /\ dataCalls' = dataCalls \o ready
         /\ crypt' = (crypt \/ Bang \in {ready[j] : j \in DOMAIN ready})
         /\ ack' = IF ready # <<>> THEN Cumulative(q) ELSE ack
  /\ pc' = "top"
  /\ UNCHANGED <<tries, stop, owner, avVars, net>>

MustPostpone == EnableCrypt /\ ~crypt

\* Mutant: the last place is written twice.
PostponeFullLate == Len(postponed) > PostponeSize

PostponeFull == Len(postponed) >= PostponeSize

\* An AV packet is handled, postponed, or forgotten if there is no space.
ReceiveAv(k) ==
  /\ MayReceive
  /\ Av(k) \in net
  /\ Len(arrivals) + lost < MaxAvArrivals
  /\ IF ~MustPostpone
     THEN avCalls' = Append(avCalls, k) /\ UNCHANGED <<postponed, lost>>
     ELSE IF PostponeFull THEN lost' = lost + 1 /\ UNCHANGED <<avCalls, postponed>>
     ELSE postponed' = Append(postponed, k) /\ UNCHANGED <<avCalls, lost>>
  /\ arrivals' = IF lost' = lost THEN Append(arrivals, k) ELSE arrivals
  /\ pc' = "top"
  /\ UNCHANGED <<tries, stop, owner, dataVars, crypt_available, net>>

\* Mutant: an unsuccessful handshake is not reported.
FinishQuietly ==
  /\ pc = "ending"
  /\ pc' = "ended"
  /\ owner' = IF owner = "none" THEN "none" ELSE "disconnected"
  /\ UNCHANGED <<tries, stop, loopVars, net>>

\* Out of the loop or the handshake: the queues are freed, what has been
\* postponed is not, and DISCONNECT is reported.
Finish ==
  /\ pc = "ending"
  /\ pc' = "ended"
  /\ owner' = "disconnected"
  /\ UNCHANGED <<tries, stop, loopVars, net>>

\* chiaki_takion_close, which then joins the thread.
Close ==
  /\ "stop" \in Faults
  /\ ~stop
  /\ stop' = TRUE
  /\ UNCHANGED <<pc, tries, owner, loopVars, net>>

Handshake ==
  \/ SendInit \/ InitAckMissing \/ SendCookie \/ CookieAckMissing \/ HandshakeSendFails
  \/ ReceiveInitAckAgain \/ ReceiveCookieAck
  \/ \E ok \in BOOLEAN : ReceiveInitAck(ok)

ReceivePacket ==
  \/ \E i \in 1 .. DataCount : ReceiveData(i)
  \/ \E k \in 1 .. AvCount : ReceiveAv(k)

ThreadStep ==
  \/ Handshake \/ EnterLoop \/ SetupFails
  \/ RecheckCrashes \/ LoopTop
  \/ RecvCanceled \/ RecvFails \/ ReceivePacket
  \/ Finish

Console ==
  \/ \E ok \in BOOLEAN : ConsoleAnswersInit(ok)
  \/ ConsoleAnswersCookie
  \/ \E i \in 1 .. DataCount : ConsoleSendsData(i)
  \/ \E k \in 1 .. AvCount : ConsoleSendsAv(k)

Next == ThreadStep \/ Console \/ Close

\* The data packet that comes next in order.
ReceiveNextData ==
  \E i \in 1 .. DataCount : queue.begin = Number(i) /\ ReceiveData(i)

\* The thread runs whenever it can, waits of the handshake end after
\* TAKION_EXPECT_TIMEOUT_MS, and the console repeats the data packet it is
\* missing an acknowledgement for so often that one of the copies arrives.
Fairness == WF_vars(ThreadStep) /\ SF_vars(ReceiveNextData)

Spec == Init /\ [][Next]_vars /\ Fairness

-----------------------------------------------------------------------------

\* Every variable has its type, and the queues stay within their limits.
TypeOK ==
  /\ pc \in {"send_init", "wait_init_ack", "send_cookie", "wait_cookie_ack",
             "wait_next_packet", "connected", "top", "recv", "ending", "ended", "crashed"}
  /\ tries \in 0 .. MaxTries - 1
  /\ stop \in BOOLEAN /\ crypt \in BOOLEAN /\ crypt_available \in BOOLEAN
  /\ queue \in [begin : SeqNums, count : 0 .. QueueSize,
                slots : [SlotIds -> 1 .. DataCount \cup {Empty}]]
  /\ postponed \in Seq(1 .. AvCount) /\ Len(postponed) <= PostponeSize
  /\ arrivals \in Seq(1 .. AvCount) /\ lost \in Nat
  /\ owner \in {"none", "connected", "disconnected"}
  /\ dataCalls \in Seq(1 .. DataCount) /\ avCalls \in Seq(1 .. AvCount)
  /\ ack \in SeqNums \cup {Empty}

\* However the network loses, repeats and reorders them, the data packets are
\* handed to the callback in order, without a gap, and each of them once.
DataInOrderOnce == \A j \in DOMAIN dataCalls : dataCalls[j] = j

\* A cumulative acknowledgement tells the console to forget a packet and all
\* before it, so it must cover only what has been handed to the callback.
AcksOnlyHandled ==
  \A i \in 1 .. DataCount :
    (ack # Empty /\ Le(Number(i), ack)) => \E j \in DOMAIN dataCalls : dataCalls[j] = i

\* AV packets are handled in the order of their arrival, with those that had to
\* wait for crypt before any that came later; what is not handled yet waits.
AvInArrivalOrder == avCalls \o postponed = arrivals

\* The owner hears of the connection before anything else, of its end in any
\* case, and of nothing after that.
CallbackProtocol ==
  [][/\ dataCalls' # dataCalls \/ avCalls' # avCalls => owner = "connected"
     /\ pc' = "ended" <=> owner' = "disconnected"]_vars


\* Data packets that the console keeps sending are handed to the callback as
\* long as the connection lasts, also those that first came too far ahead.
DataArrives ==
  (pc = "recv" /\ Data(DataCount) \in net) ~>
    (pc \in {"ended", "crashed"} \/ Len(dataCalls) = DataCount)

\* "Crypt has become available. Re-checking MACs of %llu packets": the re-check
\* gets through whatever the queue holds at that time.
RecheckSurvives == pc # "crashed"
=============================================================================
