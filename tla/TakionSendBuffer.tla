-------------------------- MODULE TakionSendBuffer --------------------------
(***************************************************************************)
(* The buffer of unacknowledged data packets of lib/src/takionsendbuffer.c *)
(* and its resend thread, driven as lib/src/takion.c drives it: any number *)
(* of threads send data packets, the Takion thread handles the peer's      *)
(* cumulative acknowledgements and in the end calls fini.                  *)
(*                                                                         *)
(* The critical sections of push and ack never wait, so each is one step   *)
(* that needs the mutex to be free; only the resend thread holds it across *)
(* steps.  Time passes in ticks of the resend thread's timed wait: "age"   *)
(* counts the ticks since a packet was last sent, up to DueAge, when       *)
(* TAKION_DATA_RESEND_TIMEOUT_MS have passed and it is sent again.         *)
(***************************************************************************)
EXTENDS SeqNum

CONSTANTS Senders,     \* threads in chiaki_takion_send_message_data(_cont)
          First,       \* the initial seq_num_local
          MaxSends,    \* bound: number of packets sent
          Size,        \* TAKION_SEND_BUFFER_SIZE
          MaxTries,    \* TAKION_DATA_RESEND_TRIES_MAX
          DueAge       \* ticks in TAKION_DATA_RESEND_TIMEOUT_MS

SendBufferAssumption ==
         /\ First \in SeqNums
         /\ MaxSends \in Nat /\ MaxSends < Half
         /\ Size \in Nat \ {0}
         /\ MaxTries \in Nat /\ DueAge \in Nat \ {0}

VARIABLES slots,       \* packets[0 .. packets_size-1], stale beyond count
          count,       \* packets_count
          should_stop,
          resend,      \* the resend thread: [pc, i, victim]
          fini,        \* the Takion thread in send_buffer_fini
          sender,      \* what each sender thread is about to do
          nextSeq,     \* seq_num_local
          sent,        \* history: packets handed to the socket
          received,    \* history: packets that reached the peer
          refused,     \* history: packets that found the buffer full
          waited,      \* history: packets waited in the buffer when fini began
          gaveUp       \* history: packets removed by the resend thread's own ack

finiVars == <<fini, waited>>
vars == <<slots, count, should_stop, resend, finiVars, sender, nextSeq, sent, received, refused, gaveUp>>

SlotIds == 0 .. Size - 1
NoPacket == [seq |-> First, tries |-> 0, age |-> 0]
Idle == [pc |-> "idle", seq |-> First]

Sequence(n) == Add(First, n)                      \* the n-th number, from 0
Used  == {Sequence(n) : n \in 0 .. MaxSends - 1}

Buffered == {slots[i].seq : i \in 0 .. count - 1}

\* The mutex is held by the resend thread between its waits, except around
\* the acknowledgement it gives itself when it gives up on a packet.
ResendHoldsMutex == resend.pc \in {"loop", "to_wait", "to_timedwait", "scan"}
MutexFree == ~ResendHoldsMutex

\* In the middle of a pass, whose idea of "now" was read before it began.  A
\* packet sent since then is newer than that: "now - last_send_ms" wraps, and
\* the packet counts as overdue.
PassSuspended == resend.pc \in {"giving_up", "victim", "relock"}

Init ==
  /\ slots = [i \in SlotIds |-> NoPacket]
  /\ count = 0
  /\ should_stop = FALSE
  /\ resend = [pc |-> "start", i |-> 0, victim |-> First]
  /\ fini = "no" /\ waited = FALSE
  /\ sender = [t \in Senders |-> Idle]
  /\ nextSeq = First
  /\ sent = {}
  /\ received = {}
  /\ refused = {}
  /\ gaveUp = {}

ResendAt(pc) == resend' = [resend EXCEPT !.pc = pc]

\* chiaki_cond_signal on the buffer's condition: wakes the thread if it waits.
Signal == resend' = [resend EXCEPT !.pc = CASE @ = "wait"      -> "woken"
                                            [] @ = "timedwait" -> "timed_woken"
                                            [] OTHER           -> @]

-----------------------------------------------------------------------------
(* chiaki_takion_send_message_data: number, send, push                     *)

TakeSeqNum(t) ==
  /\ sender[t].pc = "idle"
  /\ nextSeq \in Used
  /\ sender' = [sender EXCEPT ![t] = [pc |-> "numbered", seq |-> nextSeq]]
  /\ nextSeq' = Add(nextSeq, 1)
  /\ UNCHANGED <<slots, count, should_stop, resend, finiVars, sent, received, refused, gaveUp>>

Send(t) ==
  /\ sender[t].pc = "numbered"
  /\ sender' = [sender EXCEPT ![t].pc = "sent"]
  /\ sent' = sent \cup {sender[t].seq}
  /\ UNCHANGED <<slots, count, should_stop, resend, finiVars, nextSeq, received, refused, gaveUp>>

\* send() fails: the packet is freed and its number never used again.
SendFails(t) ==
  /\ sender[t].pc = "numbered"
  /\ sender' = [sender EXCEPT ![t] = Idle]
  /\ UNCHANGED <<slots, count, should_stop, resend, finiVars, nextSeq, sent, received, refused, gaveUp>>

\* Mutant: the limit is noticed one packet late.
FullTooLate == count > Size

Full == count >= Size

\* chiaki_takion_send_buffer_push; its result is ignored by the caller.
Push(t) ==
  /\ sender[t].pc = "sent"
  /\ MutexFree /\ fini # "joined"
  /\ sender' = [sender EXCEPT ![t] = Idle]
  /\ IF Full \/ sender[t].seq \in Buffered
     THEN /\ refused' = refused \cup {sender[t].seq}
          /\ UNCHANGED <<slots, count, resend>>
     ELSE /\ \E age \in IF PassSuspended THEN {0, DueAge} ELSE {0} :
               slots' = [slots EXCEPT ![count] =
                           [seq |-> sender[t].seq, tries |-> 0, age |-> age]]
          /\ count' = count + 1
          /\ IF count' = 1 THEN Signal ELSE UNCHANGED resend
          /\ UNCHANGED refused
  /\ UNCHANGED <<should_stop, finiVars, nextSeq, sent, received, gaveUp>>

-----------------------------------------------------------------------------
(* chiaki_takion_send_buffer_ack                                           *)

\* Mutant: compares the plain integers.
CoveredUnwrapped(s, c) == s <= c

Covered(s, c) == s = c \/ Lt(s, c)

Kept(c) == {i \in 0 .. count - 1 : ~Covered(slots[i].seq, c)}

\* The packets that stay are moved together in their order, the one of slot from[i]
\* to slot i; what lies beyond is left over.
Acknowledge(c) ==
  \E n \in 0 .. count : \E from \in [0 .. n - 1 -> Kept(c)] :
    /\ \A i, j \in 0 .. n - 1 : i < j => from[i] < from[j]
    /\ \A k \in Kept(c) : \E i \in 0 .. n - 1 : from[i] = k
    /\ slots' = [i \in SlotIds |-> IF i < n THEN slots[from[i]] ELSE slots[i]]
    /\ count' = n

\* The peer acknowledges c: it has got c and everything before it.
Acknowledgeable(c) == \A s \in Used : Le(s, c) => s \in received

HandleAck(c) ==
  /\ fini = "no"
  /\ MutexFree
  /\ c \in received /\ Acknowledgeable(c)
  /\ Acknowledge(c)
  /\ UNCHANGED <<should_stop, resend, finiVars, sender, nextSeq, sent, received, refused, gaveUp>>

-----------------------------------------------------------------------------
(* takion_send_buffer_thread_func                                          *)

ResendUnchanged == UNCHANGED <<should_stop, finiVars, sender, nextSeq, sent, received, refused>>

ResendStarts ==
  /\ resend.pc = "start"
  /\ ResendAt("loop")
  /\ ResendUnchanged /\ UNCHANGED <<slots, count, gaveUp>>

\* Mutant: only waits for packets, never for a deadline.
ResendLoopsUntimed ==
  /\ resend.pc = "loop"
  /\ ResendAt(IF should_stop THEN "done" ELSE "to_wait")
  /\ ResendUnchanged /\ UNCHANGED <<slots, count, gaveUp>>

\* Mutant: waits before it evaluates the predicate.
ResendLoopsBlindly ==
  /\ resend.pc = "loop"
  /\ ResendAt(IF count > 0 THEN "to_timedwait" ELSE "to_wait")
  /\ ResendUnchanged /\ UNCHANGED <<slots, count, gaveUp>>

\* Top of the loop: choose the wait by the number of packets, and evaluate
\* its predicate for the first time.
ResendLoops ==
  /\ resend.pc = "loop"
  /\ ResendAt(IF should_stop THEN "done"
              ELSE IF count > 0 THEN "to_timedwait" ELSE "to_wait")
  /\ ResendUnchanged /\ UNCHANGED <<slots, count, gaveUp>>

\* pthread_cond_(timed)wait releases the mutex.
ResendWaits ==
  /\ \/ resend.pc = "to_wait" /\ ResendAt("wait")
     \/ resend.pc = "to_timedwait" /\ ResendAt("timedwait")
  /\ ResendUnchanged /\ UNCHANGED <<slots, count, gaveUp>>

ResendTimesOut ==
  /\ resend.pc = "timedwait"
  /\ ResendAt("timed_out")
  /\ ResendUnchanged /\ UNCHANGED <<slots, count, gaveUp>>

ResendWakesSpuriously ==
  /\ resend.pc \in {"wait", "timedwait"}
  /\ Signal
  /\ ResendUnchanged /\ UNCHANGED <<slots, count, gaveUp>>

\* Back from the wait with the mutex: the predicate decides between another
\* wait, the end of the thread and a pass over the packets.
ResendWakes ==
  /\ resend' =
       CASE should_stop /\ resend.pc \in {"woken", "timed_woken", "timed_out"} ->
              [resend EXCEPT !.pc = "done"]
         [] ~should_stop /\ resend.pc = "woken" /\ count = 0 ->
              [resend EXCEPT !.pc = "to_wait"]
         [] ~should_stop /\ resend.pc = "timed_woken" ->
              [resend EXCEPT !.pc = "to_timedwait"]
         [] OTHER -> [resend EXCEPT !.pc = "scan", !.i = 0]
  /\ resend.pc \in {"woken", "timed_woken", "timed_out"}
  /\ ResendUnchanged /\ UNCHANGED <<slots, count, gaveUp>>

\* takion_send_buffer_resend, from index i up to the next packet to give up on.
Due(i) == slots[i].age = DueAge
Hopeless(i) == Due(i) /\ slots[i].tries >= MaxTries

ResendsUpTo(stop) ==
  /\ \A i \in resend.i .. stop - 1 : ~Hopeless(i)
  /\ slots' = [i \in SlotIds |->
                 IF i \in resend.i .. stop - 1 /\ Due(i)
                 THEN [slots[i] EXCEPT !.tries = @ + 1, !.age = 0]
                 ELSE slots[i]]

ResendScans ==
  /\ resend.pc = "scan"
  /\ \/ ResendsUpTo(count) /\ ResendAt("loop")
     \/ \E stop \in resend.i .. count - 1 :
          /\ Hopeless(stop) /\ ResendsUpTo(stop)
          /\ resend' = [resend EXCEPT !.pc = "giving_up", !.i = stop]
  /\ ResendUnchanged /\ UNCHANGED <<count, gaveUp>>

\* The mutex is released, and only then is the number read from the slot.
ResendReadsVictim ==
  /\ resend.pc = "giving_up"
  /\ resend' = [resend EXCEPT !.pc = "victim", !.victim = slots[resend.i].seq]
  /\ ResendUnchanged /\ UNCHANGED <<slots, count, gaveUp>>

\* It acknowledges that number to itself, everything before it included.
ResendAcksVictim ==
  /\ resend.pc = "victim"
  /\ Acknowledge(resend.victim)
  /\ gaveUp' = gaveUp \cup {s \in Buffered : Covered(s, resend.victim)}
  /\ ResendAt("relock")
  /\ ResendUnchanged

\* if(i > 0) i -= 1; continue; i++
ResendContinues ==
  /\ resend.pc = "relock"
  /\ resend' = [resend EXCEPT !.pc = "scan", !.i = IF @ > 0 THEN @ ELSE 1]
  /\ ResendUnchanged /\ UNCHANGED <<slots, count, gaveUp>>

ResendStep ==
  \/ ResendStarts \/ ResendLoops \/ ResendWaits \/ ResendTimesOut \/ ResendWakes
  \/ ResendScans \/ ResendReadsVictim \/ ResendAcksVictim \/ ResendContinues

-----------------------------------------------------------------------------
(* chiaki_takion_send_buffer_fini: no mutex around should_stop.            *)

FiniStops ==
  /\ fini = "no"
  /\ should_stop' = TRUE
  /\ fini' = "stopping"
  /\ waited' = (count > 0)
  /\ UNCHANGED <<slots, count, resend, sender, nextSeq, sent, received, refused, gaveUp>>

FiniSignals ==
  /\ fini = "stopping"
  /\ Signal
  /\ fini' = "joining"
  /\ UNCHANGED <<waited, slots, count, should_stop, sender, nextSeq, sent, received, refused, gaveUp>>

FiniJoins ==
  /\ fini = "joining" /\ resend.pc = "done"
  /\ fini' = "joined"
  /\ UNCHANGED <<waited, slots, count, should_stop, resend, sender, nextSeq, sent, received, refused, gaveUp>>

-----------------------------------------------------------------------------
(* The clock and the network                                               *)

Tick ==
  /\ ~PassSuspended
  /\ \E i \in 0 .. count - 1 : ~Due(i)
  /\ slots' = [i \in SlotIds |-> IF i < count /\ ~Due(i)
                                 THEN [slots[i] EXCEPT !.age = @ + 1] ELSE slots[i]]
  /\ UNCHANGED <<count, should_stop, resend, finiVars, sender, nextSeq, sent, received, refused, gaveUp>>

PeerReceives(s) ==
  /\ s \in sent \ received
  /\ received' = received \cup {s}
  /\ UNCHANGED <<slots, count, should_stop, resend, finiVars, sender, nextSeq, sent, refused, gaveUp>>

Next ==
  \/ \E t \in Senders : TakeSeqNum(t) \/ Send(t) \/ SendFails(t) \/ Push(t)
  \/ \E c \in Used : HandleAck(c)
  \/ ResendStep
  \/ ResendWakesSpuriously
  \/ FiniStops \/ FiniSignals \/ FiniJoins
  \/ Tick
  \/ \E s \in Used : PeerReceives(s)

\* The scheduler runs every thread that can run, and time passes.  The deadline
\* of a timed wait is absolute, so wake-ups in between do not put it off.
Fairness ==
  /\ WF_vars(ResendStep) /\ SF_vars(ResendTimesOut)
  /\ WF_vars(FiniSignals) /\ WF_vars(FiniJoins)
  /\ WF_vars(Tick)

Spec == Init /\ [][Next]_vars /\ Fairness

-----------------------------------------------------------------------------

Packet == [seq : SeqNums, tries : 0 .. MaxTries, age : 0 .. DueAge]
ResendStates ==
  [pc : {"start", "loop", "to_wait", "to_timedwait", "wait", "timedwait", "woken", "timed_woken",
         "timed_out", "scan", "giving_up", "victim", "relock", "done"},
   i : SlotIds \cup {Size}, victim : SeqNums]

\* Every variable has its type, and what the buffer holds never exceeds it.
TypeOK ==
  /\ slots \in [SlotIds -> Packet]
  /\ count \in 0 .. Size
  /\ should_stop \in BOOLEAN
  /\ resend \in ResendStates
  /\ fini \in {"no", "stopping", "joining", "joined"}
  /\ sender \in [Senders -> [pc : {"idle", "numbered", "sent"}, seq : SeqNums]]
  /\ nextSeq \in SeqNums
  /\ sent \subseteq Used /\ received \subseteq sent /\ refused \subseteq sent
  /\ gaveUp \subseteq Used

\* A packet the peer has not got is not forgotten: whoever sent it is about to
\* push it, or the buffer holds it for another try, unless the buffer was full
\* when it came or its tries are used up.  In particular no acknowledgement
\* removes a packet that the peer is still missing.
NothingForgotten ==
  \A s \in sent \ (received \cup gaveUp \cup refused) :
    s \in Buffered \/ \E t \in Senders : sender[t] = [pc |-> "sent", seq |-> s]

\* The inductive invariant: a thread has the number of what it sends, and the slot
\* of the packet that is given up exists.
Inv ==
  /\ TypeOK /\ NothingForgotten
  /\ \A i \in 0 .. count - 1 : slots[i].seq \in sent
  /\ \A t \in Senders : /\ sender[t].pc = "numbered" => sender[t].seq \in Used
                        /\ sender[t].pc = "sent" => sender[t].seq \in sent
  /\ resend.pc = "giving_up" => resend.i \in SlotIds

\* While the buffer is in use no packet stays in it for ever: it is acknowledged
\* or, after TAKION_DATA_RESEND_TRIES_MAX resends, given up.
Left(s) == s \notin Buffered \/ fini # "no"
PacketsLeave == \A s \in Used : []<>Left(s)

\* fini gets the resend thread to end when it begins while packets wait: the
\* thread is then in a timed wait at worst.
ReturnedIfWaited == waited => fini = "joined"
FiniReturnsIfPacketsWait == []<>ReturnedIfWaited

\* "so it will sleep without timeout => WAKE UP!!": fini wakes the thread too,
\* and returns once the thread has ended.
FiniReturns == fini = "stopping" ~> fini = "joined"
=============================================================================
