------------------------------- MODULE Holepunch -------------------------------
(***************************************************************************)
(* lib/src/remote/holepunch.c: a session with a console over PSN. One      *)
(* thread (the client's worker, later the session thread) creates the      *)
(* session on PSN's server, starts the console and exchanges OFFER, RESULT *)
(* and ACCEPT with it for two holes, ctrl and data; the websocket thread   *)
(* files what the server pushes in a queue. The user may cancel, and       *)
(* chiaki_holepunch_session_fini ends it all. The search for a candidate   *)
(* that answers is CheckCandidates.                                        *)
(***************************************************************************)
EXTENDS Naturals, Sequences, SequencesExt, FiniteSets

CONSTANTS MaxOffers,   \* OFFERs the console sends for one hole (it repeats them)
          MaxFaults    \* malformed pushes, failed requests and broken websockets

Ports == {"ctrl", "data"}

VARIABLES flags,       \* session->state, without the flags nobody reads
          at, port,    \* the main thread: where it is, and for which hole
          req,         \* local_req_id
          offer_id,    \* our_offer_req_id
          result,      \* how the main thread returned
          stop,        \* main_should_stop
          leaked,      \* it returned and kept state_mutex
          queue,       \* ws_notification_queue
          ws, hand,    \* the websocket thread, and the push it holds
          wire,        \* pushes on their way
          ws_stop,     \* ws_thread_should_stop and select_pipe
          inbox,       \* messages of ours that reached the console
          answered,    \* those it sent a RESULT for
          offers,      \* OFFERs the console sent per hole
          accepts,     \* holes it sent ACCEPT for
          acked,       \* OFFERs we acknowledged
          unanswered,  \* OFFERs thrown away without
          fini,        \* chiaki_holepunch_session_fini
          faults
main == <<flags, at, port, req, offer_id, result, stop, leaked>>
socket == <<ws, hand, ws_stop>>
console == <<inbox, answered, offers, accepts>>
vars == <<main, queue, socket, wire, console, acked, unanswered, fini, faults>>

Push(type, what, id) == [type |-> type, what |-> what, id |-> id]
None == Push("none", "none", 0)

Go(next) == at' = next /\ UNCHANGED <<result, stop>>
Out(r) == at' = "out" /\ result' = r /\ UNCHANGED stop

\* The check that follows most steps: the flag is taken back.
Canceled == at' = "out" /\ result' = "canceled" /\ stop' = FALSE
GoUnlessStopped(next) == IF stop THEN Canceled ELSE Go(next)

\* An HTTP request that fails.
Fails == /\ faults < MaxFaults /\ faults' = faults + 1 /\ Out("failed")

-----------------------------------------------------------------------------
(* The main thread                                                          *)

\* get_websocket_fqdn, then the websocket thread is created.
Open == /\ at = "fresh"
        /\ \/ /\ Fails /\ UNCHANGED ws
           \/ /\ GoUnlessStopped("opening") /\ UNCHANGED faults
              /\ ws' = IF stop THEN ws ELSE "connecting"
        /\ UNCHANGED <<flags, port, req, offer_id, leaked, queue, hand, ws_stop, wire, console, acked, unanswered, fini>>

Still == UNCHANGED <<socket, acked, unanswered, fini>>
Own == UNCHANGED <<port, req, offer_id>>

\* A signal can come just before the wait begins: then it runs out.
Opening == /\ at = "opening"
           /\ \/ "ws" \in flags /\ GoUnlessStopped("request")
              \/ stop /\ Canceled
              \/ Out("timeout")
           /\ Still /\ Own /\ UNCHANGED <<flags, leaked, queue, wire, console, faults>>

\* The server tells of two things in any order, readably or not.
Tells(things, who) ==
  \E s \in SetToSeqs(things), bad \in SUBSET {1, 2} :
    /\ faults + Cardinality(bad) <= MaxFaults /\ faults' = faults + Cardinality(bad)
    /\ wire' = wire \o [i \in {1, 2} |-> Push(s[i], IF i \in bad THEN "bad" ELSE who, 0)]

HttpCreate ==
  /\ at = "request"
  /\ \/ Fails /\ UNCHANGED wire
     \/ GoUnlessStopped("creation") /\ Tells({"created", "member"}, "client")
  /\ Still /\ Own /\ UNCHANGED <<flags, leaked, queue, console>>

\* wait_for_notification from the front of the queue; a stop is seen only
\* when the thread has waited.
IndexOf(types) == SelectInSeq(queue, LAMBDA n : n.type \in types)
\* mutant: the wait neither runs out nor looks at the stop
WaitsOn == FALSE
WaitEnds == (stop /\ Canceled) \/ Out("timeout")

FlagOf(n) == CASE n.type # "member" -> n.type
               [] at = "creation"   -> "joined"
               [] OTHER             -> "console"

\* A wait for two notifications. The flag is set under state_mutex, and the
\* stop is looked at while it is held: that end keeps the mutex, and in
\* session_create also the end for content that cannot be read.
Awaits(here, types, read, wanted, next, bad_leaks) ==
  /\ at = here
  /\ \/ WaitEnds /\ UNCHANGED <<flags, leaked, queue>>
     \/ LET i == IndexOf(types)
        IN /\ i > 0 /\ ~leaked
           /\ IF queue[i].what = "bad" /\ queue[i].type \in read
              THEN Out("failed") /\ leaked' = bad_leaks /\ UNCHANGED <<flags, queue>>
              ELSE /\ flags' = flags \union {FlagOf(queue[i])}
                   /\ queue' = IF stop /\ bad_leaks THEN queue ELSE RemoveAt(queue, i)
                   /\ leaked' = stop
                   /\ GoUnlessStopped(IF wanted \subseteq flags' THEN next ELSE here)
  /\ Still /\ Own /\ UNCHANGED <<wire, console, faults>>

Creation == Awaits("creation", {"created", "member"}, {"created"}, {"created", "joined"}, "prepare", TRUE)
Starting == Awaits("starting", {"member", "data1"}, {"member", "data1"}, {"console", "data1"}, "punch", FALSE)

\* holepunch_session_create_offer: sockets, addresses and a number that the
\* OFFER does not use in the end.
CreateOffer ==
  /\ at = "prepare"
  /\ req' = req + 1
  /\ \/ Fails
     \/ Go(IF port = "ctrl" THEN "start" ELSE "punch") /\ UNCHANGED faults
  /\ Still /\ UNCHANGED <<flags, port, offer_id, leaked, queue, wire, console>>

\* http_start_session or http_ps4_session_wakeup; the console joins.
HttpStart ==
  /\ at = "start"
  /\ \/ Fails /\ UNCHANGED wire
     \/ GoUnlessStopped("starting") /\ Tells({"member", "data1"}, "console")
  /\ Still /\ Own /\ UNCHANGED <<flags, leaked, queue, console>>

Punch == /\ at = "punch"
         /\ IF (IF port = "ctrl" THEN "data1" ELSE "ctrl") \in flags THEN Go("offer") ELSE Out("failed")
         /\ Still /\ Own /\ UNCHANGED <<flags, leaked, queue, wire, console, faults>>

\* wait_for_session_message: messages of other kinds are thrown away, one of
\* the kind that is waited for stays in the queue.
WaitsFor(here, action) ==
  /\ at = here
  /\ \/ WaitEnds /\ UNCHANGED <<queue, unanswered>>
     \/ LET i == IndexOf({"message"}) n == queue[i]
        IN /\ i > 0
           /\ \/ stop /\ Canceled /\ UNCHANGED <<queue, unanswered>>
              \/ ~stop /\ n.what = "bad" /\ Out("failed") /\ UNCHANGED <<queue, unanswered>>
              \/ ~stop /\ n.what = "TERMINATE" /\ Out("canceled") /\ UNCHANGED <<queue, unanswered>>
              \/ /\ ~stop /\ n.what \notin {"bad", "TERMINATE", action}
                 /\ queue' = RemoveAt(queue, i) /\ Go(here)
                 /\ unanswered' = IF n.what = "OFFER" /\ n.id \notin acked
                                  THEN unanswered \union {n.id} ELSE unanswered

Match(action) == ~stop /\ IndexOf({"message"}) > 0 /\ queue[IndexOf({"message"})].what = action
Matched == queue[IndexOf({"message"})]

TakeOffer ==
  \/ WaitsFor("offer", "OFFER") /\ Own /\ UNCHANGED <<flags, leaked, socket, acked, fini, wire, console, faults>>
  \/ /\ at = "offer" /\ Match("OFFER") /\ ~leaked /\ Go("acknowledge")
     /\ flags' = flags \union {port \o " offer"}
     /\ Still /\ Own /\ UNCHANGED <<leaked, queue, wire, console, faults>>

\* RESULT for the OFFER that is still at the front, then our own OFFER, whose
\* failure is not looked at.
AckOffer ==
  /\ at = "acknowledge"
  /\ \/ Fails /\ UNCHANGED acked
     \/ GoUnlessStopped("send offer") /\ UNCHANGED faults /\ acked' = acked \union {Matched.id}
  /\ Own /\ UNCHANGED <<flags, leaked, queue, wire, console, socket, unanswered, fini>>

SendOffer ==
  /\ at = "send offer" /\ Go("result")
  /\ offer_id' = req /\ req' = req + 1
  /\ \/ inbox' = inbox \union {[kind |-> "OFFER", id |-> req, port |-> port]} /\ UNCHANGED faults
     \/ faults < MaxFaults /\ faults' = faults + 1 /\ UNCHANGED inbox
  /\ Still /\ UNCHANGED <<flags, port, leaked, queue, wire, answered, offers, accepts>>

\* mutant: any RESULT is taken for the one of the OFFER
AnyResult == TRUE
OwnResult == Matched.id = offer_id

\* wait_for_session_message_ack: a RESULT with another number is met again at once.
TakeResult ==
  \/ WaitsFor("result", "RESULT") /\ Own /\ UNCHANGED <<flags, leaked, socket, acked, fini, wire, console, faults>>
  \/ /\ at = "result" /\ Match("RESULT")
     /\ Go(IF OwnResult THEN "check" ELSE "result")
     /\ Still /\ Own /\ UNCHANGED <<flags, leaked, queue, wire, console, faults>>

\* check_candidates does not look at the stop.
Check == /\ at = "check"
         /\ \/ Fails
            \/ GoUnlessStopped("accept") /\ UNCHANGED faults
         /\ Still /\ Own /\ UNCHANGED <<flags, leaked, queue, wire, console>>

SendAccept ==
  /\ at = "accept"
  /\ \/ Fails /\ UNCHANGED <<inbox, req>>
     \/ /\ GoUnlessStopped("accepted") /\ UNCHANGED faults
        /\ inbox' = inbox \union {[kind |-> "ACCEPT", id |-> req, port |-> port]}
        /\ req' = IF stop THEN req ELSE req + 1
  /\ Still /\ UNCHANGED <<flags, port, offer_id, leaked, queue, wire, answered, offers, accepts>>

TakeAccept ==
  \/ WaitsFor("accepted", "ACCEPT") /\ Own /\ UNCHANGED <<flags, leaked, socket, acked, fini, wire, console, faults>>
  \/ /\ at = "accepted" /\ Match("ACCEPT") /\ Go("establish")
     /\ Still /\ Own /\ UNCHANGED <<flags, leaked, queue, wire, console, faults>>

\* RESULT for the ACCEPT, the flag, the last answers to the console's requests.
\* The client's worker returns, and the session thread goes on with the data hole.
Establish ==
  /\ at = "establish"
  /\ \/ Fails /\ UNCHANGED <<flags, port>>
     \/ stop /\ Canceled /\ UNCHANGED <<flags, port, faults>>
     \/ /\ ~stop /\ flags' = flags \union {port}
        /\ \/ Fails /\ UNCHANGED port
           \/ /\ UNCHANGED faults /\ port' = "data"
              /\ IF port = "ctrl" THEN Go("prepare") ELSE Out("success")
  /\ Still /\ UNCHANGED <<req, offer_id, leaked, queue, wire, console>>

-----------------------------------------------------------------------------
(* The websocket thread                                                     *)

WsRest == UNCHANGED <<at, port, req, offer_id, result, stop, leaked, ws_stop, console, unanswered, fini>>

WsConnects ==
  /\ ws = "connecting"
  /\ \/ ws' = "run" /\ flags' = flags \union {"ws"} /\ UNCHANGED faults
     \/ faults < MaxFaults /\ faults' = faults + 1 /\ ws' = "done" /\ UNCHANGED flags
  /\ WsRest /\ UNCHANGED <<queue, hand, wire, acked>>

\* The flag or the pipe; a PONG that does not come, a close, a failed send.
WsEnds == /\ ws = "run"
          /\ \/ ws_stop /\ UNCHANGED faults
             \/ faults < MaxFaults /\ faults' = faults + 1
          /\ ws' = "done" /\ WsRest /\ UNCHANGED <<flags, queue, hand, wire, acked>>

WsReceives == /\ ws = "run" /\ wire # <<>>
              /\ ws' = "judge" /\ hand' = Head(wire) /\ wire' = Tail(wire)
              /\ WsRest /\ UNCHANGED <<flags, queue, acked, faults>>

ShouldAck == ("ctrl offer" \in flags /\ "ctrl" \notin flags) \/ "data offer" \in flags

\* Under state_mutex; the RESULT and the queue come after it.
WsJudges ==
  /\ ws = "judge" /\ ~leaked
  /\ LET acks == ShouldAck /\ hand.type = "message"
     IN /\ ws' = IF acks /\ hand.what = "bad" THEN "run" ELSE "file"
        /\ hand' = IF ws' = "run" THEN None ELSE hand
        /\ acked' = IF acks /\ hand.what = "OFFER" THEN acked \union {hand.id} ELSE acked
  /\ WsRest /\ UNCHANGED <<flags, queue, wire, faults>>

WsFiles == /\ ws = "file"
           /\ queue' = Append(queue, hand) /\ hand' = None
           /\ ws' = IF hand.type = "deleted" THEN "done" ELSE "run"
           /\ WsRest /\ UNCHANGED <<flags, wire, acked, faults>>

-----------------------------------------------------------------------------
(* The console and the server                                               *)

Pushes(n) == \/ wire' = Append(wire, n) /\ UNCHANGED faults
             \/ faults < MaxFaults /\ faults' = faults + 1 /\ wire' = Append(wire, [n EXCEPT !.what = "bad"])
World == UNCHANGED <<main, queue, socket, acked, unanswered, fini>>

ConsoleOffers ==
  \E p \in Ports :
    /\ offers[p] < MaxOffers
    /\ IF p = "ctrl" THEN "joined" \in flags /\ at \notin {"fresh", "prepare", "start"} ELSE "ctrl" \in accepts
    /\ offers' = [offers EXCEPT ![p] = @ + 1]
    /\ Pushes(Push("message", "OFFER", offers[p] + (IF p = "ctrl" THEN 1 ELSE MaxOffers + 1)))
    /\ World /\ UNCHANGED <<inbox, answered, accepts>>

ConsoleResults == \E m \in inbox \ answered :
                    /\ answered' = answered \union {m} /\ Pushes(Push("message", "RESULT", m.id))
                    /\ World /\ UNCHANGED <<inbox, offers, accepts>>

ConsoleAccepts == \E m \in inbox :
                    /\ m.port \notin accepts /\ accepts' = accepts \union {m.port}
                    /\ Pushes(Push("message", "ACCEPT", 0))
                    /\ World /\ UNCHANGED <<inbox, answered, offers>>

ConsoleTerminates == /\ "joined" \in flags /\ faults < MaxFaults /\ faults' = faults + 1
                     /\ wire' = Append(wire, Push("message", "TERMINATE", 0))
                     /\ World /\ UNCHANGED console

-----------------------------------------------------------------------------
(* The user and the end                                                     *)

\* chiaki_holepunch_main_thread_cancel
Cancel == /\ fini = "no" /\ at # "out" /\ ~stop /\ stop' = TRUE
          /\ ws_stop' \in {ws_stop, TRUE}
          /\ UNCHANGED <<flags, at, port, req, offer_id, result, leaked, queue, ws, hand, wire, console, acked, unanswered, fini, faults>>

FiniRest == UNCHANGED <<flags, at, port, req, offer_id, result, leaked, queue, ws, hand, console, acked, unanswered, faults>>

\* The thread is told to stop before the session is deleted, so that the
\* notification of it seldom arrives.
FiniBegins == /\ fini = "no" /\ at = "out" /\ ws_stop' = TRUE
              /\ IF ws \in {"run", "judge", "file"}
                 THEN fini' = "wait" /\ wire' \in {wire, Append(wire, Push("deleted", "client", 0))}
                 ELSE fini' = "join" /\ UNCHANGED wire
              /\ FiniRest /\ UNCHANGED stop

FiniWaits == /\ fini = "wait"
             /\ \/ IndexOf({"deleted"}) > 0 /\ ~leaked
                \/ IndexOf({"deleted"}) = 0
             /\ fini' = "join" /\ stop' = FALSE /\ FiniRest /\ UNCHANGED <<ws_stop, wire>>

\* A thread that was never created is joined as well: undefined.
FiniJoins == /\ fini = "join" /\ ws \in {"done", "none"}
             /\ fini' = IF ws = "done" THEN "done" ELSE "undefined"
             /\ FiniRest /\ UNCHANGED <<stop, ws_stop, wire>>

-----------------------------------------------------------------------------
Init == /\ flags = {} /\ at = "fresh" /\ port = "ctrl" /\ req = 1 /\ offer_id = 0 /\ result = "none"
        /\ stop = FALSE /\ leaked = FALSE /\ queue = <<>> /\ ws = "none" /\ hand = None /\ wire = <<>>
        /\ ws_stop = FALSE /\ inbox = {} /\ answered = {} /\ offers = [p \in Ports |-> 0] /\ accepts = {}
        /\ acked = {} /\ unanswered = {} /\ fini = "no" /\ faults = 0

Main == \/ Open \/ Opening \/ HttpCreate \/ Creation \/ CreateOffer \/ HttpStart \/ Starting \/ Punch
        \/ TakeOffer \/ AckOffer \/ SendOffer \/ TakeResult \/ Check \/ SendAccept \/ TakeAccept \/ Establish
Websocket == WsConnects \/ WsEnds \/ WsReceives \/ WsJudges \/ WsFiles
Fini == FiniBegins \/ FiniWaits \/ FiniJoins
Next == \/ Main \/ Websocket \/ Fini \/ Cancel
        \/ ConsoleOffers \/ ConsoleResults \/ ConsoleAccepts \/ ConsoleTerminates
Spec == Init /\ [][Next]_vars

\* Threads are scheduled, a wait ends, and the application ends the session.
FairSpec == Spec /\ WF_vars(Main) /\ WF_vars(Websocket) /\ WF_vars(Fini)

-----------------------------------------------------------------------------
TypeOK == /\ flags \subseteq {"ws", "created", "joined", "console", "data1", "ctrl", "data", "ctrl offer", "data offer"}
          /\ port \in Ports /\ req \in 1..7 /\ offer_id \in 0..req
          /\ result \in {"none", "failed", "timeout", "canceled", "success"}
          /\ ws \in {"none", "connecting", "run", "judge", "file", "done"}
          /\ \A n \in ToSet(queue) \union ToSet(wire) : n.type \in {"created", "member", "data1", "message", "deleted"}

\* A hole counts as punched (punch_hole) only after the console has answered
\* the OFFER for that very hole and accepted it: late messages of the first
\* hole, which stay in the queue, never stand in for those of the second.
Agreed == \A p \in flags \intersect Ports :
            /\ p \in accepts
            /\ \E m \in answered : m.kind = "OFFER" /\ m.port = p

\* A cancel ends the thread that connects, wherever it waits (every wait of
\* holepunch.c ends by itself, or looks at main_should_stop).
CancelOver == stop => at = "out"
CancelEnds == []<>CancelOver

\* The websocket thread is joined and the session freed: the comment of
\* chiaki_holepunch_session_fini says that the thread is always joined.
FiniEnds == fini # "no" ~> fini \in {"done", "undefined"}

\* Every OFFER that is thrown away was acknowledged ("ignore other OFFERs,
\* simply ACK them", chiaki_holepunch_session_punch_hole).
OffersAcked == unanswered = {}
================================================================================
