-------------------------------- MODULE Regist --------------------------------
(***************************************************************************)
(* lib/src/regist.c and its two callers: the registration with a console   *)
(* runs in a thread of its own, over the LAN (search by UDP, request by    *)
(* TCP; the client's dialog starts it) or through the hole punched with    *)
(* the console over PSN (request by RUDP; the session thread starts it and *)
(* waits for it), and ends with one event.                                 *)
(***************************************************************************)
EXTENDS Naturals, Sequences, SequencesExt

\* The headers of a response without which there is no host.
Required == {"RegistKey", "RP-Key", "Mac"}

VARIABLES info,        \* over PSN, or over the LAN
          pc,          \* where the registration's thread is
          stop_pipe,   \* chiaki_regist_stop was called
          found,       \* required headers accepted from the response
          lost,        \* required headers whose value was zeroed after they had been accepted
          outcome,     \* how the thread will report: "canceled", "success", "failed", "none"
          events,      \* events the callback was called with
          owner,       \* the session thread: "starts", "waits", "stopped", "joins", "goes_on"
          mutex,       \* the session's state_mutex: "free", "session", "regist"
          succeeded,   \* psn_regist_succeeded
          should_stop  \* of the session
vars == <<info, pc, stop_pipe, found, lost, outcome, events, owner, mutex, succeeded, should_stop>>

thread == <<pc, found, lost, outcome, events>>
caller == <<owner, should_stop>>

Infos == [psn : BOOLEAN]

-----------------------------------------------------------------------------
(* The thread                                                               *)

Goes(from, to) == pc = from /\ pc' = to /\ UNCHANGED <<found, lost, outcome>>
Ends(from, v) == pc = from /\ pc' = "report" /\ outcome' = v /\ UNCHANGED <<found, lost>>

Begin == \/ Goes("begin", IF info.psn THEN "rudp_init" ELSE "search")
         \/ Ends("begin", "failed")              \* random bytes, formatting, getaddrinfo

RudpInit == Goes("rudp_init", "rudp_cookie") \/ Ends("rudp_init", "failed")
RudpCookie == Goes("rudp_cookie", "response") \/ Ends("rudp_cookie", "failed")

\* A packet that is not the answer is dropped and the wait goes on (a step that
\* changes nothing); the answer, a failed connect, send or receive or the time
\* that has run out end it.
Search == \/ Goes("search", "sleep")
          \/ Ends("search", "failed")
          \/ stop_pipe /\ Ends("search", "canceled")

\* Whatever ends the sleep early counts as canceled.
Sleep == \/ ~stop_pipe /\ Goes("sleep", "connect")
         \/ stop_pipe /\ Ends("sleep", "canceled")

\* connect blocks and does not look at the pipe.
Connect == Goes("connect", "response") \/ Ends("connect", "failed")

\* Header and content of the response; only the LAN waits with the pipe, and
\* over RUDP a lost FINISH is no error. A code other than 200, a length that
\* is missing, too large or not reached and a failed receive end it.
Response == \/ Goes("response", "parse")
            \/ Ends("response", "failed")
            \/ stop_pipe /\ ~info.psn /\ Ends("response", "canceled")

\* One header of the payload. An unreadable one zeroes the value, also one that
\* an earlier header of the same name had filled.
ParseHeader ==
  /\ pc = "parse"
  /\ \E h \in Required, valid \in BOOLEAN :
       /\ found' = IF valid THEN found \union {h} ELSE found
       /\ lost' = IF valid THEN lost \ {h} ELSE lost \union (found \intersect {h})
  /\ UNCHANGED <<pc, outcome>>

ParseEnds == Ends("parse", IF found = Required THEN "success" ELSE "failed")

\* mutant: the callback of a registration over PSN may be skipped
ReportLanOnly == /\ pc = "report" /\ pc' = IF info.psn THEN "ended" ELSE "callback"
                 /\ events' = IF info.psn THEN events ELSE Append(events, outcome)
                 /\ UNCHANGED <<found, lost, outcome>>

\* The event; it is the thread's last act.
Report == /\ pc = "report" /\ pc' = "callback" /\ events' = Append(events, outcome)
          /\ UNCHANGED <<found, lost, outcome>>

-----------------------------------------------------------------------------
(* The callbacks: the dialog's queues the result for its own thread and     *)
(* returns; the session's takes the session's mutex.                        *)

DialogCallback == /\ pc = "callback" /\ ~info.psn /\ pc' = "ended"
                  /\ UNCHANGED <<info, stop_pipe, found, lost, outcome, events, caller, mutex, succeeded>>

CallbackLocks == /\ pc = "callback" /\ info.psn /\ mutex = "free"
                 /\ mutex' = "regist" /\ pc' = "locked"
                 /\ UNCHANGED <<info, stop_pipe, found, lost, outcome, events, caller, succeeded>>

CallbackReturns == /\ pc = "locked" /\ pc' = "ended" /\ mutex' = "free"
                   /\ IF outcome = "success" THEN succeeded' = TRUE /\ UNCHANGED should_stop
                                             ELSE should_stop' = TRUE /\ UNCHANGED succeeded
                   /\ UNCHANGED <<info, stop_pipe, found, lost, outcome, events, owner>>

-----------------------------------------------------------------------------
(* The callers                                                              *)

CallerOnly == UNCHANGED <<info, thread>>

\* chiaki_cond_timedwait_pred lets go of the mutex while it waits.
SessionStarts == /\ owner = "starts" /\ info.psn /\ mutex = "session"
                 /\ owner' = "waits" /\ mutex' = "free" /\ pc' = "begin"
                 /\ UNCHANGED <<info, stop_pipe, found, lost, outcome, events, succeeded, should_stop>>

\* It wakes for the result, for a stop and after ten seconds, with the mutex.
SessionWakes == /\ owner = "waits" /\ mutex = "free"
                /\ owner' = "joins" /\ mutex' = "session" /\ stop_pipe' = TRUE
                /\ CallerOnly /\ UNCHANGED <<succeeded, should_stop>>

\* chiaki_regist_fini joins the thread with the mutex held; CHECK_STOP follows.
SessionJoins == /\ owner = "joins" /\ pc = "ended"
                /\ owner' = (IF should_stop THEN "quits" ELSE "goes_on") /\ mutex' = "free"
                /\ CallerOnly /\ UNCHANGED <<stop_pipe, succeeded, should_stop>>

\* chiaki_session_stop, from the client at any time.
SessionStops == /\ info.psn /\ ~should_stop /\ mutex = "free" /\ owner = "waits"
                /\ should_stop' = TRUE
                /\ CallerOnly /\ UNCHANGED <<stop_pipe, owner, mutex, succeeded>>

DialogStarts == /\ owner = "starts" /\ ~info.psn /\ owner' = "waits" /\ pc' = "begin"
                /\ UNCHANGED <<info, stop_pipe, found, lost, outcome, events, mutex, succeeded, should_stop>>

\* The dialog goes away: stop, and fini joins.
DialogStops == /\ ~info.psn /\ owner = "waits" /\ owner' = "joins" /\ stop_pipe' = TRUE
               /\ CallerOnly /\ UNCHANGED <<mutex, succeeded, should_stop>>

DialogJoins == /\ ~info.psn /\ owner = "joins" /\ pc = "ended" /\ owner' = "goes_on"
               /\ CallerOnly /\ UNCHANGED <<stop_pipe, mutex, succeeded, should_stop>>

-----------------------------------------------------------------------------
Init ==
  /\ info \in Infos
  /\ pc = "idle" /\ stop_pipe = FALSE /\ found = {} /\ lost = {} /\ outcome = "none" /\ events = <<>>
  /\ owner = "starts" /\ mutex = (IF info.psn THEN "session" ELSE "free")
  /\ succeeded = FALSE /\ should_stop = FALSE

Work == /\ Begin \/ RudpInit \/ RudpCookie \/ Search \/ Sleep \/ Connect \/ Response
           \/ ParseHeader \/ ParseEnds
        /\ UNCHANGED <<info, stop_pipe, events, caller, mutex, succeeded>>
Reports == Report /\ UNCHANGED <<info, stop_pipe, caller, mutex, succeeded>>
Callback == DialogCallback \/ CallbackLocks \/ CallbackReturns
Caller == \/ SessionStarts \/ SessionWakes \/ SessionJoins \/ SessionStops
          \/ DialogStarts \/ DialogStops \/ DialogJoins

Next == Work \/ Reports \/ Callback \/ Caller

Spec == Init /\ [][Next]_vars
\* Every wait of the thread has a time limit, and a response has an end.
Progress == (Work /\ pc' # pc) \/ Reports \/ Callback
FairSpec == Spec /\ WF_vars(Progress) /\ WF_vars(SessionWakes) /\ WF_vars(SessionJoins) /\ WF_vars(DialogJoins)

-----------------------------------------------------------------------------
TypeOK ==
  /\ found \subseteq Required /\ lost \subseteq found
  /\ outcome \in {"none", "canceled", "success", "failed"}
  /\ mutex \in {"free", "session", "regist"}

\* A registration tells its outcome exactly once before its thread ends, and
\* tells success only of a host that all three credentials were found for.
OneOutcome ==
  /\ Len(events) <= 1
  /\ pc = "ended" => events = <<outcome>>
  /\ \A i \in 1 .. Len(events) : events[i] = "success" => found = Required

\* Only what its owner asked for is told as canceled, and a registration over
\* PSN, whose waits are RUDP's, never is.
CanceledOnRequest == outcome = "canceled" => stop_pipe /\ ~info.psn

\* The session goes on to connect only with the keys of a registration that
\* succeeded.
GoesOnRegistered == owner = "goes_on" /\ info.psn => succeeded /\ events = <<"success">>

Safe == OneOutcome /\ CanceledOnRequest /\ GoesOnRegistered

\* A dialog that stops its registration gets its thread back.
NoDialogJoins == owner = "joins" => info.psn
DialogGetsThreadBack == []<>NoDialogJoins

\* The session thread that has waited for the registration ends its join: it
\* does not, when it woke up before the callback took the mutex it holds.
SessionGetsThreadBack == info.psn /\ owner = "joins" ~> owner \in {"goes_on", "quits"}
===============================================================================
