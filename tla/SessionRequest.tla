---------------------------- MODULE SessionRequest ----------------------------
(***************************************************************************)
(* How lib/src/session.c gets from the start of its thread to the stream:  *)
(* over the LAN by a session request, over PSN by a registration and a     *)
(* punched hole first, and in the cloud by neither. The request tries each *)
(* address of the console and, when the console answers with another       *)
(* RP-Version, is made again. What happens between the session thread and  *)
(* the ctrl thread is in Session.                                          *)
(***************************************************************************)
EXTENDS Naturals, Sequences

CONSTANTS Kinds,     \* some of "lan", "psn", "cloud"
          MaxAddresses, \* bound: addresses of the console
          MaxFailures  \* bound: failures in all

Versions == {"8.0", "9.0", "10.0", "1.0"}
Reports == Versions \union {"5.0", "11.0", "none"} \* what RP-Version may say

VARIABLES kind, ps5, auto_regist, \* the session
          console,    \* the version that the console speaks, and the one it reports
          pc, stop,   \* the session thread; should_stop
          failures,
          regist,     \* the registration over PSN: "none", "ok", "failed"
          target,     \* session->target: a version, "ps4_unknown" or "ps5_unknown"
          server_target, requests, \* the version that the console reported; requests made
          addresses,  \* addresses that are left to try
          tried,      \* history: how the last connect ended
          sock,       \* the socket of the request is open
          nonce, mtu, handshake, \* the answer's nonce; where MTUs and handshake key are from
          hole,       \* events about the data connection's hole
          quit_reason
vars == <<kind, ps5, auto_regist, console, pc, stop, failures, regist, target, server_target, requests, addresses, tried, sock, nonce, mtu,
          handshake, hole, quit_reason>>
given == <<kind, ps5, auto_regist, console>>
request == <<target, server_target, requests, addresses, tried, sock, nonce>>
extras == <<mtu, handshake, hole>>

\* chiaki_rp_version_parse, chiaki_rp_version_string
Parsed(report) == IF ps5 THEN IF report = "1.0" THEN "1.0" ELSE "ps5_unknown"
                  ELSE IF report \in {"8.0", "9.0", "10.0"} THEN report ELSE "ps4_unknown"
Known(t) == t \in Versions

Goes(to) == pc' = to
Fails == failures < MaxFailures /\ failures' = failures + 1
Quits(reason) == quit_reason' = reason /\ pc' = "quit"

\* CHECK_STOP: what quit_reason was is overwritten.
CheckStop == stop /\ Quits("stopped")
On(to) == IF stop THEN Quits("stopped") ELSE Goes(to) /\ UNCHANGED quit_reason

-----------------------------------------------------------------------------
(* Before the request *)

Start ==
  /\ pc = "start" /\ On(CASE kind = "psn" -> "regist" [] kind = "cloud" -> "cloud" [] OTHER -> "request")
  /\ UNCHANGED <<given, stop, failures, regist, request, extras>>

\* regist_cb, on the registration's thread
RegistEnds ==
  /\ pc = "regist" /\ regist = "none"
  /\ \/ regist' = "ok" /\ UNCHANGED <<stop, failures, quit_reason>>
     \/ Fails /\ regist' = "failed" /\ stop' = TRUE /\ quit_reason' = "psn_regist_failed"
  /\ UNCHANGED <<given, pc, request, extras>>

\* The session thread waits for it no longer than ten seconds.
AfterRegist ==
  /\ pc = "regist"
  /\ IF stop THEN Quits("stopped")
     ELSE IF auto_regist THEN Quits("stopped") ELSE Goes("request") /\ UNCHANGED quit_reason
  /\ UNCHANGED <<given, stop, failures, regist, request, extras>>

\* No request, no ctrl, no Senkusha: the MTUs are those of the pings, or given ones.
Cloud ==
  /\ pc = "cloud" /\ mtu' = (IF mtu = "none" THEN "default" ELSE mtu) /\ Goes("ecdh")
  /\ UNCHANGED <<given, stop, failures, regist, request, handshake, hole, quit_reason>>

-----------------------------------------------------------------------------
(* session_thread_request_session *)

Begin ==
  /\ pc = "request" /\ requests' = requests + 1
  /\ IF kind = "psn" THEN Goes("send") /\ UNCHANGED addresses
     ELSE \E n \in 1..MaxAddresses : addresses' = n /\ Goes("connect")
  /\ UNCHANGED <<given, stop, failures, regist, target, server_target, tried, sock, nonce, extras, quit_reason>>

\* The next address, without the lock.
Connect ==
  /\ pc = "connect" /\ addresses > 0
  /\ \/ sock' = TRUE /\ tried' = "ok" /\ Goes("send") /\ UNCHANGED <<failures, quit_reason, addresses>>
     \/ Fails /\ tried' = "refused" /\ quit_reason' = "request_refused" /\ addresses' = addresses - 1 /\ UNCHANGED <<pc, sock>>
     \/ Fails /\ tried' = "failed" /\ quit_reason' = "none" /\ addresses' = addresses - 1 /\ UNCHANGED <<pc, sock>>
     \/ stop /\ tried' = "canceled" /\ quit_reason' = "stopped" /\ addresses' = 0 /\ UNCHANGED <<pc, sock, failures>>
  /\ UNCHANGED <<given, stop, regist, target, server_target, requests, nonce, extras>>

\* mutant: whatever happened, the request failed
OnlyUnknown == quit_reason' = "request_unknown"

NamesFailure == quit_reason' = IF quit_reason = "none" THEN "request_unknown" ELSE quit_reason

NoneLeft ==
  /\ pc = "connect" /\ addresses = 0 /\ NamesFailure /\ Goes("quit")
  /\ UNCHANGED <<given, stop, failures, regist, request, extras>>

\* A target with no version ends the request with the socket open.
Send ==
  /\ pc = "send"
  /\ \/ Known(target) /\ Goes("receive") /\ UNCHANGED <<failures, sock, quit_reason>>
     \/ ~Known(target) /\ Quits("request_unknown") /\ UNCHANGED <<failures, sock>>
     \/ Known(target) /\ Fails /\ sock' = FALSE /\ Quits("request_unknown")
  /\ UNCHANGED <<given, stop, regist, target, server_target, requests, addresses, tried, nonce, extras>>

Unanswered ==
  /\ pc = "receive" /\ sock' = FALSE
  /\ \/ stop /\ kind = "lan" /\ Quits("stopped") /\ UNCHANGED failures
     \/ Fails /\ Quits("request_unknown")
  /\ UNCHANGED <<given, stop, regist, target, server_target, requests, addresses, tried, nonce, extras>>

\* The third request takes no other version any more.
TargetOut == requests < 3

\* mutant: a version that is not known is tried as well
TriesAny(t) == TRUE

Tries(t) == Known(t)

\* The console (external) takes the request if it speaks the version, or says what is
\* wrong. A second request that is told nothing new is made once more all the same.
Answer ==
  /\ pc = "receive" /\ sock' = FALSE
  /\ \/ target = console.speaks /\ nonce' = requests /\ Goes("ctrl") /\ UNCHANGED <<server_target, target, quit_reason, failures>>
     \/ target = console.speaks /\ Fails /\ Quits("request_unknown") /\ UNCHANGED <<nonce, server_target, target>> \* the nonce is invalid
     \/ /\ target # console.speaks /\ UNCHANGED <<nonce, failures>>
        /\ IF TargetOut /\ console.reports \notin {"none", target}
           THEN LET parsed == Parsed(console.reports) IN
                LET wanted == IF ~Known(parsed) /\ console.reports = "5.0" THEN "9.0" ELSE parsed IN
                /\ server_target' = wanted
                /\ IF Tries(wanted) THEN target' = wanted /\ Goes("request") /\ UNCHANGED quit_reason
                   ELSE Quits("request_version") /\ UNCHANGED target
           ELSE /\ quit_reason' = "request_version" /\ UNCHANGED server_target
                /\ IF requests = 2 /\ Tries(server_target) THEN target' = server_target /\ Goes("request")
                   ELSE Goes("quit") /\ UNCHANGED target
     \/ /\ Fails /\ \E reason \in {"request_in_use", "request_crash", "request_unknown"} : Quits(reason)
        /\ UNCHANGED <<nonce, server_target, target>>
  /\ UNCHANGED <<given, stop, regist, requests, addresses, tried, extras>>

-----------------------------------------------------------------------------
(* After the request *)

\* ctrl is started and a session id waited for (Session has that in full).
CtrlStarts ==
  /\ pc = "ctrl"
  /\ \/ On(IF kind = "psn" THEN "hole" ELSE "senkusha") /\ UNCHANGED failures
     \/ Fails /\ Quits(IF quit_reason = "none" THEN "ctrl_unknown" ELSE quit_reason)
  /\ UNCHANGED <<given, stop, regist, request, extras>>

\* An offer that could not be made is no reason not to punch.
PunchHole ==
  /\ pc = "hole" /\ UNCHANGED <<given, stop, regist, request, mtu, handshake>>
  /\ \/ Fails /\ stop /\ Quits("stopped") /\ UNCHANGED hole \* no offer
     \/ Fails /\ Goes("quit") /\ hole' = "started" /\ UNCHANGED quit_reason
     \/ hole' = "finished" /\ On("senkusha") /\ UNCHANGED failures

SenkushaEnds ==
  /\ pc = "senkusha" /\ UNCHANGED <<given, stop, regist, request, handshake, hole>>
  /\ \/ stop /\ Quits("stopped") /\ UNCHANGED <<mtu, failures>>
     \/ ~stop /\ mtu' = "measured" /\ Goes(IF kind = "psn" THEN "switch" ELSE "ecdh") /\ UNCHANGED <<failures, quit_reason>>
     \/ ~stop /\ Fails /\ mtu' = "default" /\ Goes(IF kind = "psn" THEN "switch" ELSE "ecdh") /\ UNCHANGED quit_reason

\* Only over PSN: the console is asked to go on with the stream connection.
Switch ==
  /\ pc = "switch" /\ UNCHANGED <<given, stop, regist, request, extras>>
  /\ \/ Fails /\ Goes("quit") /\ UNCHANGED quit_reason
     \/ On("ecdh") /\ UNCHANGED failures

Ecdh ==
  /\ pc = "ecdh" /\ handshake' = (IF kind = "cloud" THEN handshake ELSE "random") /\ Goes("stream")
  /\ UNCHANGED <<given, stop, failures, regist, request, mtu, hole, quit_reason>>

StreamEnds ==
  /\ pc = "stream" /\ UNCHANGED <<given, stop, regist, request, extras>>
  /\ \/ stop /\ Quits("stopped") /\ UNCHANGED failures
     \/ Fails /\ \E reason \in {"stream_disconnected", "stream_shutdown", "stream_unknown"} : Quits(reason)

Stop == /\ ~stop /\ pc # "quit" /\ stop' = TRUE
        /\ UNCHANGED <<given, pc, failures, regist, request, extras, quit_reason>>

-----------------------------------------------------------------------------
\* chiaki_session_init: the first target; in the cloud MTUs and key come with the call.
Init == /\ kind \in Kinds /\ ps5 \in BOOLEAN /\ auto_regist \in (IF kind = "psn" THEN BOOLEAN ELSE {FALSE})
        /\ console \in [speaks : IF ps5 THEN {"1.0"} ELSE {"8.0", "9.0", "10.0"}, reports : Reports]
        /\ (console.reports \in Versions => console.reports = console.speaks)
        /\ pc = "start" /\ stop = FALSE /\ failures = 0 /\ regist = "none" /\ target = (IF ps5 THEN "1.0" ELSE "10.0")
        /\ server_target = "none" /\ requests = 0 /\ addresses = 0 /\ tried = "none" /\ sock = FALSE /\ nonce = 0
        /\ mtu \in (IF kind = "cloud" THEN {"none", "pings"} ELSE {"none"})
        /\ handshake = (IF kind = "cloud" THEN "api" ELSE "none") /\ hole = "none" /\ quit_reason = "none"

Next == \/ Start \/ RegistEnds \/ AfterRegist \/ Cloud
        \/ Begin \/ Connect \/ NoneLeft \/ Send \/ Unanswered \/ Answer
        \/ CtrlStarts \/ PunchHole \/ SenkushaEnds \/ Switch \/ Ecdh \/ StreamEnds \/ Stop
Spec == Init /\ [][Next]_vars

-----------------------------------------------------------------------------
TypeOK == /\ pc \in {"start", "regist", "cloud", "request", "connect", "send", "receive", "ctrl", "hole", "senkusha", "switch", "ecdh", "stream", "quit"}
          /\ target \in Versions \union {"ps4_unknown", "ps5_unknown"} /\ requests \in 0..3 /\ addresses \in 0..MaxAddresses
          /\ regist \in {"none", "ok", "failed"} /\ nonce \in 0..3

AfterRequest == pc \in {"ctrl", "hole", "senkusha", "switch"} \/ (pc \in {"ecdh", "stream"} /\ kind # "cloud")

\* A session goes on with the version that the console speaks and with the nonce of the
\* last answer; a console that says which version it speaks is always reached.
RightVersion == /\ AfterRequest => target = console.speaks /\ nonce = requests
                /\ (pc = "quit" /\ quit_reason = "request_version") => console.reports # console.speaks

\* What is reported as the end of a request is what ended it: a refusal if the last
\* address refused, a stop if there was one.
EndIsNamed ==
  (pc = "quit" /\ nonce = 0) => /\ quit_reason = "request_refused" => tried = "refused"
                                /\ (addresses = 0 /\ tried = "refused" /\ kind = "lan") => quit_reason # "request_unknown"
                                /\ quit_reason = "stopped" => stop \/ auto_regist

\* No request leaves its socket behind.
NoSocketLeft == pc \in {"ctrl", "quit"} => ~sock

\* A stream starts with MTUs and a handshake key, in the cloud with those of the call.
ReadyForStream == pc = "stream" => /\ mtu # "none" /\ handshake = (IF kind = "cloud" THEN "api" ELSE "random")
                                   /\ kind = "psn" => hole = "finished"

Safe == RightVersion /\ EndIsNamed /\ NoSocketLeft /\ ReadyForStream

\* What the application is told when the registration failed. CHECK_STOP overwrites it.
RegistFailureIsReported == (pc = "quit" /\ regist = "failed" /\ nonce = 0 /\ requests = 0) => quit_reason = "psn_regist_failed"
=============================================================================
