-------------------------------- MODULE Ctrl --------------------------------
(***************************************************************************)
(* The control connection of lib/src/ctrl.c: the ctrl thread, the calls    *)
(* other threads make on it, and the flags of the session it sets.         *)
(*                                                                         *)
(* Two mutexes matter.  The ctrl thread holds notif_mutex except while it  *)
(* connects or waits in select, and takes state_mutex of the session for   *)
(* single assignments while it holds notif_mutex.  The session thread      *)
(* holds state_mutex except while it waits.  Every other critical section  *)
(* is one step that needs the mutex to be free.                            *)
(*                                                                         *)
(* The connection is a TCP stream ("sock"), of which one recv takes any    *)
(* number of the messages that wait; "close" and "reset" are its end.      *)
(* Heartbeats, the keyboard and the display only make the thread reply or  *)
(* call a callback, and are left out.                                      *)
(***************************************************************************)
EXTENDS Naturals, Sequences, SequencesExt

CONSTANTS MaxRejects,   \* bound: number of PINs that the console rejects
          MaxSends,     \* bound: number of messages the user sends
          Faults        \* which of "reset", "close", "bad_id", "late_pin" may happen

ASSUME CtrlAssumption ==
         MaxRejects \in Nat /\ MaxSends \in Nat

VARIABLES stateMutex,   \* state_mutex of the session is "free" or held by "session"
          notifMutex,   \* notif_mutex is "free" or held by "ctrl"
          ctrlPc,       \* where the ctrl thread is
          ctrlStop,     \* ctrl->should_stop
          ctrlPin,      \* ctrl->login_pin_entered: a PIN is to be sent
          pinAsked,     \* ctrl->login_pin_requested
          msgQueue,     \* length of ctrl->msg_queue
          pipe,         \* notif_pipe is readable
          buf,          \* the messages in recv_buf
          sock,         \* the messages that the socket has received
          sender,       \* "idle", or "write": chiaki_ctrl_send_message has queued its message
          sends,        \* how many messages the user has sent
          ctrlFailed,   \* session->ctrl_failed
          sessionId,    \* session->session_id: "none", from the "console", or the "fallback"
          pinRequested, \* session->ctrl_login_pin_requested
          quitReason,   \* session->quit_reason
          console,      \* what the console is doing
          rejects       \* history: how many PINs the console has rejected

flagVars == <<ctrlFailed, sessionId, pinRequested, quitReason>>
requestVars == <<ctrlStop, ctrlPin, msgQueue, pipe>>
userVars == <<sender, sends>>
consoleVars == <<console, rejects>>
ctrlVars == <<notifMutex, ctrlPc, pinAsked, buf, sock>>

CtrlInit ==
  /\ stateMutex = "free" /\ notifMutex = "free"
  /\ ctrlPc = "none" /\ ctrlStop = FALSE /\ ctrlPin = FALSE /\ pinAsked = FALSE
  /\ msgQueue = 0 /\ pipe = FALSE /\ buf = <<>> /\ sock = <<>>
  /\ sender = "idle" /\ sends = 0
  /\ ctrlFailed = FALSE /\ sessionId = "none" /\ pinRequested = FALSE
  /\ quitReason = "none"
  /\ console = "ready" /\ rejects = 0

-----------------------------------------------------------------------------
(* The console (external) asks for a PIN or sends a session id at once, and *)
(* judges each PIN it gets.                                                 *)

Ended == \E m \in {"close", "reset"} : m \in Range(sock)

ConsoleSends(ms, then) ==
  /\ ctrlPc \notin {"none", "begin", "connecting", "ended"} /\ ~Ended
  /\ sock' = sock \o ms /\ console' = then
  /\ UNCHANGED <<stateMutex, notifMutex, ctrlPc, pinAsked, buf, requestVars, userVars, flagVars>>

ConsoleAsksPin ==
  /\ console = "ready" \/ (console = "done" /\ "late_pin" \in Faults)
  /\ ConsoleSends(<<"pin_req">>, "asked")
  /\ UNCHANGED rejects

ConsoleRejectsPin ==
  /\ console = "judging" /\ rejects < MaxRejects
  /\ ConsoleSends(<<"incorrect">>, "asked")
  /\ rejects' = rejects + 1

ConsoleAcceptsPin ==
  /\ console = "judging"
  /\ ConsoleSends(<<"login", "session_id">>, "done")
  /\ UNCHANGED rejects

ConsoleSendsId ==
  /\ console = "ready"
  /\ \E id \in {"session_id"} \cup ({"bad_id"} \cap Faults) : ConsoleSends(<<id>>, "done")
  /\ UNCHANGED rejects

ConsoleEnds ==
  /\ \E m \in {"close", "reset"} \cap Faults : ConsoleSends(<<m>>, console)
  /\ UNCHANGED rejects

Console ==
  \/ ConsoleAsksPin \/ ConsoleRejectsPin \/ ConsoleAcceptsPin
  \/ ConsoleSendsId \/ ConsoleEnds

-----------------------------------------------------------------------------
(* chiaki_ctrl_send_message: the pipe is written after notif_mutex has been *)
(* released.  set_login_pin and stop write it inside.                       *)

SendUnchanged ==
  UNCHANGED <<stateMutex, ctrlStop, ctrlPin, ctrlVars, flagVars, consoleVars>>

QueueMessage ==
  /\ sender = "idle" /\ sends < MaxSends /\ notifMutex = "free"
  /\ sender' = "write" /\ sends' = sends + 1 /\ msgQueue' = msgQueue + 1
  /\ UNCHANGED pipe /\ SendUnchanged

WritePipe ==
  /\ sender = "write"
  /\ sender' = "idle" /\ pipe' = TRUE
  /\ UNCHANGED <<sends, msgQueue>> /\ SendUnchanged

SetLoginPinQuietly ==     \* mutant: the pipe is not written
  /\ notifMutex = "free" /\ ctrlPin' = TRUE
  /\ UNCHANGED <<pipe, ctrlStop, msgQueue>>

SetLoginPin ==
  /\ notifMutex = "free"
  /\ ctrlPin' = TRUE /\ pipe' = TRUE
  /\ UNCHANGED <<ctrlStop, msgQueue>>

CtrlStop ==
  /\ notifMutex = "free"
  /\ ctrlStop' = TRUE /\ pipe' = TRUE
  /\ UNCHANGED <<ctrlPin, msgQueue>>

-----------------------------------------------------------------------------
(* The ctrl thread connects.                                                *)

\* Going on at pc with notif_mutex held, or released.
Hold(pc)    == notifMutex' = "ctrl" /\ ctrlPc' = pc
Release(pc) == notifMutex' = "free" /\ ctrlPc' = pc

\* What the ctrl thread leaves alone unless it sets flags of the session.
Alone == UNCHANGED <<stateMutex, userVars, flagVars>>

ConnectUnchanged == Alone /\ UNCHANGED <<requestVars, pinAsked, sock, consoleVars>>

CtrlBegins ==
  /\ ctrlPc = "begin" /\ notifMutex = "free"
  /\ ctrlPc' = "connecting"
  /\ UNCHANGED <<notifMutex, buf>> /\ ConnectUnchanged

\* The select in chiaki_stop_pipe_connect may have returned before the pipe
\* was written, so success does not need an empty pipe.
CtrlConnects ==
  /\ ctrlPc = "connecting" /\ notifMutex = "free"
  /\ \/ Hold("request")
     \/ Hold("fail_refused")
     \/ pipe /\ Hold("fail_connect")
  /\ UNCHANGED buf /\ ConnectUnchanged

\* The HTTP request is answered, with messages already behind the header or
\* not, or the answer is missing, refused or canceled by the pipe.
CtrlRequestEnds ==
  /\ ctrlPc = "request"
  /\ \/ /\ ~pipe /\ Hold("parse")
        /\ \E k \in 0 .. Len(sock) :
             /\ \A j \in 1 .. k : sock[j] \notin {"close", "reset"}
             /\ buf' = SubSeq(sock, 1, k) /\ sock' = SubSeq(sock, k + 1, Len(sock))
     \/ Hold("fail_connect") /\ UNCHANGED <<buf, sock>>
  /\ Alone /\ UNCHANGED <<requestVars, pinAsked, consoleVars>>

-----------------------------------------------------------------------------
(* ctrl_failed.  ctrl_connect reports its own failures, and the thread      *)
(* reports the failure of ctrl_connect once more.                           *)

Failing(pc, reason) ==
  /\ ctrlPc = pc /\ stateMutex = "free"
  /\ quitReason' = reason /\ ctrlFailed' = TRUE
  /\ UNCHANGED <<stateMutex, sessionId, pinRequested, requestVars, pinAsked,
                 buf, sock, userVars, consoleVars>>

CtrlFails ==
  \/ Failing("fail_refused", "ctrl_refused") /\ Hold("fail_connect")
  \/ Failing("fail_connect", "ctrl_connect_failed") /\ Release("ended")
  \/ Failing("fail_parse", "ctrl_unknown") /\ Hold("parse")
  \/ Failing("fail_end", "ctrl_unknown") /\ Release("ended")

-----------------------------------------------------------------------------
(* The ctrl thread handles the messages in recv_buf.                        *)

Handling(m) == ctrlPc = "parse" /\ buf # <<>> /\ Head(buf) = m

\* The message is done, and the session's flags are dealt with by the caller.
Handled ==
  /\ buf' = Tail(buf) /\ Hold("parse")
  /\ UNCHANGED <<stateMutex, sessionId, ctrlFailed, quitReason, requestVars, sock,
                 userVars, consoleVars>>

\* ctrl_message_received_session_id looks for an id in one critical section and
\* writes one in another; only the fallback looks again.
ReceiveId(m, then) ==
  /\ Handling(m) /\ stateMutex = "free"
  /\ IF sessionId = "none"
     THEN /\ ctrlPc' = then
          /\ UNCHANGED <<notifMutex, buf, sock, pinAsked, requestVars, consoleVars>> /\ Alone
     ELSE Handled /\ UNCHANGED <<pinAsked, pinRequested>>

FallbackAnyway(id) == "fallback"     \* mutant: no second look at the id

WithFallback(id) == IF id = "none" THEN "fallback" ELSE id

StoreId ==
  /\ ctrlPc \in {"store", "store_fallback"} /\ stateMutex = "free"
  /\ sessionId' = IF ctrlPc = "store" THEN "console" ELSE WithFallback(sessionId)
  /\ buf' = Tail(buf) /\ Hold("parse")
  /\ UNCHANGED <<stateMutex, ctrlFailed, quitReason, pinRequested, pinAsked,
                 requestVars, sock, userVars, consoleVars>>

ReceivePinReq ==
  /\ Handling("pin_req") /\ stateMutex = "free"
  /\ pinAsked' = TRUE
  /\ buf' = Tail(buf)
  /\ IF sessionId = "none" THEN pinRequested' = TRUE /\ Hold("parse")
                           ELSE UNCHANGED pinRequested /\ Hold("fail_parse")
  /\ UNCHANGED <<stateMutex, sessionId, ctrlFailed, quitReason, requestVars, sock,
                 userVars, consoleVars>>

ReceiveLogin == Handling("login") /\ pinAsked' = FALSE /\ Handled /\ UNCHANGED pinRequested

ReceiveIncorrect ==
  /\ Handling("incorrect") /\ (pinAsked => stateMutex = "free")
  /\ pinRequested' = (pinRequested \/ pinAsked)
  /\ Handled /\ UNCHANGED pinAsked

ParseEnds ==
  /\ ctrlPc = "parse" /\ buf = <<>>
  /\ Release("select") /\ UNCHANGED buf /\ ConnectUnchanged

CtrlParses ==
  \/ ReceiveId("session_id", "store") \/ ReceiveId("bad_id", "store_fallback") \/ StoreId
  \/ ReceivePinReq \/ ReceiveLogin \/ ReceiveIncorrect \/ ParseEnds

-----------------------------------------------------------------------------
(* The ctrl thread waits for the socket or the pipe; the pipe comes first.  *)

SelectSocket ==
  /\ ctrlPc = "select" /\ ~pipe /\ sock # <<>>
  /\ ctrlPc' = "readable" /\ UNCHANGED <<notifMutex, buf>> /\ ConnectUnchanged

\* "close" is a recv of 0, which ends the loop without ctrl_failed.
Receive ==
  /\ ctrlPc = "readable" /\ notifMutex = "free"
  /\ \/ /\ Head(sock) = "close" /\ Release("ended") /\ UNCHANGED <<buf, sock>>
     \/ /\ Head(sock) = "reset" /\ Hold("fail_end") /\ UNCHANGED <<buf, sock>>
     \/ \E k \in 1 .. Len(sock) :
          /\ \A j \in 1 .. k : sock[j] \notin {"close", "reset"}
          /\ buf' = SubSeq(sock, 1, k) /\ sock' = SubSeq(sock, k + 1, Len(sock))
          /\ Hold("parse")
  /\ Alone /\ UNCHANGED <<requestVars, pinAsked, consoleVars>>

\* What is left in the pipe when the thread goes back to select.
PipeAfter == pipe /\ ~ctrlPin /\ msgQueue = 0

StopsIfIdle == ctrlStop /\ ~ctrlPin /\ msgQueue = 0     \* mutant: reset first

StopsNow == ctrlStop /\ ~ctrlPin

\* Send what is queued.  A PIN is sent, and the pipe reset, before the stop
\* flag is looked at.
SelectCanceled ==
  /\ ctrlPc = "select" /\ pipe /\ notifMutex = "free"
  /\ msgQueue' = 0 /\ ctrlPin' = FALSE
  /\ IF StopsNow THEN ctrlPc' = "ended" /\ UNCHANGED pipe
                 ELSE pipe' = PipeAfter /\ UNCHANGED ctrlPc
  /\ console' = IF ctrlPin /\ console = "asked" THEN "judging" ELSE console
  /\ Alone /\ UNCHANGED <<notifMutex, ctrlStop, pinAsked, buf, sock, rejects>>

CtrlStep ==
  \/ CtrlBegins \/ CtrlConnects \/ CtrlRequestEnds \/ CtrlFails
  \/ CtrlParses \/ SelectSocket \/ Receive \/ SelectCanceled

-----------------------------------------------------------------------------

QuitReasons ==
  {"none", "stopped", "request", "ctrl_refused", "ctrl_connect_failed", "ctrl_unknown",
   "disconnected", "stream_unknown"}

\* What the console sends, and how the connection ends.
Messages == {"pin_req", "incorrect", "login", "session_id", "bad_id", "close", "reset"}

CtrlTypeOK ==
  /\ stateMutex \in {"free", "session"} /\ notifMutex \in {"free", "ctrl"}
  /\ ctrlPc \in {"none", "begin", "connecting", "request", "parse", "store", "store_fallback",
                 "select", "readable", "fail_refused", "fail_connect", "fail_parse", "fail_end",
                 "ended"}
  /\ ctrlStop \in BOOLEAN /\ ctrlPin \in BOOLEAN /\ pinAsked \in BOOLEAN /\ pipe \in BOOLEAN
  /\ msgQueue \in 0 .. sends /\ sends \in 0 .. MaxSends /\ sender \in {"idle", "write"}
  /\ buf \in Seq(Messages) /\ sock \in Seq(Messages)
  /\ ctrlFailed \in BOOLEAN /\ pinRequested \in BOOLEAN
  /\ sessionId \in {"none", "console", "fallback"}
  /\ quitReason \in QuitReasons
  /\ console \in {"ready", "asked", "judging", "done"} /\ rejects \in 0 .. MaxRejects

=============================================================================
