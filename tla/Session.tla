------------------------------ MODULE Session ------------------------------
(***************************************************************************)
(* The session thread of lib/src/session.c for Remote Play on the local    *)
(* network: it requests a session, starts the ctrl thread, asks the user   *)
(* for login PINs, runs Senkusha and the stream connection (of which only  *)
(* the outcome matters here), and shuts down.                              *)
(*                                                                         *)
(* It holds state_mutex from each wait to the next.  A wait whose          *)
(* condition already holds does not release the mutex.                     *)
(***************************************************************************)
EXTENDS Ctrl

VARIABLES pc,           \* where the session thread is
          shouldStop,   \* session->should_stop; stop_pipe is written with it and never reset
          pinEntered,   \* session->login_pin_entered
          attempts,     \* session requests made so far
          prompts,      \* history: LOGIN_PIN_REQUEST events
          pins,         \* history: PINs the user has entered
          forwarded,    \* history: a PIN is being, or has been, forwarded to ctrl
          event         \* the reason in the QUIT event, or "none"

sessionVars == <<pc, shouldStop, pinEntered, attempts, prompts, pins, forwarded, event>>
allVars == <<stateMutex, ctrlVars, requestVars, userVars, flagVars, consoleVars, sessionVars>>

Init ==
  /\ CtrlInit
  /\ pc = "start" /\ shouldStop = FALSE /\ pinEntered = FALSE /\ attempts = 0
  /\ prompts = 0 /\ pins = 0 /\ forwarded = FALSE /\ event = "none"

-----------------------------------------------------------------------------
(* The user                                                                 *)

UserUnchanged ==
  UNCHANGED <<stateMutex, ctrlVars, requestVars, userVars, flagVars, consoleVars,
              pc, attempts, prompts, forwarded, event>>

UserStops ==
  /\ stateMutex = "free" /\ ~shouldStop
  /\ shouldStop' = TRUE
  /\ UNCHANGED <<pinEntered, pins>> /\ UserUnchanged

\* The user answers each prompt once.
UserEntersPin ==
  /\ stateMutex = "free" /\ pins < prompts
  /\ pinEntered' = TRUE /\ pins' = pins + 1
  /\ UNCHANGED shouldStop /\ UserUnchanged

User == UserStops \/ UserEntersPin \/ ((QueueMessage \/ WritePipe) /\ UNCHANGED sessionVars)

-----------------------------------------------------------------------------
(* The conditions the thread waits for                                      *)

CheckState == shouldStop \/ ctrlFailed
CtrlStarted == CheckState \/ sessionId # "none" \/ pinRequested
PinGiven == CheckState \/ pinEntered

\* Waiting with "cond": the mutex is released, and taken again once cond holds
\* or the wait has timed out, if it can.
Waits(at, cond) ==
  /\ pc = at /\ stateMutex = "session" /\ ~cond
  /\ stateMutex' = "free"
  /\ UNCHANGED <<ctrlVars, requestVars, userVars, flagVars, consoleVars, sessionVars>>

Resumes(at, cond, timed) ==
  /\ pc = at
  /\ \/ stateMutex = "session" /\ cond
     \/ stateMutex = "free" /\ (cond \/ timed)

\* Going on at "then" with state_mutex held, or released.
Keep(then)  == stateMutex' = "session" /\ pc' = then
Leave(then) == stateMutex' = "free" /\ pc' = then

StepUnchanged == UNCHANGED <<shouldStop, pins, userVars, consoleVars, ctrlFailed, sessionId>>
Quiet == UNCHANGED <<ctrlVars, requestVars, pinRequested, pinEntered, attempts, prompts,
                     forwarded, event>>

CheckStop(then) == shouldStop /\ quitReason' = "stopped" /\ Leave(then)

\* The label ctrl_failed.
CtrlFailedQuit ==
  /\ quitReason' = IF quitReason = "none" THEN "ctrl_unknown" ELSE quitReason
  /\ Leave("stopping")

-----------------------------------------------------------------------------
(* Requesting a session                                                     *)

Start ==
  /\ pc = "start" /\ stateMutex = "free"
  /\ \/ CheckStop("quitting") /\ UNCHANGED attempts
     \/ ~shouldStop /\ Leave("request") /\ attempts' = 1 /\ UNCHANGED quitReason
  /\ StepUnchanged
  /\ UNCHANGED <<ctrlVars, requestVars, pinRequested, pinEntered, prompts, forwarded, event>>

RetriesPastThird == attempts <= 3     \* mutant

\* The third request does not take another version.
MayRetry == attempts < 3

\* Canceled by the stop pipe, failed, told another RP-Version, or successful.
RequestEnds ==
  /\ pc = "request" /\ stateMutex = "free"
  /\ \/ CheckStop("quitting") /\ UNCHANGED attempts
     \/ quitReason' = "request" /\ Leave("quitting") /\ UNCHANGED attempts
     \/ MayRetry /\ attempts' = attempts + 1 /\ Leave("request") /\ UNCHANGED quitReason
     \/ Keep("settle") /\ UNCHANGED <<attempts, quitReason>>
  /\ StepUnchanged
  /\ UNCHANGED <<ctrlVars, requestVars, pinRequested, pinEntered, prompts, forwarded, event>>

-----------------------------------------------------------------------------
(* Starting ctrl, and the login PIN                                         *)

StartCtrl ==
  /\ Resumes("settle", CheckState, TRUE)
  /\ Keep("wait_ctrl") /\ ctrlPc' = "begin"
  /\ UNCHANGED <<notifMutex, pinAsked, buf, sock, requestVars, pinRequested, pinEntered,
                 attempts, prompts, forwarded, event, quitReason>>
  /\ StepUnchanged

CtrlStartEnds ==
  /\ Resumes("wait_ctrl", CtrlStarted, TRUE)
  /\ \/ CheckStop("stopping")
     \/ ~shouldStop /\ ctrlFailed /\ CtrlFailedQuit
     \/ ~CheckState /\ Keep("pin") /\ UNCHANGED quitReason
  /\ Quiet /\ StepUnchanged

RequestStays == UNCHANGED pinRequested     \* mutant

RequestTaken == pinRequested' = FALSE

\* The top of the PIN loop sends LOGIN_PIN_REQUEST, with pin_incorrect from
\* the second time on.
PromptPin ==
  /\ pc = "pin" /\ pinRequested
  /\ RequestTaken /\ prompts' = prompts + 1
  /\ Keep("wait_pin")
  /\ UNCHANGED <<ctrlVars, requestVars, pinEntered, attempts, forwarded, event, quitReason>>
  /\ StepUnchanged

PinWaitEnds ==
  /\ Resumes("wait_pin", PinGiven, FALSE)
  /\ \/ CheckStop("stopping") /\ UNCHANGED forwarded
     \/ ~shouldStop /\ ctrlFailed /\ CtrlFailedQuit /\ UNCHANGED forwarded
     \/ ~CheckState /\ Keep("forward") /\ forwarded' = TRUE /\ UNCHANGED quitReason
  /\ UNCHANGED <<ctrlVars, requestVars, pinRequested, pinEntered, attempts, prompts, event>>
  /\ StepUnchanged

\* chiaki_ctrl_set_login_pin is called with state_mutex held.
ForwardPin ==
  /\ pc = "forward" /\ SetLoginPin
  /\ pinEntered' = FALSE
  /\ Keep("wait_login")
  /\ UNCHANGED <<ctrlVars, pinRequested, attempts, prompts, forwarded, event, quitReason>>
  /\ StepUnchanged

\* ctrl_failed is not looked at here.
LoginWaitEnds ==
  /\ Resumes("wait_login", CtrlStarted, TRUE)
  /\ \/ CheckStop("stopping")
     \/ ~shouldStop /\ Keep("pin") /\ UNCHANGED quitReason
  /\ Quiet /\ StepUnchanged

PinLoopEnds ==
  /\ pc = "pin" /\ ~pinRequested
  /\ IF sessionId = "none" THEN Leave("fallback") ELSE Keep("senkusha")
  /\ UNCHANGED quitReason /\ Quiet /\ StepUnchanged

\* ctrl_message_set_fallback_session_id takes state_mutex of its own.
SetFallbackId ==
  /\ pc = "fallback" /\ stateMutex = "free"
  /\ sessionId' = WithFallback(sessionId)
  /\ Leave("fallback_set")
  /\ Quiet
  /\ UNCHANGED <<quitReason, shouldStop, pins, userVars, consoleVars, ctrlFailed>>

FallbackSet ==
  /\ pc = "fallback_set" /\ stateMutex = "free"
  /\ Keep("senkusha")
  /\ UNCHANGED quitReason /\ Quiet /\ StepUnchanged

-----------------------------------------------------------------------------
(* Senkusha runs with state_mutex held, the stream connection without.      *)

SenkushaEnds ==
  /\ pc = "senkusha"
  /\ \/ CheckStop("stopping")
     \/ ~shouldStop /\ UNCHANGED quitReason
        /\ IF ctrlFailed THEN Leave("stopping") ELSE Leave("stream")
  /\ Quiet /\ StepUnchanged

StreamEnds(reason) ==
  /\ pc = "stream" /\ stateMutex = "free"
  /\ quitReason' = reason /\ Leave("stopping")
  /\ Quiet /\ StepUnchanged

StreamStopped == shouldStop /\ StreamEnds("stopped")
StreamBreaks == \E reason \in {"disconnected", "stream_unknown"} : StreamEnds(reason)

-----------------------------------------------------------------------------
(* The labels quit_ctrl and quit                                            *)

StopCtrl ==
  /\ pc = "stopping" /\ CtrlStop
  /\ pc' = "joining"
  /\ UNCHANGED <<stateMutex, ctrlVars, pinRequested, pinEntered, attempts, prompts,
                 forwarded, event, quitReason>>
  /\ StepUnchanged

JoinedAtOnce == TRUE     \* mutant

Joined == ctrlPc = "ended"

JoinCtrl ==
  /\ pc = "joining" /\ Joined
  /\ pc' = "quitting"
  /\ UNCHANGED <<stateMutex, quitReason>> /\ Quiet /\ StepUnchanged

Quit ==
  /\ pc = "quitting" /\ stateMutex = "free"
  /\ event' = quitReason /\ pc' = "quit"
  /\ UNCHANGED <<stateMutex, ctrlVars, requestVars, pinRequested, pinEntered, attempts,
                 prompts, forwarded, quitReason>>
  /\ StepUnchanged

-----------------------------------------------------------------------------

SessionWaits ==
  \/ Waits("settle", CheckState) \/ Waits("wait_ctrl", CtrlStarted)
  \/ Waits("wait_pin", PinGiven) \/ Waits("wait_login", CtrlStarted)

SessionStep ==
  \/ Start \/ RequestEnds \/ StartCtrl \/ CtrlStartEnds
  \/ PromptPin \/ PinWaitEnds \/ ForwardPin \/ LoginWaitEnds \/ PinLoopEnds
  \/ SetFallbackId \/ FallbackSet \/ SenkushaEnds \/ StreamStopped
  \/ StopCtrl \/ JoinCtrl \/ Quit \/ SessionWaits

Next ==
  \/ SessionStep \/ StreamBreaks \/ User
  \/ (CtrlStep \/ Console) /\ UNCHANGED sessionVars

\* Every thread runs when it can, and the session thread gets a mutex that is
\* free again and again.  Waits with a timeout end.  The user, the console and
\* the stream owe nothing.
Fairness ==
  /\ SF_allVars(SessionStep)
  /\ WF_allVars(CtrlStep /\ UNCHANGED sessionVars)

Spec == Init /\ [][Next]_allVars /\ Fairness

-----------------------------------------------------------------------------

\* Every variable has its type.
TypeOK ==
  /\ CtrlTypeOK
  /\ pc \in {"start", "request", "settle", "wait_ctrl", "pin", "wait_pin", "forward",
             "wait_login", "fallback", "fallback_set", "senkusha", "stream", "stopping",
             "joining", "quitting", "quit"}
  /\ shouldStop \in BOOLEAN /\ pinEntered \in BOOLEAN /\ forwarded \in BOOLEAN
  /\ attempts \in 0 .. 3 /\ prompts \in 0 .. MaxRejects + 1 /\ pins \in 0 .. prompts
  /\ event \in QuitReasons

\* The user is told that a PIN was wrong only if the console has rejected it:
\* the prompts after the first never outnumber the rejections.
PromptTellsTruth == prompts <= rejects + 1

\* The fallback session id, which both threads may want to set, never takes the
\* place of an id from the console.
FallbackGivesWay == [][sessionId = "console" => sessionId' # "fallback"]_allVars

\* After the QUIT event the owner frees the session, so the ctrl thread must
\* have ended, with both mutexes released.
ThreadsEndFirst ==
  pc = "quit" => ctrlPc \in {"none", "ended"} /\ notifMutex = "free" /\ stateMutex = "free"

\* A PIN that the session has forwarded is sent to the console unless the ctrl
\* connection has ended.
PinReachesConsole == ctrlPin ~> (~ctrlPin \/ ctrlPc = "ended")

\* chiaki_session_stop ends the session, in whatever it is doing, as long as no
\* login PIN is involved.
StopEndsSession == shouldStop ~> (pc = "quit" \/ forwarded)

\* chiaki_session_stop, then chiaki_session_join: a stop always ends the session.
StopAlwaysEnds == shouldStop ~> pc = "quit"
=============================================================================
