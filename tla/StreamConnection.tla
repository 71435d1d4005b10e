-------------------------- MODULE StreamConnection --------------------------
(***************************************************************************)
(* lib/src/streamconnection.c: the session thread in                       *)
(* chiaki_stream_connection_run, and the callbacks of the Takion thread.   *)
(*                                                                         *)
(* Takion keeps what module Takion shows of it: it calls back with         *)
(* CONNECTED, then with the data messages in order and once, and with      *)
(* DISCONNECT at the end.  The run holds state_mutex except in its waits,  *)
(* while it sends CONNECTED to the user, and while it closes Takion; each  *)
(* callback is a critical section.  state_failed is written but never read *)
(* and therefore left out.                                                 *)
(***************************************************************************)
EXTENDS Naturals, Sequences

CONSTANT Faults    \* which of "start", "send", "takion", "bad_bang", "bad_info" may happen

VARIABLES mutex,          \* state_mutex is "free" or held by the "run"
          pc,             \* where the run is
          state,          \* stream_connection->state
          finished,       \* state_finished
          shouldStop,     \* should_stop
          remoteDisconnected,
          early,          \* streaminfo_early_buf: FALSE, or the message in it
          secret,         \* ecdh_secret and the keys are set
          congestion,     \* the congestion control thread runs
          feedback,       \* feedback_sender_active
          receivers,      \* the audio and video receivers exist
          takion,         \* the Takion thread: "none", "handshake", "up", "ending" or "gone"
          takionStop,     \* its stop pipe has been written
          inbox,          \* data messages that Takion has yet to deliver
          sent,           \* the messages the console has sent
          heard,          \* history: the messages that were handled
          connected,      \* history: the user has been told CONNECTED
          result          \* what the run returns

runVars == <<mutex, pc, congestion, feedback, receivers, takionStop, connected, result>>
sharedVars == <<state, finished, early, secret>>
takionVars == <<takion, inbox, heard, remoteDisconnected>>
vars == <<runVars, sharedVars, takionVars, shouldStop, sent>>

Messages == {"bang", "bad_bang", "info", "bad_info", "disconnect"}

Init ==
  /\ mutex = "free" /\ pc = "idle" /\ state = "idle" /\ finished = FALSE
  /\ shouldStop = FALSE /\ remoteDisconnected = FALSE
  /\ early = "none" /\ secret = FALSE
  /\ congestion = FALSE /\ feedback = FALSE /\ receivers = FALSE
  /\ takion = "none" /\ takionStop = FALSE /\ inbox = <<>> /\ sent = {}
  /\ heard = {} /\ connected = FALSE /\ result = "none"

-----------------------------------------------------------------------------
(* The user and the console                                                 *)

Stop ==
  /\ mutex = "free" /\ ~shouldStop
  /\ shouldStop' = TRUE
  /\ UNCHANGED <<runVars, sharedVars, takionVars, sent>>

\* The console (external) answers BIG with BANG and STREAMINFO, in either order,
\* and may disconnect.
ConsoleSends(m) ==
  /\ takion = "up" /\ m \notin sent
  /\ m \in {"bad_bang", "bad_info"} => m \in Faults
  /\ m # "disconnect" => state # "takion_connect"
  /\ m \in {"bang", "bad_bang"} => {"bang", "bad_bang"} \cap sent = {}
  /\ m \in {"info", "bad_info"} => {"info", "bad_info"} \cap sent = {}
  /\ inbox' = Append(inbox, m) /\ sent' = sent \cup {m}
  /\ UNCHANGED <<runVars, sharedVars, takion, heard, remoteDisconnected, shouldStop>>

-----------------------------------------------------------------------------
(* The Takion thread                                                        *)

TakionUnchanged ==
  UNCHANGED <<runVars, early, secret, state, inbox, heard, remoteDisconnected, shouldStop, sent>>

\* CONNECTED and DISCONNECT count only while the run waits for the connection.
TakionConnects ==
  /\ takion = "handshake" /\ mutex = "free"
  /\ takion' = "up"
  /\ finished' = (finished \/ state = "takion_connect")
  /\ TakionUnchanged

TakionBreaks ==
  /\ takion \in {"handshake", "up"} /\ (takionStop \/ "takion" \in Faults)
  /\ takion' = "ending"
  /\ UNCHANGED finished /\ TakionUnchanged

TakionEnds ==
  /\ takion = "ending" /\ mutex = "free"
  /\ takion' = "gone"
  /\ finished' = (finished /\ state # "takion_connect")
  /\ TakionUnchanged

\* mutant: the early STREAMINFO is not saved
ForgetEarly(m) ==
  /\ secret' = (secret \/ m = "bang")
  /\ finished' = (finished \/ m = "bang")
  /\ UNCHANGED early

\* mutant: any message is saved
SaveAny(m) ==
  /\ secret' = (secret \/ m = "bang")
  /\ finished' = (finished \/ m = "bang")
  /\ early' = IF early = "none" THEN m ELSE early

\* stream_connection_takion_data_expect_bang.  A STREAMINFO that comes before
\* the run has seen the BANG is saved.
ExpectBang(m) ==
  /\ secret' = (secret \/ m = "bang")
  /\ finished' = (finished \/ m = "bang")
  /\ early' = IF m \in {"info", "bad_info"} /\ early = "none" THEN m ELSE early

\* stream_connection_takion_data_expect_streaminfo.
ExpectInfo(m) ==
  /\ finished' = (finished \/ m = "info")
  /\ UNCHANGED <<secret, early>>

Deliver ==
  /\ takion = "up" /\ inbox # <<>> /\ mutex = "free"
  /\ LET m == Head(inbox) IN
       /\ CASE state = "expect_bang" -> ExpectBang(m)
            [] state = "expect_streaminfo" -> ExpectInfo(m)
            [] OTHER -> UNCHANGED <<secret, finished, early>>
       /\ remoteDisconnected' = (remoteDisconnected \/ m = "disconnect")
       /\ heard' = heard \cup {m}
  /\ inbox' = Tail(inbox)
  /\ UNCHANGED <<runVars, takion, state, shouldStop, sent>>

TakionStep == TakionConnects \/ TakionEnds \/ Deliver
              \/ (takionStop /\ TakionBreaks)

-----------------------------------------------------------------------------
(* The waits of the run.  A wait that times out does not look at its        *)
(* condition again.                                                         *)

StateFinished == finished \/ shouldStop \/ remoteDisconnected

Waits ==
  /\ pc \in {"wait_connect", "wait_bang", "wait_info", "streaming"}
  /\ mutex = "run" /\ ~StateFinished
  /\ mutex' = "free"
  /\ UNCHANGED <<pc, congestion, feedback, receivers, takionStop, connected, result,
                 sharedVars, takionVars, shouldStop, sent>>

Resumes(at, err) ==
  /\ pc = at
  /\ \/ err = "success" /\ StateFinished
     \/ err = "timeout" /\ mutex = "free"

\* Going on at "then" with state_mutex held, or released.
Keep(then)  == mutex' = "run" /\ pc' = then


Leave(then) == mutex' = "free" /\ pc' = then

\* mutant: what the last state ended with is kept
EnterAsIs(s) == state' = s /\ UNCHANGED finished

\* A new state of the protocol forgets how the last one ended.
Enter(s) == state' = s /\ finished' = FALSE

RunUnchanged == UNCHANGED <<takionVars, shouldStop, sent>>

-----------------------------------------------------------------------------
(* Starting and ending the run                                              *)

\* Takion and congestion control are started, or one of them cannot be.
Run ==
  /\ pc = "idle" /\ mutex = "free"
  /\ receivers' = TRUE
  /\ state' = "takion_connect" /\ finished' = FALSE
  /\ \/ /\ takion' = "handshake" /\ congestion' = TRUE
        /\ Keep("wait_connect") /\ UNCHANGED result
     \/ /\ "start" \in Faults
        /\ takion' = "handshake" /\ UNCHANGED congestion
        /\ Leave("closing") /\ result' = "error"
     \/ /\ "start" \in Faults
        /\ UNCHANGED <<takion, congestion>>
        /\ Leave("freeing") /\ result' = "error"
  /\ UNCHANGED <<feedback, takionStop, connected, early, secret, inbox, heard,
                 remoteDisconnected, shouldStop, sent>>

\* The label disconnect, with what the run would return otherwise.
Disconnect(err) ==
  /\ early' = "none" /\ congestion' = FALSE
  /\ result' = IF shouldStop THEN "canceled"
               ELSE IF remoteDisconnected THEN "disconnected" ELSE err
  /\ Leave("closing")
  /\ UNCHANGED <<state, finished, secret, receivers, takionStop, connected>>

\* chiaki_takion_close writes the stop pipe and joins the thread, with
\* state_mutex released for the callbacks that the thread may still make.
CloseTakion ==
  /\ pc = "closing"
  /\ takionStop' = TRUE /\ pc' = "joining"
  /\ UNCHANGED <<mutex, congestion, feedback, receivers, connected, result, sharedVars>>
  /\ RunUnchanged

\* mutant: the thread is told to stop but not joined
DoNotJoin ==
  /\ pc = "joining"
  /\ pc' = "freeing"
  /\ UNCHANGED <<mutex, congestion, feedback, receivers, takionStop, connected, result, sharedVars>>
  /\ RunUnchanged

JoinTakion ==
  /\ pc = "joining" /\ takion = "gone"
  /\ pc' = "freeing"
  /\ UNCHANGED <<mutex, congestion, feedback, receivers, takionStop, connected, result, sharedVars>>
  /\ RunUnchanged

Free ==
  /\ pc = "freeing" /\ mutex = "free"
  /\ receivers' = FALSE /\ pc' = "returned"
  /\ UNCHANGED <<mutex, congestion, feedback, takionStop, connected, result, sharedVars>>
  /\ RunUnchanged

-----------------------------------------------------------------------------
(* The run between its waits                                                *)

SendBig ==
  /\ Enter("expect_bang")
  /\ Keep("wait_bang")
  /\ UNCHANGED <<early, secret, congestion, receivers, takionStop, connected, result>>

\* A stop skips chiaki_congestion_control_stop.
ConnectWaitEnds(err) ==
  /\ Resumes("wait_connect", err)
  /\ \/ /\ shouldStop
        /\ Leave("closing") /\ result' = err
        /\ UNCHANGED <<congestion, receivers, takionStop, connected, sharedVars>>
     \/ /\ ~shouldStop /\ err # "success"
        /\ Leave("closing") /\ result' = err /\ congestion' = FALSE
        /\ UNCHANGED <<receivers, takionStop, connected, sharedVars>>
     \/ ~shouldStop /\ err = "success" /\ SendBig
     \/ /\ ~shouldStop /\ err = "success" /\ "send" \in Faults
        /\ Disconnect("network")
  /\ UNCHANGED feedback /\ RunUnchanged

BangWaitEnds(err) ==
  /\ Resumes("wait_bang", err)
  /\ \/ (shouldStop \/ ~finished) /\ Disconnect("unknown")
     \/ /\ ~shouldStop /\ finished
        /\ state' = "expect_streaminfo" /\ finished' = (early = "info") /\ early' = "none"
        /\ Keep("wait_info")
        /\ UNCHANGED <<secret, congestion, receivers, takionStop, connected, result>>
  /\ UNCHANGED feedback /\ RunUnchanged

InfoWaitEnds(err) ==
  /\ Resumes("wait_info", err)
  /\ \/ (shouldStop \/ ~finished) /\ Disconnect("unknown") /\ UNCHANGED feedback
     \/ "start" \in Faults /\ ~shouldStop /\ finished /\ Disconnect("error") /\ UNCHANGED feedback
     \/ /\ ~shouldStop /\ finished
        /\ feedback' = TRUE
        /\ Enter("idle")
        /\ Leave("connected")
        /\ UNCHANGED <<early, secret, congestion, receivers, takionStop, connected, result>>
  /\ RunUnchanged

SendConnected ==
  /\ pc = "connected" /\ mutex = "free"
  /\ connected' = TRUE
  /\ Keep("streaming")
  /\ UNCHANGED <<congestion, feedback, receivers, takionStop, result, sharedVars>>
  /\ RunUnchanged

\* A wait that times out only sends a heartbeat.
StreamingEnds ==
  /\ Resumes("streaming", "success")
  /\ feedback' = FALSE
  /\ Disconnect("success")
  /\ RunUnchanged

RunStep ==
  \/ Run \/ Waits \/ SendConnected \/ StreamingEnds \/ CloseTakion \/ JoinTakion \/ Free
  \/ \E err \in {"success", "timeout"} :
       ConnectWaitEnds(err) \/ BangWaitEnds(err) \/ InfoWaitEnds(err)

Next ==
  \/ RunStep \/ TakionStep \/ TakionBreaks \/ Stop
  \/ \E m \in Messages : ConsoleSends(m)

\* Both threads run when they can; the user and the console owe nothing.
Fairness == WF_vars(RunStep) /\ WF_vars(TakionStep)

Spec == Init /\ [][Next]_vars /\ Fairness

-----------------------------------------------------------------------------

\* Every variable has its type.
TypeOK ==
  /\ mutex \in {"free", "run"}
  /\ pc \in {"idle", "wait_connect", "wait_bang", "wait_info", "connected", "streaming",
             "closing", "joining", "freeing", "returned"}
  /\ state \in {"idle", "takion_connect", "expect_bang", "expect_streaminfo"}
  /\ {finished, shouldStop, remoteDisconnected, secret, congestion, feedback, receivers,
      takionStop, connected} \subseteq BOOLEAN
  /\ early \in {"none", "info", "bad_info"}
  /\ takion \in {"none", "handshake", "up", "ending", "gone"}
  /\ inbox \in Seq(Messages) /\ sent \subseteq Messages /\ heard \subseteq sent
  /\ result \in {"none", "success", "timeout", "canceled", "disconnected", "network",
                 "unknown", "error"}

\* The user is told CONNECTED only after both BANG and STREAMINFO were handled
\* well, whatever came early, late, or not at all.
ConnectedMeansReady ==
  connected => secret /\ {"bang", "info"} \subseteq heard

\* The run does not wait for a message that the Takion thread has already
\* delivered, even one that came before the run expected it.
NoWaitInVain ==
  /\ (pc = "wait_bang" /\ "bang" \in heard) => finished
  /\ (pc = "wait_info" /\ "info" \in heard) => finished

\* The Takion thread hands AV packets to the receivers without state_mutex, so
\* they exist as long as it runs, and the feedback sender, which sends through
\* Takion, ends before it.
TeardownInOrder ==
  /\ takion \in {"handshake", "up", "ending"} => receivers
  /\ feedback => ~takionStop


\* "StreamConnection closed takion": nothing sends through Takion any more.
NothingSendsAfterClose == pc \in {"freeing", "returned"} => ~congestion
=============================================================================
