----------------------- MODULE StreamConnectionProofs -----------------------
(***************************************************************************)
(* What StreamConnection promises, whichever faults happen: the user is    *)
(* told CONNECTED only when it is, the run does not wait for what came     *)
(* early, and Takion's thread ends before what it uses.                    *)
(***************************************************************************)
EXTENDS StreamConnection, SequenceTheorems, TLAPS

\* Where the run is, the Takion thread, and what exists as long as they do.
PhasesAgree ==
  /\ pc \notin {"idle", "returned"} => receivers
  /\ pc \in {"idle", "freeing", "returned"} => takion \in {"none", "gone"}
  /\ takionStop => pc \in {"joining", "freeing", "returned"}
  /\ feedback => pc \in {"connected", "streaming"}

\* Each wait of the run has its protocol state, and nothing but a disconnect
\* can have come before the first of them is over.
StatesAgree ==
  /\ pc = "wait_connect" => state = "takion_connect"
  /\ pc = "wait_bang" => state = "expect_bang"
  /\ pc = "wait_info" => state = "expect_streaminfo"
  /\ (pc = "idle" \/ state = "takion_connect") => sent \subseteq {"disconnect"}
  /\ pc = "idle" => state = "idle"

\* The messages on their way and those handled are those sent, and the console
\* does not send a good and a bad STREAMINFO.
MessagesAgree ==
  /\ \A i \in 1 .. Len(inbox) : inbox[i] \in sent
  /\ heard \subseteq sent
  /\ ~({"info", "bad_info"} \subseteq sent)

\* What finished, the secret and the saved STREAMINFO say about the messages
\* that were handled.
MemoryAgrees ==
  /\ early # "none" => early \in heard
  /\ secret => "bang" \in heard
  /\ pc = "wait_bang" =>
       /\ finished <=> "bang" \in heard
       /\ secret <=> finished
       /\ early = "info" <=> "info" \in heard
  /\ pc = "wait_info" =>
       /\ "bang" \in heard /\ secret
       /\ finished <=> "info" \in heard
  /\ pc \in {"connected", "streaming"} \/ connected => secret /\ {"bang", "info"} \subseteq heard

Inv == TypeOK /\ PhasesAgree /\ StatesAgree /\ MessagesAgree /\ MemoryAgrees

-----------------------------------------------------------------------------

LEMMA InitInv == Init => Inv
<1> SUFFICES ASSUME Init PROVE Inv
  OBVIOUS
<1>1. inbox = <<>> /\ Len(inbox) = 0 /\ inbox \in Seq(Messages)
  BY DEF Init
<1>2. TypeOK
  BY <1>1 DEF Init, TypeOK
<1>3. MessagesAgree
  BY <1>1 DEF Init, MessagesAgree
<1> QED
  BY <1>2, <1>3 DEF Init, Inv, PhasesAgree, StatesAgree, MemoryAgrees

\* The variables that hold one of two values, one by one.
LEMMA Booleans ==
  ASSUME TypeOK
  PROVE  /\ finished \in BOOLEAN /\ shouldStop \in BOOLEAN /\ remoteDisconnected \in BOOLEAN
         /\ secret \in BOOLEAN /\ congestion \in BOOLEAN /\ feedback \in BOOLEAN
         /\ receivers \in BOOLEAN /\ takionStop \in BOOLEAN /\ connected \in BOOLEAN
  BY DEF TypeOK

\* The message at the front of the inbox is one that was sent.
LEMMA Front ==
  ASSUME TypeOK, MessagesAgree, inbox # <<>>
  PROVE  /\ Head(inbox) \in sent /\ Head(inbox) \in Messages
         /\ Tail(inbox) \in Seq(Messages)
         /\ \A i \in 1 .. Len(Tail(inbox)) : Tail(inbox)[i] \in sent
<1>1. inbox \in Seq(Messages)
  BY DEF TypeOK
<1>2. /\ Head(inbox) = inbox[1] /\ 1 \in 1 .. Len(inbox)
      /\ Tail(inbox) \in Seq(Messages) /\ Len(Tail(inbox)) = Len(inbox) - 1
      /\ \A i \in 1 .. Len(Tail(inbox)) : Tail(inbox)[i] = inbox[i + 1]
  BY <1>1, HeadTailProperties
<1>3. Head(inbox) \in sent /\ Head(inbox) \in Messages
  BY <1>1, <1>2 DEF MessagesAgree, TypeOK
<1> QED
  BY <1>1, <1>2, <1>3 DEF MessagesAgree

\* The handlers of a data message.
LEMMA DeliverInv == Inv /\ Deliver => Inv'
<1> SUFFICES ASSUME Inv, Deliver PROVE Inv'
  OBVIOUS
<1> DEFINE m == Head(inbox)
<1>1. TypeOK /\ PhasesAgree /\ StatesAgree /\ MessagesAgree /\ MemoryAgrees
  BY DEF Inv
<1>2. /\ m \in sent /\ m \in Messages /\ Tail(inbox) \in Seq(Messages)
      /\ \A i \in 1 .. Len(Tail(inbox)) : Tail(inbox)[i] \in sent
  BY <1>1, Front DEF Deliver
<1>3. /\ inbox' = Tail(inbox) /\ heard' = heard \cup {m}
      /\ remoteDisconnected' = (remoteDisconnected \/ m = "disconnect")
      /\ UNCHANGED <<mutex, pc, congestion, feedback, receivers, takionStop, connected, result,
                     takion, state, shouldStop, sent>>
  BY DEF Deliver, runVars
<1>4. /\ state = "expect_bang" =>
           /\ secret' = (secret \/ m = "bang")
           /\ finished' = (finished \/ m = "bang")
           /\ early' = IF m \in {"info", "bad_info"} /\ early = "none" THEN m ELSE early
      /\ state = "expect_streaminfo" =>
           /\ finished' = (finished \/ m = "info")
           /\ UNCHANGED <<secret, early>>
      /\ state \notin {"expect_bang", "expect_streaminfo"} =>
           UNCHANGED <<secret, finished, early>>
  BY DEF Deliver, ExpectBang, ExpectInfo
<1> HIDE DEF m
<1>5. secret' \in BOOLEAN /\ finished' \in BOOLEAN /\ early' \in {"none", "info", "bad_info"}
  BY <1>1, <1>4, Booleans DEF TypeOK
<1>6. TypeOK'
  BY <1>1, <1>2, <1>3, <1>5, Booleans DEF TypeOK
<1>7. PhasesAgree' /\ StatesAgree'
  BY <1>1, <1>3 DEF PhasesAgree, StatesAgree
<1>8. MessagesAgree'
  BY <1>1, <1>2, <1>3 DEF MessagesAgree
<1>9. MemoryAgrees'
  <2> m \in heard' /\ heard \subseteq heard' /\ pc' = pc /\ connected' = connected
    BY <1>3
  <2>a. (secret => secret') /\ (secret' => secret \/ m = "bang")
    <3>1. \/ secret' = (secret \/ m = "bang")
          \/ secret' = secret
      BY <1>4
    <3>2. secret \in BOOLEAN /\ secret' \in BOOLEAN
      BY <1>1, <1>5, Booleans
    <3> QED
      BY <3>1, <3>2
  <2>b. early' = early \/ early' = m
    BY <1>4
  <2>1. /\ early' # "none" => early' \in heard'
        /\ secret' => "bang" \in heard'
    BY <1>1, <2>a, <2>b DEF MemoryAgrees
  <2>2. pc' = "wait_bang" => (finished' <=> "bang" \in heard') /\ (secret' <=> finished')
    BY <1>1, <1>3, <1>4, Booleans DEF MemoryAgrees, StatesAgree
  <2>3. pc' = "wait_bang" => (early' = "info" <=> "info" \in heard')
    <3>1. SUFFICES ASSUME pc = "wait_bang"
                   PROVE  early' = "info" <=> "info" \in heard'
      BY <1>3
    <3>2. early' = IF m \in {"info", "bad_info"} /\ early = "none" THEN m ELSE early
      BY <1>1, <1>4, <3>1 DEF StatesAgree
    <3>3. early = "info" <=> "info" \in heard
      BY <1>1, <3>1 DEF MemoryAgrees
    <3>4. m = "info" => early # "bad_info"
      BY <1>1, <1>2 DEF MemoryAgrees, MessagesAgree
    <3> QED
      BY <1>1, <1>3, <3>2, <3>3, <3>4 DEF TypeOK
  <2>4. pc' = "wait_info" => /\ "bang" \in heard' /\ secret'
                             /\ finished' <=> "info" \in heard'
    <3>1. SUFFICES ASSUME pc = "wait_info"
                   PROVE  /\ "bang" \in heard' /\ secret'
                          /\ finished' <=> "info" \in heard'
      OBVIOUS
    <3>2. "bang" \in heard /\ secret /\ (finished <=> "info" \in heard)
      BY <1>1, <3>1 DEF MemoryAgrees
    <3>3. finished' = (finished \/ m = "info")
      BY <1>1, <1>4, <3>1 DEF StatesAgree
    <3> QED
      BY <1>3, <2>a, <3>2, <3>3
  <2>5. pc' \in {"connected", "streaming"} \/ connected' => secret' /\ {"bang", "info"} \subseteq heard'
    BY <1>1, <2>a DEF MemoryAgrees
  <2> QED
    BY <2>1, <2>2, <2>3, <2>4, <2>5 DEF MemoryAgrees
<1> QED
  BY <1>6, <1>7, <1>8, <1>9 DEF Inv

\* The other steps of the Takion thread.
LEMMA TakionInv ==
  ASSUME Inv, TakionConnects \/ TakionBreaks \/ TakionEnds
  PROVE  Inv'
<1>1. TypeOK /\ PhasesAgree /\ StatesAgree /\ MessagesAgree /\ MemoryAgrees
  BY DEF Inv
<1>2. /\ takion \in {"handshake", "up", "ending"} /\ takion' \in {"up", "ending", "gone"}
      /\ finished' \in BOOLEAN
      /\ state # "takion_connect" => finished' = finished
      /\ UNCHANGED <<runVars, early, secret, state, inbox, heard, remoteDisconnected,
                     shouldStop, sent>>
  BY <1>1, Booleans DEF TakionConnects, TakionBreaks, TakionEnds, TakionUnchanged
<1>3. TypeOK'
  BY <1>1, <1>2, Booleans DEF TypeOK, runVars
<1>4. PhasesAgree'
  BY <1>1, <1>2 DEF PhasesAgree, runVars
<1>5. StatesAgree' /\ MessagesAgree'
  BY <1>1, <1>2 DEF StatesAgree, MessagesAgree, runVars
<1>6. MemoryAgrees'
  BY <1>1, <1>2 DEF MemoryAgrees, StatesAgree, runVars
<1> QED
  BY <1>3, <1>4, <1>5, <1>6 DEF Inv

\* The user and the console.
LEMMA OthersInv ==
  ASSUME Inv, Stop \/ \E m \in Messages : ConsoleSends(m)
  PROVE  Inv'
<1>1. TypeOK /\ PhasesAgree /\ StatesAgree /\ MessagesAgree /\ MemoryAgrees
  BY DEF Inv
<1>2. CASE Stop
  <2>1. UNCHANGED <<runVars, sharedVars, takionVars, sent>> /\ shouldStop' \in BOOLEAN
    BY <1>2 DEF Stop
  <2>2. TypeOK'
    BY <1>1, <2>1, Booleans DEF TypeOK, runVars, sharedVars, takionVars
  <2> QED
    BY <1>1, <2>1, <2>2 DEF Inv, PhasesAgree, StatesAgree, MessagesAgree, MemoryAgrees,
                            runVars, sharedVars, takionVars
<1>3. ASSUME NEW m \in Messages, ConsoleSends(m)
      PROVE  Inv'
  <2>1. /\ takion = "up"
        /\ m # "disconnect" => state # "takion_connect"
        /\ m \in {"info", "bad_info"} => {"info", "bad_info"} \cap sent = {}
        /\ inbox' = Append(inbox, m) /\ sent' = sent \cup {m}
        /\ UNCHANGED <<runVars, sharedVars, takion, heard, remoteDisconnected, shouldStop>>
    BY <1>3 DEF ConsoleSends
  <2>2. /\ inbox' \in Seq(Messages) /\ Len(inbox') = Len(inbox) + 1 /\ Len(inbox) \in Nat
        /\ \A i \in 1 .. Len(inbox) : inbox'[i] = inbox[i]
        /\ inbox'[Len(inbox) + 1] = m
    BY <1>1, <2>1, AppendProperties DEF TypeOK
  <2>3. TypeOK'
    BY <1>1, <2>1, <2>2, Booleans DEF TypeOK, runVars, sharedVars
  <2>4. MessagesAgree'
    <3>1. \A i \in 1 .. Len(inbox') : i \in 1 .. Len(inbox) \/ i = Len(inbox) + 1
      BY <2>2
    <3> QED
      BY <1>1, <2>1, <2>2, <3>1 DEF MessagesAgree
  <2>5. StatesAgree'
    BY <1>1, <2>1 DEF StatesAgree, PhasesAgree, runVars, sharedVars
  <2>6. PhasesAgree' /\ MemoryAgrees'
    BY <1>1, <2>1 DEF PhasesAgree, MemoryAgrees, runVars, sharedVars
  <2> QED
    BY <2>3, <2>4, <2>5, <2>6 DEF Inv
<1> QED
  BY <1>2, <1>3

-----------------------------------------------------------------------------
(* The run                                                                  *)

Results == {"none", "success", "timeout", "canceled", "disconnected", "network", "unknown", "error"}

\* From each of its waits the run may leave for the teardown.
LEMMA LeavingInv ==
  ASSUME Inv, pc \in {"wait_connect", "wait_bang", "wait_info", "streaming"},
         pc' = "closing", mutex' = "free", feedback' \in {FALSE, feedback},
         pc = "streaming" => feedback' = FALSE,
         congestion' \in {FALSE, congestion}, early' \in {"none", early}, result' \in Results,
         UNCHANGED <<state, finished, secret, receivers, takionStop, connected,
                     takionVars, shouldStop, sent>>
  PROVE  Inv'
<1>1. TypeOK /\ PhasesAgree /\ StatesAgree /\ MessagesAgree /\ MemoryAgrees
  BY DEF Inv
<1>2. TypeOK'
  BY <1>1, Booleans DEF TypeOK, takionVars, Results
<1>3. PhasesAgree'
  <2>1. pc # "streaming" => feedback = FALSE
    BY <1>1, Booleans DEF PhasesAgree
  <2>2. feedback' = FALSE
    BY <2>1
  <2>3. receivers' = receivers /\ receivers /\ takionStop' = takionStop /\ takionStop = FALSE
    BY <1>1, Booleans DEF PhasesAgree
  <2> QED
    BY <2>2, <2>3 DEF PhasesAgree
<1>4. StatesAgree'
  BY <1>1 DEF StatesAgree
<1>5. MessagesAgree'
  BY <1>1 DEF MessagesAgree, takionVars
<1>6. MemoryAgrees'
  BY <1>1, Booleans DEF MemoryAgrees, takionVars
<1> QED
  BY <1>2, <1>3, <1>4, <1>5, <1>6 DEF Inv

\* The label disconnect, from any of the waits.
LEMMA DisconnectInv ==
  ASSUME Inv, NEW err \in Results, Disconnect(err), RunUnchanged,
         pc \in {"wait_connect", "wait_bang", "wait_info", "streaming"},
         feedback' = IF pc = "streaming" THEN FALSE ELSE feedback
  PROVE  Inv'
<1>1. result' \in Results
  BY DEF Disconnect, Results
<1>2. /\ pc' = "closing" /\ mutex' = "free" /\ early' = "none" /\ congestion' = FALSE
      /\ UNCHANGED <<state, finished, secret, receivers, takionStop, connected,
                     takionVars, shouldStop, sent>>
  BY DEF Disconnect, Leave, RunUnchanged
<1>3. feedback' \in {FALSE, feedback} /\ (pc = "streaming" => feedback' = FALSE)
  OBVIOUS
<1> QED
  BY <1>1, <1>2, <1>3, LeavingInv

LEMMA ConnectWaitInv ==
  ASSUME Inv, NEW err \in {"success", "timeout"}, ConnectWaitEnds(err)
  PROVE  Inv'
<1>1. /\ TypeOK /\ PhasesAgree /\ StatesAgree /\ MessagesAgree /\ MemoryAgrees
      /\ pc = "wait_connect" /\ feedback' = feedback /\ RunUnchanged
  BY DEF Inv, ConnectWaitEnds, Resumes
<1>2. CASE Leave("closing") /\ result' = err /\ congestion' \in {FALSE, congestion}
           /\ UNCHANGED <<receivers, takionStop, connected, sharedVars>>
  BY <1>1, <1>2, LeavingInv DEF Leave, RunUnchanged, sharedVars, Results
<1>3. CASE SendBig
  <2>1. /\ pc' = "wait_bang" /\ mutex' = "run" /\ state' = "expect_bang" /\ finished' = FALSE
        /\ UNCHANGED <<early, secret, congestion, receivers, takionStop, connected, result,
                       feedback, takionVars, shouldStop, sent>>
    BY <1>1, <1>3 DEF SendBig, Enter, Keep, RunUnchanged
  <2>2. heard \subseteq {"disconnect"}
    BY <1>1 DEF StatesAgree, MessagesAgree
  <2>3. TypeOK'
    BY <1>1, <2>1, Booleans DEF TypeOK, takionVars
  <2>4. PhasesAgree' /\ StatesAgree' /\ MessagesAgree'
    BY <1>1, <2>1 DEF PhasesAgree, StatesAgree, MessagesAgree, takionVars
  <2>5. MemoryAgrees'
    BY <1>1, <2>1, <2>2, Booleans DEF MemoryAgrees, takionVars
  <2> QED
    BY <2>3, <2>4, <2>5 DEF Inv
<1>4. CASE Disconnect("network")
  BY <1>1, <1>4, DisconnectInv DEF Results
<1> QED
  BY <1>2, <1>3, <1>4 DEF ConnectWaitEnds

LEMMA BangWaitInv ==
  ASSUME Inv, NEW err \in {"success", "timeout"}, BangWaitEnds(err)
  PROVE  Inv'
<1>1. /\ TypeOK /\ PhasesAgree /\ StatesAgree /\ MessagesAgree /\ MemoryAgrees
      /\ pc = "wait_bang" /\ feedback' = feedback /\ RunUnchanged
  BY DEF Inv, BangWaitEnds, Resumes
<1>2. CASE Disconnect("unknown")
  BY <1>1, <1>2, DisconnectInv DEF Results
<1>3. ASSUME finished, state' = "expect_streaminfo", finished' = (early = "info"),
             early' = "none", Keep("wait_info"),
             UNCHANGED <<secret, congestion, receivers, takionStop, connected, result>>
      PROVE  Inv'
  <2>1. pc' = "wait_info" /\ mutex' = "run" /\ UNCHANGED <<takionVars, shouldStop, sent>>
    BY <1>1, <1>3 DEF Keep, RunUnchanged
  <2>2. TypeOK'
    BY <1>1, <1>3, <2>1, Booleans DEF TypeOK, takionVars
  <2>3. PhasesAgree' /\ StatesAgree' /\ MessagesAgree'
    BY <1>1, <1>3, <2>1 DEF PhasesAgree, StatesAgree, MessagesAgree, takionVars
  <2>4. MemoryAgrees'
    BY <1>1, <1>3, <2>1, Booleans DEF MemoryAgrees, takionVars
  <2> QED
    BY <2>2, <2>3, <2>4 DEF Inv
<1> QED
  BY <1>2, <1>3 DEF BangWaitEnds

LEMMA InfoWaitInv ==
  ASSUME Inv, NEW err \in {"success", "timeout"}, InfoWaitEnds(err)
  PROVE  Inv'
<1>1. /\ TypeOK /\ PhasesAgree /\ StatesAgree /\ MessagesAgree /\ MemoryAgrees
      /\ pc = "wait_info" /\ RunUnchanged
  BY DEF Inv, InfoWaitEnds, Resumes
<1>2. CASE (Disconnect("unknown") \/ Disconnect("error")) /\ feedback' = feedback
  BY <1>1, <1>2, DisconnectInv DEF Results
<1>3. ASSUME finished, feedback' = TRUE, Enter("idle"), Leave("connected"),
             UNCHANGED <<early, secret, congestion, receivers, takionStop, connected, result>>
      PROVE  Inv'
  <2>1. /\ pc' = "connected" /\ mutex' = "free" /\ state' = "idle" /\ finished' = FALSE
        /\ UNCHANGED <<takionVars, shouldStop, sent>>
    BY <1>1, <1>3 DEF Leave, Enter, RunUnchanged
  <2>2. TypeOK'
    BY <1>1, <1>3, <2>1, Booleans DEF TypeOK, takionVars
  <2>3. PhasesAgree' /\ StatesAgree' /\ MessagesAgree'
    BY <1>1, <1>3, <2>1 DEF PhasesAgree, StatesAgree, MessagesAgree, takionVars
  <2>4. MemoryAgrees'
    BY <1>1, <1>3, <2>1, Booleans DEF MemoryAgrees, takionVars
  <2> QED
    BY <2>2, <2>3, <2>4 DEF Inv
<1> QED
  BY <1>2, <1>3 DEF InfoWaitEnds

LEMMA RunInv == Inv /\ Run => Inv'
<1> SUFFICES ASSUME Inv, Run PROVE Inv'
  OBVIOUS
<1>1. TypeOK /\ PhasesAgree /\ StatesAgree /\ MessagesAgree /\ MemoryAgrees
  BY DEF Inv
<1>2. /\ pc = "idle" /\ receivers' = TRUE /\ state' = "takion_connect" /\ finished' = FALSE
      /\ \/ pc' \in {"wait_connect", "closing"} /\ takion' = "handshake"
         \/ pc' = "freeing" /\ takion' = takion
      /\ mutex' \in {"run", "free"} /\ congestion' \in {TRUE, congestion}
      /\ result' \in {result, "error"}
      /\ UNCHANGED <<feedback, takionStop, connected, early, secret, inbox, heard,
                     remoteDisconnected, shouldStop, sent>>
  BY DEF Run, Keep, Leave
<1>3. TypeOK'
  BY <1>1, <1>2, Booleans DEF TypeOK
<1>4. PhasesAgree'
  <2>1. takionStop = FALSE /\ feedback = FALSE /\ takion \in {"none", "gone"}
    BY <1>1, <1>2, Booleans DEF PhasesAgree
  <2> QED
    BY <1>2, <2>1 DEF PhasesAgree
<1>5. StatesAgree' /\ MessagesAgree'
  BY <1>1, <1>2 DEF StatesAgree, MessagesAgree
<1>6. MemoryAgrees'
  BY <1>1, <1>2 DEF MemoryAgrees
<1> QED
  BY <1>3, <1>4, <1>5, <1>6 DEF Inv

\* Waiting gives up the mutex, and sending CONNECTED takes it.
LEMMA WaitsInv == Inv /\ (Waits \/ SendConnected) => Inv'
<1> SUFFICES ASSUME Inv, Waits \/ SendConnected PROVE Inv'
  OBVIOUS
<1>1. TypeOK /\ PhasesAgree /\ StatesAgree /\ MessagesAgree /\ MemoryAgrees
  BY DEF Inv
<1>2. /\ mutex' \in {"free", "run"} /\ connected' \in BOOLEAN
      /\ \/ pc' = pc /\ connected' = connected
         \/ pc = "connected" /\ pc' = "streaming"
      /\ UNCHANGED <<congestion, feedback, receivers, takionStop, result, sharedVars,
                     takionVars, shouldStop, sent>>
  BY <1>1, Booleans DEF Waits, SendConnected, Keep, RunUnchanged
<1>3. TypeOK'
  BY <1>1, <1>2, Booleans DEF TypeOK, sharedVars, takionVars
<1>4. PhasesAgree' /\ StatesAgree' /\ MessagesAgree'
  BY <1>1, <1>2 DEF PhasesAgree, StatesAgree, MessagesAgree, sharedVars, takionVars
<1>5. MemoryAgrees'
  BY <1>1, <1>2, Booleans DEF MemoryAgrees, sharedVars, takionVars
<1> QED
  BY <1>3, <1>4, <1>5 DEF Inv

\* Only when Takion's thread is gone does the run free what it used.
LEMMA TeardownInv == Inv /\ (CloseTakion \/ JoinTakion \/ Free) => Inv'
<1> SUFFICES ASSUME Inv, CloseTakion \/ JoinTakion \/ Free PROVE Inv'
  OBVIOUS
<1>1. TypeOK /\ PhasesAgree /\ StatesAgree /\ MessagesAgree /\ MemoryAgrees
  BY DEF Inv
<1>2. /\ \/ pc = "closing" /\ pc' = "joining" /\ takionStop' = TRUE /\ receivers' = receivers
         \/ pc = "joining" /\ pc' = "freeing" /\ takion = "gone"
            /\ UNCHANGED <<takionStop, receivers>>
         \/ pc = "freeing" /\ pc' = "returned" /\ receivers' = FALSE /\ takionStop' = takionStop
      /\ UNCHANGED <<mutex, congestion, feedback, connected, result, sharedVars,
                     takionVars, shouldStop, sent>>
  BY DEF CloseTakion, JoinTakion, Free, RunUnchanged
<1>3. TypeOK'
  <2>1. receivers' \in BOOLEAN /\ takionStop' \in BOOLEAN
    BY <1>1, <1>2, Booleans
  <2>2. pc' \in {"joining", "freeing", "returned"}
    BY <1>2
  <2> QED
    BY <1>1, <1>2, <2>1, <2>2, Booleans DEF TypeOK, sharedVars, takionVars
<1>4. PhasesAgree'
  BY <1>1, <1>2, Booleans DEF PhasesAgree, takionVars
<1>5. StatesAgree' /\ MessagesAgree'
  BY <1>1, <1>2 DEF StatesAgree, MessagesAgree, sharedVars, takionVars
<1>6. MemoryAgrees'
  BY <1>1, <1>2, Booleans DEF MemoryAgrees, sharedVars, takionVars
<1> QED
  BY <1>3, <1>4, <1>5, <1>6 DEF Inv

LEMMA StreamingInv == Inv /\ StreamingEnds => Inv'
<1> SUFFICES ASSUME Inv, StreamingEnds PROVE Inv'
  OBVIOUS
<1>1. /\ pc = "streaming" /\ feedback' = FALSE
      /\ Disconnect("success") /\ RunUnchanged
  BY DEF StreamingEnds, Resumes
<1> QED
  BY <1>1, DisconnectInv DEF Results

LEMMA NextInv == Inv /\ [Next]_vars => Inv'
<1> SUFFICES ASSUME Inv, [Next]_vars PROVE Inv'
  OBVIOUS
<1>1. CASE RunStep
  BY <1>1, RunInv, WaitsInv, TeardownInv, StreamingInv, ConnectWaitInv, BangWaitInv, InfoWaitInv
     DEF RunStep
<1>2. CASE TakionStep \/ TakionBreaks
  BY <1>2, TakionInv, DeliverInv DEF TakionStep
<1>3. CASE Stop \/ \E m \in Messages : ConsoleSends(m)
  BY <1>3, OthersInv
<1>4. CASE UNCHANGED vars
  <2>1. UNCHANGED <<runVars, sharedVars, takionVars, shouldStop, sent>>
    BY <1>4 DEF vars
  <2>2. TypeOK'
    BY <2>1, Booleans DEF Inv, TypeOK, runVars, sharedVars, takionVars
  <2> QED
    BY <2>1, <2>2 DEF Inv, PhasesAgree, StatesAgree, MessagesAgree, MemoryAgrees,
                      runVars, sharedVars, takionVars
<1> QED
  BY <1>1, <1>2, <1>3, <1>4 DEF Next

LEMMA Invariance == Spec => []Inv
  BY InitInv, NextInv, PTL DEF Spec

\* In every execution the variables keep their types.
THEOREM TypeCorrect == Spec => []TypeOK
<1>1. Inv => TypeOK
  BY DEF Inv
<1> QED
  BY <1>1, Invariance, PTL

\* Whatever comes early, late or not at all, and whichever faults happen, the
\* user is told CONNECTED only after BANG and STREAMINFO were handled well.
THEOREM ConnectedIsReady == Spec => []ConnectedMeansReady
<1>1. Inv => ConnectedMeansReady
  BY DEF Inv, MemoryAgrees, ConnectedMeansReady
<1> QED
  BY <1>1, Invariance, PTL

\* The run never waits for a message that was already handled.
THEOREM NeverWaitsInVain == Spec => []NoWaitInVain
<1>1. Inv => NoWaitInVain
  BY DEF Inv, MemoryAgrees, NoWaitInVain
<1> QED
  BY <1>1, Invariance, PTL

\* The receivers outlive Takion's thread, and the feedback sender ends before it.
THEOREM TeardownCorrect == Spec => []TeardownInOrder
<1>1. Inv => TeardownInOrder
  <2> SUFFICES ASSUME Inv PROVE TeardownInOrder
    OBVIOUS
  <2>1. TypeOK /\ PhasesAgree
    BY DEF Inv
  <2> QED
    BY <2>1, Booleans DEF PhasesAgree, TeardownInOrder
<1> QED
  BY <1>1, Invariance, PTL
=============================================================================
