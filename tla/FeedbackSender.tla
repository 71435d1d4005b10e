--------------------------- MODULE FeedbackSender ---------------------------
(***************************************************************************)
(* lib/src/feedbacksender.c with its owner: the client's thread pushes     *)
(* controller states through chiaki_session_set_controller_state, the run  *)
(* of the stream connection starts and ends the sender, and the sender's   *)
(* thread sends every change of the buttons to the console.                *)
(*                                                                         *)
(* Each critical section of state_mutex is one step: the sender's thread   *)
(* gives it up in its wait and for the fired callback, so that nobody else *)
(* takes it while it is sending.                                           *)
(* feedback_sender_mutex is held across steps by the run only, while it    *)
(* joins the thread.  A tick of the clock is about 100 ms.                 *)
(*                                                                         *)
(* Of the controller state only buttons are kept.  Analog values and       *)
(* touches go the same way, and the state packets, with sticks and motion, *)
(* are left out.                                                           *)
(*                                                                         *)
(* The PS chord, chiaki_ps_chord_apply: holding OPTIONS and SHARE makes    *)
(* one pulse of the PS button, and keeps both from the console.  Its times *)
(* are relative to now: "start" is the age of chord_start_ms, which stops  *)
(* counting at Hold, and "pulse" what is left until pulse_until_ms; Unset  *)
(* stands for the zero of either.                                          *)
(***************************************************************************)
EXTENDS Integers, SequencesExt

CONSTANTS Hold,          \* ticks the chord is held before it fires
          Pulse,         \* ticks the PS button is pressed
          MaxWait,       \* ticks until the thread wakes by itself
          HistorySize    \* FEEDBACK_HISTORY_BUFFER_SIZE

SenderAssumption ==
  /\ Hold \in Nat \ {0} /\ Pulse \in Nat \ {0}
  /\ MaxWait \in Nat \ {0} /\ HistorySize \in Nat \ {0}

-----------------------------------------------------------------------------
(* The PS chord                                                             *)

Unset == -1

Sources == {"options", "share"}

Chords == [enabled : BOOLEAN, start : Unset .. Hold, pulse : Unset .. Pulse,
           fired : BOOLEAN, releasing : BOOLEAN]

Idle(enabled) ==
  [enabled |-> enabled, start |-> Unset, pulse |-> Unset, fired |-> FALSE, releasing |-> FALSE]

Later(chord) ==
  [chord EXCEPT !.start = IF @ = Unset \/ @ = Hold THEN @ ELSE @ + 1,
                !.pulse = IF @ <= 0 THEN @ ELSE @ - 1]

Held(buttons) == Sources \subseteq buttons

\* One button is still down after both were.
ReleaseTail(chord, buttons) ==
  ~Held(buttons) /\ chord.start # Unset /\ buttons \cap Sources # {}

\* mutant: a press in the tail goes on with the old hold
StartsAtOnce(chord, buttons) == Held(buttons) /\ chord.start = Unset

Starts(chord, buttons) == Held(buttons) /\ (chord.start = Unset \/ chord.releasing)

Fires(chord, buttons) ==
  /\ Held(buttons) /\ ~Starts(chord, buttons)
  /\ ~chord.fired /\ chord.start >= Hold

Tracked(chord, buttons) ==
  IF Starts(chord, buttons) THEN [chord EXCEPT !.start = 0, !.releasing = FALSE]
  ELSE IF Fires(chord, buttons) THEN [chord EXCEPT !.fired = TRUE, !.pulse = Pulse]
  ELSE IF Held(buttons) THEN chord
  ELSE IF ReleaseTail(chord, buttons) THEN [chord EXCEPT !.releasing = TRUE]
  ELSE [chord EXCEPT !.start = Unset, !.fired = FALSE, !.releasing = FALSE]

\* mutant: only the two together are suppressed
SuppressedTogether(chord, buttons) == IF Held(buttons) THEN Sources ELSE {}

Suppressed(chord, buttons) ==
  IF Held(buttons) \/ ReleaseTail(chord, buttons) THEN Sources ELSE {}

\* What the chord becomes, and the buttons that are sent.
ChordAfter(chord, buttons) ==
  IF ~chord.enabled THEN chord
  ELSE LET t == Tracked(chord, buttons) IN
       [t EXCEPT !.pulse = IF @ = 0 THEN Unset ELSE @]

ButtonsAfter(chord, buttons) ==
  IF ~chord.enabled THEN buttons
  ELSE (buttons \ Suppressed(chord, buttons))
       \cup (IF Tracked(chord, buttons).pulse > 0 THEN {"ps"} ELSE {})

-----------------------------------------------------------------------------

VARIABLES run,       \* the run: "before", "streaming", "joining" or "after"
          owner,     \* feedback_sender_mutex: "free" or held by the "run"
          pushed,    \* session->controller_state
          sender,    \* the thread: "none", "waiting", "sending", "callback",
                     \* "pushing" or "ended"
          waited,    \* ticks of the current wait
          should_stop, controller_state_changed,
          controller_state_raw, controller_state, controller_state_prev,
          chord_just_fired, ps_chord,
          history_buf,   \* the last events, newest first
          lost,          \* packets with history that were lost in a row
          console,       \* the buttons the console takes to be pressed
          heldSince,     \* history: age of the oldest of the last wakes that
                         \* all found both buttons held, or Unset
          armed,         \* history: both were up since the chord last fired
          engaged        \* history: both were held, and not up since

ownerVars == <<run, owner, pushed>>
netVars == <<history_buf, lost, console>>
histVars == <<heldSince, armed, engaged>>
threadVars == <<sender, waited, should_stop, controller_state_changed,
                controller_state_raw, controller_state, controller_state_prev,
                chord_just_fired>>
vars == <<ownerVars, threadVars, ps_chord, netVars, histVars>>

\* In the order of their bits.
ButtonList == <<"cross", "options", "share", "ps">>
Buttons == ToSet(ButtonList)
Pressable == Buttons \ {"ps"}

Init ==
  /\ run = "before" /\ owner = "free" /\ pushed = {}
  /\ sender = "none" /\ waited = 0 /\ should_stop = FALSE
  /\ controller_state_changed = FALSE
  /\ controller_state_raw = {} /\ controller_state = {} /\ controller_state_prev = {}
  /\ chord_just_fired = FALSE
  /\ ps_chord = Idle(FALSE)
  /\ history_buf = <<>> /\ lost = 0 /\ console = {}
  /\ heldSince = Unset /\ armed = TRUE /\ engaged = FALSE

-----------------------------------------------------------------------------
(* The client                                                               *)

\* mutant: compared with what was sent
SetControllerStateSent(state) ==
  IF controller_state_prev = state
  THEN UNCHANGED <<controller_state_raw, controller_state_changed>>
  ELSE controller_state_raw' = state /\ controller_state_changed' = TRUE

SetControllerState(state) ==
  IF controller_state_raw = state
  THEN UNCHANGED <<controller_state_raw, controller_state_changed>>
  ELSE controller_state_raw' = state /\ controller_state_changed' = TRUE

\* chiaki_session_set_controller_state.
SessionSets(state) ==
  /\ owner = "free"
  /\ pushed' = state
  /\ IF run = "streaming" THEN sender # "sending" /\ SetControllerState(state)
     ELSE UNCHANGED <<controller_state_raw, controller_state_changed>>

\* Bound: pushes after the end, which only change pushed, are left out.
ClientPushes(state) ==
  /\ run # "after"
  /\ SessionSets(state)
  /\ UNCHANGED <<run, owner, sender, waited, should_stop, controller_state, controller_state_prev,
                 chord_just_fired,
                 ps_chord, netVars, histVars>>

\* A change of the settings forgets the chord.
Forget == heldSince' = Unset /\ armed' = TRUE /\ engaged' = FALSE

\* chiaki_session_set_ps_chord.
ClientSetsChord(enabled) ==
  /\ owner = "free" /\ run = "streaming" /\ sender # "sending"
  /\ ps_chord' = Idle(enabled)
  /\ Forget
  /\ UNCHANGED <<ownerVars, threadVars, netVars>>

-----------------------------------------------------------------------------
(* The run of the stream connection                                         *)

Start(enabled) ==
  /\ run = "before"
  /\ run' = "streaming" /\ sender' = "waiting" /\ waited' = 0
  /\ ps_chord' = Idle(enabled)
  /\ SetControllerState(pushed)
  /\ UNCHANGED <<owner, pushed, should_stop, controller_state, controller_state_prev,
                 chord_just_fired, netVars, histVars>>

FiniStops ==
  /\ run = "streaming" /\ owner = "free" /\ sender # "sending"
  /\ run' = "joining" /\ owner' = "run" /\ should_stop' = TRUE
  /\ UNCHANGED <<pushed, sender, waited, controller_state_changed, controller_state_raw,
                 controller_state, controller_state_prev, chord_just_fired, ps_chord, netVars, histVars>>

FiniJoins ==
  /\ run = "joining" /\ sender = "ended"
  /\ run' = "after" /\ owner' = "free"
  /\ UNCHANGED <<pushed, threadVars, ps_chord, netVars, histVars>>

-----------------------------------------------------------------------------
(* The history                                                              *)

\* mutant: the oldest event is never overwritten
PushAll(buf, event) == <<event>> \o buf

\* mutant: the newest event is overwritten
PushInPlace(buf, event) == IF buf = <<>> THEN <<event>> ELSE [buf EXCEPT ![1] = event]

\* chiaki_feedback_history_buffer_push.
HistoryPush(buf, event) ==
  <<event>> \o SubSeq(buf, 1, Min({Len(buf), HistorySize - 1}))

\* What the console makes of the events that are new to it, newest first.
Seen(new, view) ==
  LET Of(button) == {i \in DOMAIN new : new[i].button = button} IN
  {button \in Buttons :
     IF Of(button) # {} THEN \E i \in Of(button) : new[i].down /\ \A j \in Of(button) : i <= j
     ELSE button \in view}

\* A packet has the whole buffer, and the console (external) learns from
\* history_seq_num how many of the events are new to it.  The network never
\* loses HistorySize packets in a row.
SendPacket(buf) ==
  \/ /\ lost' = 0
     /\ console' = Seen(SubSeq(buf, 1, Min({Len(buf), lost + 1})), console)
  \/ /\ lost + 1 < HistorySize
     /\ lost' = lost + 1
     /\ UNCHANGED console

-----------------------------------------------------------------------------
(* The thread                                                               *)

\* mutant: the wait has no timeout
CanWakeIfPushed == controller_state_changed \/ should_stop

CanWake == controller_state_changed \/ should_stop \/ waited >= MaxWait

\* What the wake saw, for the properties.
Saw(buttons) ==
  /\ heldSince' = IF ps_chord.enabled /\ Held(buttons)
                  THEN IF heldSince = Unset THEN 0 ELSE heldSince
                  ELSE Unset
  /\ armed' = ((armed \/ buttons \cap Sources = {}) /\ ~Fires(ps_chord, buttons))
  /\ engaged' = (ps_chord.enabled /\ (Held(buttons) \/ (engaged /\ buttons \cap Sources # {})))

JustFired == ~ps_chord.fired /\ ps_chord'.fired

Wake ==
  /\ sender = "waiting" /\ CanWake /\ ~should_stop
  /\ controller_state_changed' = FALSE
  /\ ps_chord' = ChordAfter(ps_chord, controller_state_raw)
  /\ controller_state' = ButtonsAfter(ps_chord, controller_state_raw)
  /\ chord_just_fired' = JustFired
  /\ sender' = "sending"
  /\ Saw(controller_state_raw)
  /\ UNCHANGED <<ownerVars, waited, should_stop, controller_state_raw, controller_state_prev,
                 netVars>>

\* The buttons that changed.
Pending == {button \in Buttons : (button \in controller_state_prev) # (button \in controller_state)}

\* The first of them in the order of the bits.
NextButton == ButtonList[Min({i \in DOMAIN ButtonList : ButtonList[i] \in Pending})]

\* One event, and a packet, for the first of them.  The code sets
\* controller_state_prev after the last, and compares each button once.
SendEvent ==
  /\ sender = "sending" /\ Pending # {}
  /\ LET event == [button |-> NextButton, down |-> NextButton \in controller_state]
     IN /\ history_buf' = HistoryPush(history_buf, event)
        /\ controller_state_prev' = Seen(<<event>>, controller_state_prev)
  /\ SendPacket(history_buf')
  /\ UNCHANGED <<ownerVars, sender, waited, should_stop, controller_state_changed,
                 controller_state_raw, controller_state, chord_just_fired, ps_chord, histVars>>

SendEnds ==
  /\ sender = "sending" /\ Pending = {}
  /\ sender' = IF chord_just_fired THEN "callback" ELSE "waiting"
  /\ waited' = 0 /\ chord_just_fired' = FALSE
  /\ UNCHANGED <<ownerVars, should_stop, controller_state_changed, controller_state_raw,
                 controller_state, controller_state_prev, ps_chord, netVars, histVars>>

WakeToStop ==
  /\ sender = "waiting" /\ should_stop
  /\ sender' = "ended"
  /\ UNCHANGED <<ownerVars, waited, should_stop, controller_state_changed, controller_state_raw,
                 controller_state, controller_state_prev, chord_just_fired, ps_chord, netVars, histVars>>

\* The client's callback may push a controller state, for which it needs
\* feedback_sender_mutex.
CallbackEnters ==
  /\ sender = "callback"
  /\ sender' \in {"pushing", "waiting"}
  /\ UNCHANGED <<ownerVars, waited, should_stop, controller_state_changed, controller_state_raw,
                 controller_state, controller_state_prev, chord_just_fired, ps_chord, netVars, histVars>>

CallbackPushes(state) ==
  /\ sender = "pushing"
  /\ SessionSets(state)
  /\ sender' = "waiting"
  /\ UNCHANGED <<run, owner, waited, should_stop, controller_state, controller_state_prev,
                 chord_just_fired, ps_chord, netVars,
                 histVars>>

SenderStep ==
  \/ Wake \/ SendEvent \/ SendEnds \/ WakeToStop \/ CallbackEnters
  \/ \E state \in SUBSET Pressable : CallbackPushes(state)

\* The clock.  A thread that can wake does so within a tick.
Tick ==
  /\ sender \in {"waiting", "callback", "pushing"}
  /\ sender = "waiting" => ~CanWake
  /\ waited' = Min({waited + 1, MaxWait})
  /\ ps_chord' = Later(ps_chord)
  /\ heldSince' = IF heldSince = Unset THEN Unset ELSE Min({heldSince + 1, Hold})
  /\ UNCHANGED <<ownerVars, sender, should_stop, controller_state_changed, controller_state_raw,
                 controller_state, controller_state_prev, chord_just_fired, netVars, armed, engaged>>

Next ==
  \/ SenderStep \/ Tick \/ FiniStops \/ FiniJoins
  \/ \E state \in SUBSET Pressable : ClientPushes(state)
  \/ \E enabled \in BOOLEAN : Start(enabled) \/ ClientSetsChord(enabled)

\* Threads run, and time passes however often the client pushes; the client and
\* the end of the run are free.
Spec == Init /\ [][Next]_vars /\ WF_vars(SenderStep \/ FiniJoins) /\ SF_vars(Tick)

-----------------------------------------------------------------------------

\* Every variable has its type, and the history never outgrows its buffer.
TypeOK ==
  /\ run \in {"before", "streaming", "joining", "after"} /\ owner \in {"free", "run"}
  /\ sender \in {"none", "waiting", "sending", "callback", "pushing", "ended"}
  /\ waited \in 0 .. MaxWait /\ {should_stop, controller_state_changed, armed, engaged} \subseteq BOOLEAN
  /\ pushed \subseteq Pressable /\ controller_state_raw \subseteq Pressable
  /\ controller_state \subseteq Buttons /\ controller_state_prev \subseteq Buttons /\ console \subseteq Buttons
  /\ ps_chord \in Chords /\ heldSince \in Unset .. Hold
  /\ Len(history_buf) <= HistorySize /\ lost \in 0 .. HistorySize - 1

\* The chord fires only after both buttons were found held at every wake for the
\* whole hold time, and once until both have been up again.
OncePerFullHold == JustFired => heldSince = Hold /\ armed
FiresOncePerFullHold == [][OncePerFullHold]_vars

\* From the wake that finds both buttons held until one that finds both up, no
\* press of either reaches the console, whatever the order of the releases.
SourcesDoNotLeak ==
  (engaged /\ sender # "sending") => controller_state_prev \cap Sources = {}

\* The sender has the last state that was pushed, also one that is equal to an
\* earlier one or comes during the callback, and has sent it once nothing is
\* marked as changed.
LastPushIsSent ==
  /\ run = "streaming" => controller_state_raw = pushed
  /\ (sender = "waiting" /\ ~controller_state_changed) =>
       ("cross" \in controller_state_prev <=> "cross" \in controller_state_raw)

\* A packet that arrives after others were lost brings the console up to date.
HistoryRepairsLoss == lost = 0 => console = controller_state_prev

\* A pulse of the PS button ends, although no push wakes the thread.
PulseOver == "ps" \notin controller_state_prev \/ should_stop
PulseEnds == []<>PulseOver

\* "the client callback may re-enter the lib (e.g. push a controller state)":
\* the sender can be ended also then.
FiniReturns == run = "joining" ~> run = "after"
-----------------------------------------------------------------------------
(* The inductive invariant that these properties follow from               *)

Events == [button : Buttons, down : BOOLEAN]

\* Before the start nothing has been pushed or seen, and there is no thread.
NotBegun ==
  /\ sender = "none" <=> run = "before"
  /\ run = "before" =>
       /\ controller_state_raw = {} /\ controller_state_prev = {} /\ ~controller_state_changed
       /\ heldSince = Unset /\ armed /\ ~engaged

\* A button that the chord leaves alone is on its way from push to packet.
CrossFollows ==
  /\ run = "streaming" => controller_state_raw = pushed
  /\ sender = "sending" =>
       ~controller_state_changed /\ ("cross" \in controller_state <=> "cross" \in controller_state_raw)
  /\ (sender \in {"waiting", "callback", "pushing"} /\ ~controller_state_changed) =>
       ("cross" \in controller_state_prev <=> "cross" \in controller_state_raw)

\* The chord that has engaged is being tracked, and what is sent or being sent
\* has neither of its buttons.
EngagedIsSilent ==
  engaged => /\ ps_chord.enabled /\ ps_chord.start # Unset
             /\ (IF sender = "sending" THEN controller_state ELSE controller_state_prev) \cap Sources = {}

\* The chord's own times and flags agree with what the wakes saw.
ChordAgrees ==
  /\ ~ps_chord.enabled => ps_chord = Idle(FALSE)
  /\ ps_chord.fired => ps_chord.start # Unset
  /\ ~ps_chord.fired => armed
  /\ (ps_chord.start # Unset /\ ~ps_chord.releasing) => heldSince >= ps_chord.start

\* The packets that were lost are still in the buffer, and make up for what the
\* console does not know.
BufferCovers ==
  /\ history_buf \in Seq(Events) /\ lost <= Len(history_buf)
  /\ controller_state_prev = Seen(SubSeq(history_buf, 1, lost), console)

Inv ==
  /\ TypeOK /\ NotBegun /\ CrossFollows
  /\ EngagedIsSilent /\ ChordAgrees /\ BufferCovers
=============================================================================
