----------------------------- MODULE StreamInput -----------------------------
(***************************************************************************)
(* gui/src/streamsession.cpp: what the player does with keyboard, mouse,   *)
(* touch screen, touchpads (setsu) and controllers, and the one controller *)
(* state that is sent of it.  All of it runs on the GUI thread.            *)
(*                                                                         *)
(* Every source has a ChiakiControllerState of its own (lib/src/           *)
(* controller.c); sticks and triggers go the way of the buttons.  The d-pad*)
(* may be used as a finger on the touchpad: of its two axes one is shown.  *)
(***************************************************************************)
EXTENDS Naturals, FiniteSets

CONSTANTS None,        \* no touch
          Keys,        \* buttons the keyboard is mapped to
          PadButtons,  \* buttons of the controllers, arrows left out
          Fingers,     \* on the touch screen
          SetsuFingers,\* on a touchpad
          Shortcut,    \* the buttons that switch the d-pad over
          Slots,       \* CHIAKI_CONTROLLER_TOUCHES_MAX slots
          IdMod,       \* TOUCH_ID_MASK + 1
          Width, Step, \* PS_TOUCHPAD_MAX, dpad_touch_increment
          Devices      \* bound: the sets of devices a player uses

Arrows == {"left", "right"}
Click == "touchpad"
Sources == {"setsu", "keyboard", "touch", "dpad"}

VARIABLES state,      \* the controller state of each source
          pads,       \* the buttons held on the controllers
          tracker,    \* finger -> its touch id: touch_tracker, setsu_ids, mouse_touch_id
          block,      \* input_block
          dpad,       \* the d-pad's finger: id, place, timers, dpad_regular
          sent,       \* the state last given to the session
          world,      \* what is really held: keys, mouse buttons, fingers
          stale,      \* history: buttons held since before the input was given back
          behind      \* history: a touchpad was clicked, and nothing sent since
vars == <<state, pads, tracker, block, dpad, sent, world, stale, behind>>

Idle == [buttons |-> {}, touches |-> [k \in Slots |-> None], next |-> 0]

Free(s) == {k \in Slots : s.touches[k] = None}
FirstFree(s) == CHOOSE k \in Free(s) : \A j \in Free(s) : k <= j
StartTouch(s) ==
  IF Free(s) = {} THEN s
  ELSE [s EXCEPT !.touches[FirstFree(s)] = s.next, !.next = (@ + 1) % IdMod]
StartedId(s) == IF Free(s) = {} THEN None ELSE s.next
StopTouch(s, id) ==
  LET has == {k \in Slots : s.touches[k] = id} IN
  IF has = {} \/ id = None THEN s
  ELSE [s EXCEPT !.touches[CHOOSE k \in has : \A j \in has : k <= j] = None]

Or(a, b) ==
  [buttons |-> a.buttons \union b.buttons,
   touches |-> [k \in Slots |-> IF a.touches[k] # None THEN a.touches[k] ELSE b.touches[k]],
   next |-> 0]

-----------------------------------------------------------------------------
(* SendFeedbackState, and DpadSendFeedbackState with "placeholder"          *)

Merged(st, held) ==
  Or(Or(Or(st["setsu"], [Idle EXCEPT !.buttons = held]), st["keyboard"]), st["touch"])

\* mutant: the input is given back at once
UnblocksAtOnce(blk, merged) == blk = 2
Unblocks(blk, merged) == blk = 2 /\ merged.buttons = {}

Turned(d, s) ==
  LET together == Shortcut # {} /\ Shortcut \subseteq s.buttons IN
  [d EXCEPT !.regular = IF together /\ ~d.switched THEN ~@ ELSE @,
            !.switched = together]

\* HandleDpadTouchEvent: left is asked first; the finger stops at an edge.
Moved(d, way, id) ==
  IF d.id = None
  THEN [d EXCEPT !.id = id, !.at = IF way = "left" THEN 0 ELSE Width]
  ELSE [d EXCEPT !.at = IF way = "left" THEN (IF @ < Step THEN 0 ELSE @ - Step)
                        ELSE (IF @ + Step > Width THEN Width ELSE @ + Step)]
DpadTouch(d, way, id, placeholder) ==
  [Moved(d, way, id) EXCEPT !.ticks = @ \/ ~placeholder, !.stops = @ /\ placeholder]
\* mutant: the stop timer is not started
RestNever(d) == d
DpadRest(d) == [d EXCEPT !.stops = @ \/ d.id # None]

SendState(st, held, blk, d, placeholder) ==
  LET merged == Merged(st, held)
      blocked == blk # 0 /\ ~Unblocks(blk, merged)
      passed == IF blocked THEN Idle ELSE merged
      turned == Turned(d, passed)
      arrows == passed.buttons \intersect Arrows
      touches == ~turned.regular /\ arrows # {}
      way == IF "left" \in arrows THEN "left" ELSE "right"
      finger == IF touches /\ d.id = None THEN StartTouch(st["dpad"]) ELSE st["dpad"]
  IN  /\ block' = IF Unblocks(blk, merged) THEN 0 ELSE blk
      /\ state' = [st EXCEPT !["keyboard"] = IF blocked THEN Idle ELSE @, !["dpad"] = finger]
      /\ pads' = held
      /\ dpad' = IF touches THEN DpadTouch(turned, way, StartedId(st["dpad"]), placeholder)
                            ELSE DpadRest(turned)
      /\ sent' = Or([passed EXCEPT !.buttons = IF touches THEN @ \ {way} ELSE @], finger)
      /\ behind' = FALSE
      /\ LET down == held \union world'.keys IN
         stale' = down \intersect (stale \union (IF block' = 0 THEN {} ELSE down))

Send(st) == SendState(st, pads, block, dpad, FALSE)

-----------------------------------------------------------------------------
(* Keyboard and mouse                                                       *)

Now(source, s) == [state EXCEPT ![source] = s]
Press(s, b) == [s EXCEPT !.buttons = @ \union {b}]
Release(s, b) == [s EXCEPT !.buttons = @ \ {b}]

Uses(device) == device \in world.devices

HandleKeyboardEvent == Uses("keyboard") /\ \E k \in Keys :
  \/ /\ k \notin world.keys
     /\ world' = [world EXCEPT !.keys = @ \union {k}]
     /\ Send(Now("keyboard", Press(state["keyboard"], k)))
     /\ UNCHANGED tracker
  \/ /\ k \in world.keys
     /\ world' = [world EXCEPT !.keys = @ \ {k}]
     /\ Send(Now("keyboard", Release(state["keyboard"], k)))
     /\ UNCHANGED tracker

HandleMousePressEvent == Uses("mouse") /\ \E b \in {"left_button", "other_button"} \ world.mouse :
  /\ world' = [world EXCEPT !.mouse = @ \union {b}]
  /\ LET kb == state["keyboard"] IN
     Send(Now("keyboard", IF b = "other_button" THEN Press(kb, Click) ELSE kb))
  /\ UNCHANGED tracker

HandleMouseReleaseEvent == \E b \in world.mouse :
  /\ world' = [world EXCEPT !.mouse = @ \ {b}]
  /\ LET kb == Release(state["keyboard"], Click) IN
     IF b = "left_button"
     THEN /\ Send(Now("keyboard", StopTouch(kb, tracker["mouse"])))
          /\ tracker' = [tracker EXCEPT !["mouse"] = None]
     ELSE Send(Now("keyboard", kb)) /\ UNCHANGED tracker

\* Bound: fewer than IdMod touches begin in a source while one is held.
CanBegin(source) == \A k \in Slots : state[source].touches[k] # state[source].next

\* Moved with the left button alone, the mouse is a finger.  Every move sends.
HandleMouseMoveEvent ==
  LET begins == world.mouse = {"left_button"} /\ tracker["mouse"] = None
      kb == state["keyboard"]
  IN  /\ Uses("mouse") /\ (begins => CanBegin("keyboard"))
      /\ UNCHANGED world
      /\ tracker' = [tracker EXCEPT !["mouse"] = IF begins THEN StartedId(kb) ELSE @]
      /\ Send(Now("keyboard", IF begins THEN StartTouch(kb) ELSE kb))

-----------------------------------------------------------------------------
(* Touch screen and touchpads                                               *)

\* One finger of the event has changed, the others are stationary.  A tap at the
\* edge, or soon after another, is a click.
TouchMoves(f) ==
  LET t == Release(state["touch"], Click)
      isNew == tracker[f] = None
  IN \E clicks \in BOOLEAN :
     LET touched == IF clicks THEN Press(t, Click) ELSE t IN
     /\ isNew => CanBegin("touch")
     /\ world' = [world EXCEPT !.fingers = @ \union {f}]
     /\ tracker' = [tracker EXCEPT ![f] = IF isNew THEN StartedId(t) ELSE @]
     /\ Send(Now("touch", IF isNew THEN StartTouch(touched) ELSE touched))

TouchEnds(f) ==
  /\ f \in world.fingers
  /\ world' = [world EXCEPT !.fingers = @ \ {f}]
  /\ tracker' = [tracker EXCEPT ![f] = None]
  /\ Send(Now("touch", StopTouch(Release(state["touch"], Click), tracker[f])))

HandleTouchEvent == Uses("touch") /\ \E f \in Fingers : TouchMoves(f) \/ TouchEnds(f)

SetsuPosition(f) ==
  /\ tracker[f] = None => CanBegin("setsu")
  /\ world' = [world EXCEPT !.fingers = @ \union {f}]
  /\ IF tracker[f] = None /\ Free(state["setsu"]) = {}
     THEN UNCHANGED <<state, pads, tracker, block, dpad, sent, stale, behind>>
     ELSE /\ tracker' = [tracker EXCEPT ![f] = IF @ = None THEN StartedId(state["setsu"]) ELSE @]
          /\ Send(Now("setsu", IF tracker[f] = None THEN StartTouch(state["setsu"])
                               ELSE state["setsu"]))

SetsuUp(f) ==
  /\ f \in world.fingers
  /\ world' = [world EXCEPT !.fingers = @ \ {f}]
  /\ tracker' = [tracker EXCEPT ![f] = None]
  /\ Send(Now("setsu", StopTouch(state["setsu"], tracker[f])))

\* The button is noted, and sent with what comes next.
SetsuButton ==
  /\ world' = [world EXCEPT !.click = ~@]
  /\ state' = Now("setsu", IF world.click THEN Release(state["setsu"], Click)
                                          ELSE Press(state["setsu"], Click))
  /\ behind' = TRUE
  /\ UNCHANGED <<pads, tracker, block, dpad, sent, stale>>

\* The touchpad is unplugged with fingers on it: its touches end, its button stays.
SetsuRemoved ==
  LET all == [k \in Slots |-> None] IN
  /\ world.fingers \intersect SetsuFingers # {}
  /\ world' = [world EXCEPT !.fingers = @ \ SetsuFingers]
  /\ tracker' = [f \in DOMAIN tracker |-> IF f \in SetsuFingers THEN None ELSE tracker[f]]
  /\ Send(Now("setsu", [state["setsu"] EXCEPT !.touches = all]))

HandleSetsuEvent ==
  /\ Uses("setsu")
  /\ \/ \E f \in SetsuFingers : SetsuPosition(f) \/ SetsuUp(f)
     \/ SetsuButton \/ SetsuRemoved

-----------------------------------------------------------------------------
(* Controllers, the grab of the input, and the timers                       *)

ControllerStateChanged == Uses("pad") /\ \E b \in PadButtons \union Arrows :
  /\ UNCHANGED <<world, tracker>>
  /\ SendState(state, IF b \in pads THEN pads \ {b} ELSE pads \union {b}, block, dpad, FALSE)

\* The last controller is unplugged.
UpdateGamepads ==
  /\ pads # {}
  /\ UNCHANGED <<world, tracker>>
  /\ SendState(state, {}, block, dpad, FALSE)

\* The window takes the input for a menu, and gives it back.
BlockInput == \E blk \in {1, 2} :
  /\ blk = 2 => block = 1
  /\ UNCHANGED <<world, tracker>>
  /\ SendState(state, pads, blk, dpad, FALSE)

DpadTick ==
  /\ dpad.ticks
  /\ UNCHANGED <<world, tracker>>
  /\ SendState(state, pads, block, dpad, TRUE)

DpadStop ==
  /\ dpad.stops
  /\ UNCHANGED <<world, tracker>>
  /\ SendState(Now("dpad", StopTouch(state["dpad"], dpad.id)), pads, block,
               [dpad EXCEPT !.ticks = FALSE, !.stops = FALSE, !.id = None], FALSE)

-----------------------------------------------------------------------------
Init ==
  /\ state = [source \in Sources |-> Idle] /\ pads = {}
  /\ tracker = [f \in Fingers \union SetsuFingers \union {"mouse"} |-> None]
  /\ block = 0
  /\ dpad = [id |-> None, at |-> 0, ticks |-> FALSE, stops |-> FALSE,
             regular |-> FALSE, switched |-> FALSE]
  /\ sent = Idle
  /\ \E d \in Devices :
       world = [keys |-> {}, mouse |-> {}, fingers |-> {}, click |-> FALSE, devices |-> d]
  /\ stale = {} /\ behind = FALSE

Next ==
  \/ HandleKeyboardEvent \/ HandleMousePressEvent \/ HandleMouseReleaseEvent
  \/ HandleMouseMoveEvent \/ HandleTouchEvent \/ HandleSetsuEvent
  \/ ControllerStateChanged \/ UpdateGamepads \/ BlockInput \/ DpadTick \/ DpadStop

Spec == Init /\ [][Next]_vars
FairSpec == Spec /\ WF_vars(DpadStop)

-----------------------------------------------------------------------------
TypeOK ==
  /\ block \in 0..2
  /\ DOMAIN state = Sources
  /\ sent.touches \in [Slots -> {None} \union 0..(IdMod - 1)]
  /\ dpad.id = None \/ dpad.id \in 0..(IdMod - 1)

\* "Only unblock input after all buttons were released": what was held while the
\* window had the input is not sent before it is pressed anew.
HeldIsNotSent == sent.buttons \intersect stale = {}

\* Nothing is stuck: with every key, button and finger up, no source holds anything.
NothingStuck ==
  pads = {} /\ world.keys = {} /\ world.mouse = {} /\ world.fingers = {} /\ ~world.click =>
    /\ \A s \in Sources \ {"dpad"} :
         state[s].buttons = {} /\ Free(state[s]) = Slots
    /\ \A f \in DOMAIN tracker : tracker[f] = None
    /\ ~behind => sent.buttons = {}

\* A finger that is tracked moves its own touch: the ids of a source are distinct.
OwnTouch ==
  /\ \A s \in Sources : \A j, k \in Slots :
       j # k /\ state[s].touches[j] # None => state[s].touches[j] # state[s].touches[k]
  /\ \A f \in Fingers : tracker[f] # None =>
       \E k \in Slots : state["touch"].touches[k] = tracker[f]

\* The session has what the sources hold, the d-pad's use as a finger taken out.
SentIsHeld ==
  block = 0 /\ ~behind =>
    /\ sent.buttons \ Arrows = Merged(state, pads).buttons \ Arrows
    /\ \A k \in Slots : sent.touches[k] # None <=>
         \E s \in Sources : state[s].touches[k] # None

DpadOnPad == dpad.at \in 0..Width

Safe == HeldIsNotSent /\ NothingStuck /\ OwnTouch /\ SentIsHeld /\ DpadOnPad

\* The d-pad's finger is lifted when the d-pad is let go.
DpadLifted == dpad.id = None \/ pads \intersect Arrows # {}
DpadTouchEnds == []<>DpadLifted
=============================================================================
