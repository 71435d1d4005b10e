---------------------------- MODULE Controllers ----------------------------
(***************************************************************************)
(* Who holds a game controller, and what a session makes it do:            *)
(* gui/src/controllermanager.cpp (SDL, reference counts, buttons),         *)
(* gui/src/qmlcontroller.cpp (keys of the menus), updateControllers of     *)
(* gui/src/qmlbackend.cpp, UpdateGamepads and the haptics of               *)
(* gui/src/streamsession.cpp.  All on the GUI thread; SDL, the player, the *)
(* sound system and the console go on between its events.                  *)
(*                                                                         *)
(* A pad is one stay of a controller: SDL gives a new id to one that comes *)
(* back.  The session runs without a Steam Deck's own driver (sdeck).      *)
(***************************************************************************)
EXTENDS Integers, FiniteSets, Sequences

CONSTANTS Pads, DualSense, Handheld,  \* what the ids of the product say
          Stays,        \* pads that are never taken away
          Played,       \* bound: the pads whose buttons are used
          Buttons,      \* buttons the menus know, and Mic, the one that mutes
          Mic, None,
          MaxRepeat,    \* 50: times a held button is repeated
          Batch,        \* RUMBLE_HAPTICS_PACKETS_PER_RUMBLE
          MaxFrames, MaxSessions  \* bounds

VARIABLES attached, gone,    \* SDL: pads that are there, pads that were
          audio,             \* DualSense pads whose sound device is there
          available,         \* available_controllers
          ref, object,       \* Controller.ref; "none", "live", "leaving" (deleteLater)
          backend, dying,    \* QmlBackend.controllers; QmlControllers to be deleted
          session, mine,     \* is there a session; its controllers
          handheld,          \* haptics_handheld
          output,            \* the pad behind haptics_output
          waits,             \* singleShot timers: {"first", "second"}
          held, buttons, push, \* what is held; Controller.state.buttons, micbutton_push
          mixed,             \* history: a button came while Mic was held
          menu,              \* QmlController: pressed_key, the timer, repeat_running
          rumble, on, spin,  \* rumble_haptics, rumble_haptics_on; how a pad shakes
          frames, sessions
padVars == <<held, buttons, push, mixed, menu>>
shake == <<rumble, on, spin, frames>>
own == <<ref, object, backend, dying>>
sess == <<session, mine, handheld, output, waits, sessions>>
vars == <<attached, gone, audio, available, own, sess, padVars, shake>>

Quiet == [key |-> None, timer |-> FALSE, run |-> 0]

-----------------------------------------------------------------------------
(* SDL and the world                                                        *)

Plug(d) ==
  /\ d \notin attached \union gone
  /\ attached' = attached \union {d}
  /\ UNCHANGED <<gone, audio, available, own, sess, padVars, shake>>

\* An open controller is not attached any more (IsConnected).
Unplug(d) ==
  /\ d \in attached \ Stays
  /\ attached' = attached \ {d} /\ gone' = gone \union {d} /\ audio' = audio \ {d}
  /\ UNCHANGED <<available, own, sess, padVars, shake>>

SoundComes(d) ==
  /\ d \in (attached \intersect DualSense) \ audio
  /\ audio' = audio \union {d}
  /\ UNCHANGED <<attached, gone, available, own, sess, padVars, shake>>

-----------------------------------------------------------------------------
(* Reference counts                                                         *)

\* mutant: a controller is counted once, whoever opens it
RefOnce(r, ds) == [d \in Pads |-> IF d \in ds /\ r[d] = 0 THEN 1 ELSE r[d]]
\* OpenController: makes it, or finds it in open_controllers
Ref(r, ds) == [d \in Pads |-> r[d] + (IF d \in ds THEN 1 ELSE 0)]
Unref(r, ds) == [d \in Pads |-> r[d] - (IF d \in ds THEN 1 ELSE 0)]
\* At 0 it leaves open_controllers and is deleted when the loop comes round.
Objects(r, o) == [d \in Pads |-> IF r[d] > 0 THEN "live"
                                 ELSE IF o[d] = "live" THEN "leaving" ELSE o[d]]

-----------------------------------------------------------------------------
(* UpdateAvailableControllers: updateControllers, then UpdateGamepads       *)

Regular(ds) == ds \ Handheld
Gained(ds) == Cardinality(ds \intersect Handheld) - Cardinality(Regular(ds))
\* A handheld that leaves is not taken off.
Lost(ds) == Cardinality(Regular(ds))
Count(h, left, new) == h + Lost(left) + Gained(new)

\* DisconnectHaptics; WaitHaptics is timed for a new one unless there is output.
Gamepads(avail, r0, h0, m0, o0, w0) ==
  LET left == m0 \ attached
      new == avail \ (m0 \ left)
      out == IF left \intersect DualSense # {} THEN None ELSE o0 IN
  /\ mine' = (m0 \ left) \union new
  /\ ref' = Ref(Unref(r0, left), new)
  /\ handheld' = Count(h0, left, new)
  /\ output' = out
  /\ waits' = IF new \intersect DualSense # {} /\ out = None THEN w0 \union {"first"} ELSE w0

HandleDevices ==
  LET left == backend \ attached
      new == attached \ backend
      opened == Ref(ref, new) IN
  /\ available # attached
  /\ available' = attached
  /\ backend' = attached /\ dying' = dying \union left
  /\ IF session THEN Gamepads(attached, opened, handheld, mine, output, waits)
     ELSE ref' = opened /\ UNCHANGED <<mine, handheld, output, waits>>
  /\ object' = Objects(ref', Objects(opened, object))
  /\ UNCHANGED <<attached, gone, audio, session, sessions, padVars, shake>>

\* deleteLater: ~QmlController gives its reference back, then the controller goes.
Deletes ==
  /\ dying # {}
  /\ dying' = {}
  /\ ref' = Unref(ref, dying) /\ object' = Objects(ref', object)
  /\ menu' = [d \in Pads |-> IF d \in dying THEN Quiet ELSE menu[d]]
  /\ UNCHANGED <<attached, gone, audio, available, backend, sess, held, buttons, push, mixed, shake>>
Vanishes(d) ==
  /\ object[d] = "leaving"
  /\ object' = [object EXCEPT ![d] = "none"]
  /\ UNCHANGED <<attached, gone, audio, available, ref, backend, dying, sess, padVars, shake>>

-----------------------------------------------------------------------------
(* StreamSession                                                            *)

StartSession ==
  /\ ~session /\ sessions < MaxSessions
  /\ session' = TRUE /\ sessions' = sessions + 1
  /\ Gamepads(available, ref, 0, {}, None, {})
  /\ object' = Objects(ref', object)
  /\ rumble' = <<>> /\ on' = FALSE
  /\ UNCHANGED <<attached, gone, audio, available, backend, dying, padVars, spin, frames>>

\* ~StreamSession
EndSession ==
  /\ session
  /\ session' = FALSE /\ mine' = {} /\ output' = None /\ waits' = {} /\ handheld' = 0
  /\ ref' = Unref(ref, mine) /\ object' = Objects(ref', object)
  /\ rumble' = <<>> /\ on' = FALSE
  /\ spin' = [d \in Pads |-> spin[d] /\ d \notin mine]
  /\ UNCHANGED <<attached, gone, audio, available, backend, dying, sessions, padVars, frames>>

\* ConnectHaptics: any sound device that is called a DualSense
Connects(o) == IF output # None \/ audio = {} THEN o = output ELSE o \in audio
\* WaitHaptics and its second try
ConnectHaptics(w) ==
  /\ w \in waits
  /\ \E o \in Pads \union {None} :
       /\ Connects(o) /\ output' = o
       /\ waits' = (waits \ {w}) \union (IF w = "first" /\ o = None THEN {"second"} ELSE {})
  /\ UNCHANGED <<attached, gone, audio, available, own, session, mine, handheld, sessions, padVars, shake>>

-----------------------------------------------------------------------------
(* Rumble made of the console's haptics                                     *)

Shaken == {d \in mine : ~(handheld < 1 /\ d \in Handheld)}

\* PushHapticsFrame and QueueRumbleHaptics; a weak frame is not queued.
PushHapticsFrame ==
  /\ session /\ frames < MaxFrames /\ output = None /\ Shaken # {}
  /\ frames' = frames + 1 /\ rumble' = Append(rumble, 1)
  /\ UNCHANGED <<attached, gone, audio, available, own, sess, padVars, on, spin>>

\* mutant: only what is stronger than nothing is passed on
TellsStrong(strong, was) == strong
Tells(strong, was) == strong \/ was
\* the timer of ConnectRumbleHaptics
RumbleTick ==
  LET n == IF Len(rumble) < Batch THEN Len(rumble) ELSE Batch
      strong == n > 0 IN
  /\ session /\ (rumble # <<>> \/ on)
  /\ rumble' = SubSeq(rumble, n + 1, Len(rumble))
  /\ spin' = [d \in Pads |-> IF d \in Shaken /\ Tells(strong, on) THEN strong ELSE spin[d]]
  /\ on' = strong
  /\ UNCHANGED <<attached, gone, audio, available, own, sess, padVars, frames>>

\* SDL stops a rumble after 5 s; a DualSense is told by an effect that lasts.
RumbleFades(d) ==
  /\ spin[d] /\ (d \notin DualSense \/ d \notin attached)
  /\ spin' = [spin EXCEPT ![d] = FALSE]
  /\ UNCHANGED <<attached, gone, audio, available, own, sess, padVars, rumble, on, frames>>

-----------------------------------------------------------------------------
(* Buttons                                                                  *)

\* QmlController: a button goes down or up in what the controller reports.
\* mutant: the timer goes on
StopsNever(m, b) == FALSE
Stops(m, b) == m.key = b
Menu(m, old, new) ==
  IF new \ old # {} THEN [key |-> CHOOSE b \in new \ old : TRUE, timer |-> TRUE, run |-> 0]
  ELSE IF \E b \in old \ new : Stops(m, b) THEN [m EXCEPT !.timer = FALSE, !.run = 1] ELSE m
Reports(d, b1) ==
  /\ buttons' = [buttons EXCEPT ![d] = b1]
  /\ menu' = IF d \in backend \union dying
             THEN [menu EXCEPT ![d] = Menu(menu[d], buttons[d], b1)] ELSE menu

\* HandleButtonEvent: while Mic is held, nothing goes down, and what goes up is Mic.
Press(d, b) ==
  /\ d \in Played \intersect attached /\ object[d] = "live" /\ b \notin held[d]
  /\ held' = [held EXCEPT ![d] = @ \union {b}]
  /\ push' = [push EXCEPT ![d] = @ \/ b = Mic]
  /\ mixed' = IF push[d] THEN mixed \union {d} ELSE mixed
  /\ Reports(d, IF push'[d] THEN buttons[d] ELSE buttons[d] \union {b})
  /\ UNCHANGED <<attached, gone, audio, available, own, sess, shake>>
Release(d, b) ==
  /\ d \in attached /\ b \in held[d]
  /\ held' = [held EXCEPT ![d] = @ \ {b}]
  /\ push' = [push EXCEPT ![d] = FALSE]
  /\ mixed' = IF push[d] /\ b # Mic THEN mixed \union {d} ELSE mixed
  /\ IF push[d] \/ b = Mic THEN UNCHANGED <<buttons, menu>>
     ELSE Reports(d, buttons[d] \ {b})
  /\ UNCHANGED <<attached, gone, audio, available, own, sess, shake>>

\* repeat_timer
MenuTick(d) ==
  /\ menu[d].timer
  /\ menu' = [menu EXCEPT ![d].run = @ + 1, ![d].timer = menu[d].run + 1 < MaxRepeat]
  /\ UNCHANGED <<attached, gone, audio, available, own, sess, held, buttons, push, mixed, shake>>

-----------------------------------------------------------------------------
Init ==
  /\ attached = {} /\ gone = {} /\ audio = {} /\ available = {}
  /\ ref = [d \in Pads |-> 0] /\ object = [d \in Pads |-> "none"]
  /\ backend = {} /\ dying = {}
  /\ session = FALSE /\ mine = {} /\ handheld = 0 /\ output = None /\ waits = {}
  /\ held = [d \in Pads |-> {}] /\ buttons = held /\ push = [d \in Pads |-> FALSE] /\ mixed = {}
  /\ menu = [d \in Pads |-> Quiet]
  /\ rumble = <<>> /\ on = FALSE /\ spin = push /\ frames = 0 /\ sessions = 0

World == \E d \in Pads : Plug(d) \/ Unplug(d) \/ SoundComes(d) \/ RumbleFades(d)
Player == \E d \in Pads, b \in Buttons \union {Mic} : Press(d, b) \/ Release(d, b)
Gui == \/ HandleDevices \/ Deletes \/ RumbleTick
       \/ \E d \in Pads : Vanishes(d) \/ MenuTick(d)
       \/ \E w \in {"first", "second"} : ConnectHaptics(w)
Next == World \/ Player \/ Gui \/ StartSession \/ EndSession \/ PushHapticsFrame

Spec == Init /\ [][Next]_vars
\* The GUI's loop goes on; SDL ends a rumble that has had its time.
FairSpec ==
  /\ Spec /\ WF_vars(HandleDevices) /\ WF_vars(Deletes) /\ WF_vars(RumbleTick)
  /\ \A d \in Pads : WF_vars(Vanishes(d)) /\ WF_vars(MenuTick(d)) /\ WF_vars(RumbleFades(d))

-----------------------------------------------------------------------------
\* Every variable has its type.
TypeOK ==
  /\ attached \subseteq Pads /\ gone \subseteq Pads /\ audio \subseteq DualSense
  /\ available \subseteq Pads /\ ref \in [Pads -> 0 .. 3]
  /\ object \in [Pads -> {"none", "live", "leaving"}]
  /\ backend \subseteq Pads /\ dying \subseteq Pads /\ mine \subseteq Pads
  /\ session \in BOOLEAN /\ handheld \in Int /\ output \in DualSense \union {None}
  /\ waits \subseteq {"first", "second"} /\ buttons \in [Pads -> SUBSET Buttons]
  /\ push \in [Pads -> BOOLEAN] /\ spin \in [Pads -> BOOLEAN] /\ on \in BOOLEAN

\* A controller is counted as often as somebody holds it: it lives while the
\* menus, a menu about to be deleted or the session uses it, and no longer.
Holders(d) == Cardinality({h \in 1 .. 3 : d \in <<backend, dying, mine>>[h]})
CountedByHolders == \A d \in Pads : ref[d] = Holders(d) /\ (object[d] = "live" <=> Holders(d) > 0)
\* The session plays with the pads the menus know, whenever it was started.
SameView == backend = available /\ (session => mine = available)
\* The handheld's own controller shakes only while no other pad is there.
HandheldYields ==
  session => (handheld > 0 <=> (mine \intersect Handheld # {} /\ mine \subseteq Handheld))
\* Haptics never go on to a sound device whose pad is known to be gone.
OutputIsThere == output # None => output \in available
\* A menu repeats a button only while it is reported down, and not for ever.
RepeatsWhatIsDown ==
  \A d \in Pads : menu[d].timer => menu[d].key \in buttons[d] /\ menu[d].run < MaxRepeat
\* A button is reported as it is held, unless Mic was held with another one.
ButtonsAreHeld ==
  \A d \in attached \ mixed : buttons[d] = held[d] \ {Mic}
Safe == /\ CountedByHolders /\ SameView /\ HandheldYields /\ OutputIsThere
        /\ RepeatsWhatIsDown /\ ButtonsAreHeld

\* A pad that was taken away is given up by everybody.
Forgotten(d) == d \in gone => object[d] = "none"
GoneIsForgotten == \A d \in Pads : []<>Forgotten(d)
\* Nothing shakes for ever once the console has stopped.
Still(d) == ~spin[d]
RumbleEnds == \A d \in Pads : []<>Still(d)
=============================================================================
