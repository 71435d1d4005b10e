------------------------------- MODULE Setsu -------------------------------
(***************************************************************************)
(* libsetsu (setsu/src/setsu.c), which finds the touchpads and the motion  *)
(* sensors of controllers with udev and reads them with libevdev, and      *)
(* StreamSession::HandleSetsuEvent of gui/src/streamsession.cpp, which     *)
(* turns its events into touches.  Both run in setsu_poll, on a timer of   *)
(* the GUI thread; the kernel and the user go on meanwhile.                *)
(*                                                                         *)
(* The kernel numbers the touches.  It changes a slot at most from one     *)
(* touch to none and to the next before it ends the frame (SYN_REPORT),    *)
(* and names the slot only when it is another one than before.             *)
(***************************************************************************)
EXTENDS Naturals, Sequences, FiniteSets, SequencesExt

CONSTANTS Pads, Sensors,   \* paths of touchpads and of motion sensors
          Slots,           \* 0 .. n
          NoId, None,
          MaxTouch,        \* CHIAKI_CONTROLLER_TOUCHES_MAX
          Ids,             \* Nat: touches are numbered modulo Ids
          MaxPlugs,        \* bound: times something is plugged in or out
          EarlyFingers     \* whether a pad may be touched as it is opened

SetsuAssumption == Ids > MaxTouch /\ 0 \in Slots

Devs == Pads \union Sensors
Free == [prev |-> NoId, id |-> NoId, downed |-> FALSE, moved |-> FALSE]
Fresh == [slots |-> [s \in Slots |-> Free], cur |-> 0, pressed |-> FALSE, was |-> FALSE, alive |-> TRUE]
Still == [finger |-> [s \in Slots |-> NoId], slot |-> 0, frame |-> [s \in Slots |-> "same"],
          pressed |-> FALSE, pending |-> FALSE]

VARIABLES plugged,   \* the devices that are there
          kernel,    \* [Pads -> what the kernel knows of a pad]
          udev,      \* events of the udev monitor
          avail,     \* Setsu.avail_dev, the newest first
          dev,       \* [Devs -> the device setsu_connect opened, or None]
          touches,   \* setsu_ids: <<pad, number>>
          click,     \* the touchpad button of setsu_state
          motion,    \* setsu_motion_device
          nextId, plugs
vars == <<plugged, kernel, udev, avail, dev, touches, click, motion, nextId, plugs>>

-----------------------------------------------------------------------------
(* Devices come and go                                                      *)

Plug(d) ==
  /\ d \notin plugged /\ plugs < MaxPlugs
  /\ plugged' = plugged \union {d} /\ udev' = Append(udev, <<"add", d>>) /\ plugs' = plugs + 1
  /\ kernel' = IF d \in Pads THEN [kernel EXCEPT ![d] = Still] ELSE kernel
  /\ UNCHANGED <<avail, dev, touches, click, motion, nextId>>

\* An open file of it answers ENODEV from now on.
Unplug(d) ==
  /\ d \in plugged /\ plugs < MaxPlugs
  /\ plugged' = plugged \ {d} /\ udev' = Append(udev, <<"remove", d>>) /\ plugs' = plugs + 1
  /\ dev' = IF dev[d] = None THEN dev ELSE [dev EXCEPT ![d].alive = FALSE]
  /\ kernel' = IF d \in Pads THEN [kernel EXCEPT ![d] = Still] ELSE kernel
  /\ UNCHANGED <<avail, touches, click, motion, nextId>>

\* update_udev_device
Listed(av, d) == {k \in DOMAIN av : av[k].dev = d}
Update(av, e) ==
  CASE Listed(av, e[2]) = {} -> <<[dev |-> e[2], connect |-> TRUE, disconnect |-> FALSE]>> \o av
    [] e[1] = "remove" -> [k \in DOMAIN av |-> IF av[k].dev = e[2] THEN [av[k] EXCEPT !.disconnect = TRUE] ELSE av[k]]
    [] OTHER -> av

\* DEVICE_ADDED: every touchpad is opened, but one motion sensor only.
Added(s, d) ==
  IF d \notin plugged \/ (d \in Sensors /\ s.motion # None) THEN s
  ELSE [s EXCEPT !.dev[d] = Fresh, !.motion = IF d \in Sensors THEN d ELSE @]
\* mutant: the touches of the pad stay
RemovedAlone(s, d) == [s EXCEPT !.dev[d] = None, !.motion = IF @ = d THEN None ELSE @]
\* DEVICE_REMOVED, after which the device is closed.
Removed(s, d) ==
  [s EXCEPT !.dev[d] = None, !.touches = {t \in @ : t[1] # d}, !.motion = IF @ = d THEN None ELSE @]

Announce(s, a) ==
  LET t == IF a.connect THEN Added(s, a.dev) ELSE s
  IN  IF a.disconnect THEN [Removed(t, a.dev) EXCEPT !.avail = Append(@, None)]
                      ELSE [t EXCEPT !.avail = Append(@, [a EXCEPT !.connect = FALSE])]

\* setsu_poll, up to the devices' own events.
Poll ==
  LET now == FoldLeft(Update, avail, udev)
      s == FoldLeft(Announce, [dev |-> dev, touches |-> touches, motion |-> motion, avail |-> <<>>], now)
  IN  /\ dev' = s.dev /\ touches' = s.touches /\ motion' = s.motion
      /\ avail' = SelectSeq(s.avail, LAMBDA a : a # None)
  /\ udev' = <<>>
  /\ UNCHANGED <<plugged, kernel, click, nextId, plugs>>

-----------------------------------------------------------------------------
(* A touchpad                                                               *)

\* What device_event does with the kernel's event for slot s.
Slot(p, s) == IF s = kernel[p].slot THEN dev[p].cur ELSE s
Heard(p, s) == dev[p].slots[Slot(p, s)]
Hears(p, s, slot) ==
  dev' = IF dev[p] = None \/ ~dev[p].alive THEN dev
         ELSE [dev EXCEPT ![p].cur = Slot(p, s), ![p].slots[Slot(p, s)] = slot]

Ends(slot) == IF slot.id # NoId /\ slot.prev = NoId
              THEN [slot EXCEPT !.prev = slot.id, !.moved = FALSE] ELSE slot
TrackingId(slot, id) == [Ends(slot) EXCEPT !.id = id, !.downed = @ \/ id # NoId]

InUse(p) == {kernel[p].finger[s] : s \in Slots} \union {dev[p].slots[s].prev : s \in IF dev[p] = None THEN {} ELSE Slots}
MayTouch(p) == p \in plugged /\ (EarlyFingers \/ (dev[p] # None /\ dev[p].alive))

Down(p, s) ==
  /\ MayTouch(p) /\ kernel[p].finger[s] = NoId /\ nextId \notin InUse(p) /\ kernel[p].frame[s] # "down"
  /\ kernel' = [kernel EXCEPT ![p].finger[s] = nextId, ![p].slot = s, ![p].frame[s] = "down", ![p].pending = TRUE]
  /\ Hears(p, s, [TrackingId(Heard(p, s), nextId) EXCEPT !.moved = TRUE])
  /\ nextId' = (nextId + 1) % Ids
  /\ UNCHANGED <<plugged, udev, avail, touches, click, motion, plugs>>

Move(p, s) ==
  /\ p \in plugged /\ kernel[p].finger[s] # NoId
  /\ kernel' = [kernel EXCEPT ![p].slot = s, ![p].pending = TRUE]
  /\ Hears(p, s, [Heard(p, s) EXCEPT !.moved = TRUE])
  /\ UNCHANGED <<plugged, udev, avail, touches, click, motion, nextId, plugs>>

Up(p, s) ==
  /\ p \in plugged /\ kernel[p].finger[s] # NoId /\ kernel[p].frame[s] = "same"
  /\ kernel' = [kernel EXCEPT ![p].finger[s] = NoId, ![p].slot = s, ![p].frame[s] = "up", ![p].pending = TRUE]
  /\ Hears(p, s, TrackingId(Heard(p, s), NoId))
  /\ UNCHANGED <<plugged, udev, avail, touches, click, motion, nextId, plugs>>

Press(p) ==
  /\ MayTouch(p) /\ kernel' = [kernel EXCEPT ![p].pressed = ~@, ![p].pending = TRUE]
  /\ dev' = IF dev[p] = None \/ ~dev[p].alive THEN dev ELSE [dev EXCEPT ![p].pressed = ~kernel[p].pressed]
  /\ UNCHANGED <<plugged, udev, avail, touches, click, motion, nextId, plugs>>

\* device_drain, slot by slot, and what the session does with each event.
Drained(p, ts, s) ==
  LET slot == dev[p].slots[s]
      up == IF slot.prev = NoId THEN ts ELSE ts \ {<<p, slot.prev>>}
      t == <<p, slot.id>>
  IN  IF slot.moved /\ (t \in up \/ Cardinality(up) < MaxTouch) THEN up \union {t} ELSE up

InOrder == SetToSortSeq(Slots, <)
\* SYN_REPORT
Report(p) ==
  /\ p \in plugged /\ kernel[p].pending
  /\ kernel' = [kernel EXCEPT ![p].pending = FALSE, ![p].frame = Still.frame]
  /\ IF dev[p] = None \/ ~dev[p].alive THEN UNCHANGED <<dev, touches, click>>
     ELSE /\ LET drained(ts, s) == Drained(p, ts, s) IN touches' = FoldLeft(drained, touches, InOrder)
          /\ click' = IF dev[p].pressed = dev[p].was THEN click ELSE dev[p].pressed
          /\ dev' = [dev EXCEPT ![p].was = dev[p].pressed,
               ![p].slots = [s \in Slots |-> [dev[p].slots[s] EXCEPT !.prev = NoId, !.downed = FALSE, !.moved = FALSE]]]
  /\ UNCHANGED <<plugged, udev, avail, motion, nextId, plugs>>

-----------------------------------------------------------------------------
\* setsu_new has listed what is there, and the touchpads may be touched.
Init ==
  /\ plugged \in SUBSET Devs /\ udev = <<>>
  /\ avail \in SetToSeqs({[dev |-> d, connect |-> TRUE, disconnect |-> FALSE] : d \in plugged})
  /\ kernel \in [Pads -> {Still} \union (IF EarlyFingers THEN {[Still EXCEPT !.finger[0] = Ids]} ELSE {})]
  /\ \A p \in Pads \ plugged : kernel[p] = Still
  /\ dev = [d \in Devs |-> None] /\ touches = {} /\ click = FALSE /\ motion = None
  /\ nextId = 0 /\ plugs = 0

Next == Poll \/ (\E d \in Devs : Plug(d) \/ Unplug(d))
  \/ \E p \in Pads : Press(p) \/ Report(p) \/ \E s \in Slots : Down(p, s) \/ Move(p, s) \/ Up(p, s)

Spec == Init /\ [][Next]_vars /\ WF_vars(Poll)

-----------------------------------------------------------------------------
TypeOK ==
  /\ \A k \in DOMAIN avail : avail[k].dev \in Devs
  /\ motion \in Sensors \union {None} /\ Cardinality(touches) <= MaxTouch
  /\ \A d \in Devs : dev[d] # None => \E k \in DOMAIN avail : avail[k].dev = d

Quiet(p) == dev[p] # None /\ dev[p].alive /\ ~kernel[p].pending

\* Once a frame has been read, a touch the console sees is a finger on the pad, and
\* a finger is a touch unless there were too many.
Fingers(p) == {<<p, kernel[p].finger[s]>> : s \in {x \in Slots : kernel[p].finger[x] # NoId}}
NoGhostTouch == \A p \in Pads : Quiet(p) => {t \in touches : t[1] = p} \subseteq Fingers(p)
FingersTouch == \A p \in Pads : Quiet(p) =>
  (Fingers(p) \subseteq touches \/ Cardinality(Slots) > MaxTouch \/ Cardinality(Pads) > 1)

\* The console sees no touch of a pad that is no longer listed.
GoneIsGone == \A t \in touches : dev[t[1]] # None

Safe == NoGhostTouch /\ FingersTouch /\ GoneIsGone

\* A device that stays plugged in is offered in the end.
PresentIsOffered == \A d \in Devs : <>[](d \in plugged) => <>(\E k \in DOMAIN avail : avail[k].dev = d)

\* The motion sensor that is left is used.
MotionIfAny == udev = <<>> /\ (\A k \in DOMAIN avail : ~avail[k].connect) =>
  (motion # None \/ \A k \in DOMAIN avail : avail[k].dev \notin Sensors)
=============================================================================
