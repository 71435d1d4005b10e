-------------------------- MODULE ControllerMapping --------------------------
(***************************************************************************)
(* gui/src/qmlbackend.cpp and gui/src/controllermanager.cpp: the mapping   *)
(* of a controller's buttons, as the user edits it, as it is stored in the *)
(* settings per model (vid/pid) and as SDL has it per GUID.  All of it runs*)
(* on the GUI thread; the dialogs are those of ControllerMappingDialog.qml.*)
(*                                                                         *)
(* A mapping is written as a text.  Of the text the module keeps whether   *)
(* the GUID stands before it, and the buttons.                             *)
(***************************************************************************)
EXTENDS Naturals, Sequences, SequencesExt

CONSTANTS Pads,      \* device ids
          Guid,      \* [Pads -> GUIDs]
          VidPid,    \* [GUIDs -> models]
          Virtual,   \* pads made by Steam
          Targets,   \* the buttons of the console
          Buttons, Axes,  \* what can be pressed or moved on a pad
          Factory,   \* [Targets -> Seq(Buttons \union Axes)]: what SDL knows
          Old,       \* what an earlier run of the program may have stored
          None

Physical == Buttons \union Axes
Guids == {Guid[p] : p \in Pads}
Models == {VidPid[g] : g \in Guids}
Text(hasGuid, map) == [guid |-> hasGuid, map |-> map]

VARIABLES plugged,   \* available_controllers
          creating,  \* creating_controller_mapping
          flags,     \* the two flags of each Controller
          stored,    \* controller_mappings of the settings, by GUID or by model
          original,  \* controller_mapping_original_controller_mappings
          sdl,       \* GUID -> the mapping in force
          pending,   \* controller_guids_to_update
          edit,      \* the controller_mapping_ fields
          dialog     \* the dialog that is open
vars == <<plugged, creating, flags, stored, original, sdl, pending, edit, dialog>>

NoFlags == [updating |-> FALSE, analog |-> FALSE]
NoEdit == [pad |-> None, progress |-> FALSE, map |-> [t \in Targets |-> <<>>],
           applied |-> [t \in Targets |-> <<>>], phys |-> [b \in Physical |-> None],
           analog |-> FALSE]

-----------------------------------------------------------------------------
(* What is stored comes into force                                          *)

\* updateControllerMappings: for every model with a mapping, the GUIDs that wait.
Waits(st, pe) == {g \in pe : st[VidPid[g]] # None}
Recorded(or, sd, due) == [g \in Guids |-> IF g \in due /\ or[g] = None THEN sd[g] ELSE or[g]]
InForce(st, sd, due) == [g \in Guids |-> IF g \in due THEN [st[VidPid[g]] EXCEPT !.guid = TRUE] ELSE sd[g]]

UpdateControllerMappings(st, pe) ==
  LET due == Waits(st, pe) IN
  /\ stored' = st
  /\ original' = Recorded(original, sdl, due)
  /\ sdl' = InForce(st, sdl, due)
  /\ pending' = pe \ due

\* A mapping that an older version stored under the GUID moves to the model.
Migrated(st, g) ==
  IF st[g] = None THEN st
  ELSE [st EXCEPT ![VidPid[g]] = [st[g] EXCEPT !.guid = FALSE], ![g] = None]

-----------------------------------------------------------------------------
(* The edit                                                                 *)

\* mutant: the controller may go on mapping its sticks
QuitKeepsSticks(ctrl) ==
  /\ flags' = IF edit.progress /\ ctrl # None THEN [flags EXCEPT ![ctrl].updating = FALSE] ELSE flags
  /\ creating' = IF edit.progress /\ ctrl # None THEN creating ELSE FALSE
  /\ edit' = NoEdit
Quit(ctrl) ==
  /\ flags' = IF edit.progress /\ ctrl # None THEN [flags EXCEPT ![ctrl] = NoFlags] ELSE flags
  /\ creating' = IF edit.progress /\ ctrl # None THEN creating ELSE FALSE
  /\ edit' = NoEdit

\* updateControllers, after the available controllers have changed.
Plug(p) ==
  /\ p \notin plugged
  /\ plugged' = plugged \union {p}
  /\ flags' = [flags EXCEPT ![p] = NoFlags]
  /\ UpdateControllerMappings(Migrated(stored, Guid[p]), pending \union {Guid[p]})
  /\ UNCHANGED <<creating, edit, dialog>>

\* The controller is gone before the edit is: its flags are left alone.
Unplug(p) ==
  /\ p \in plugged
  /\ plugged' = plugged \ {p}
  /\ IF edit.pad = p
     THEN Quit(None) /\ dialog' = IF edit.progress THEN None ELSE dialog
     ELSE UNCHANGED <<creating, edit, flags, dialog>>
  /\ UpdateControllerMappings(stored, pending)

OpenCapture ==
  /\ dialog = None
  /\ dialog' = <<"capture">> /\ creating' = TRUE
  /\ UNCHANGED <<plugged, flags, stored, original, sdl, pending, edit>>

CloseCapture ==
  /\ dialog = <<"capture">>
  /\ dialog' = None
  /\ Quit(edit.pad)
  /\ UNCHANGED <<plugged, stored, original, sdl, pending>>

Keys(map) == [b \in Physical |->
  LET has == {t \in Targets : b \in ToSet(map[t])} IN
  IF has = {} THEN None ELSE CHOOSE t \in has : TRUE]

\* controllerMappingUpdate, at the first button of an open controller.
Chosen(p) ==
  /\ p \in plugged /\ creating /\ dialog = <<"capture">> /\ ~edit.progress
  /\ IF p \in Virtual
     THEN Quit(None) /\ UNCHANGED <<original, dialog>>
     ELSE /\ creating' = FALSE
          /\ original' = Recorded(original, sdl, {Guid[p]})
          /\ edit' = [NoEdit EXCEPT !.pad = p, !.progress = TRUE, !.map = sdl[Guid[p]].map,
                                    !.applied = sdl[Guid[p]].map, !.phys = Keys(sdl[Guid[p]].map)]
          /\ flags' = [flags EXCEPT ![p].analog = FALSE]
          /\ dialog' = <<"mapping">>
  /\ UNCHANGED <<plugged, stored, sdl, pending>>

SetEnableAnalogStickMapping ==
  /\ dialog = <<"mapping">> /\ edit.progress
  /\ flags' = [flags EXCEPT ![edit.pad].analog = ~edit.analog]
  /\ edit' = [edit EXCEPT !.analog = ~@]
  /\ UNCHANGED <<plugged, creating, stored, original, sdl, pending, dialog>>

-----------------------------------------------------------------------------
(* One button                                                               *)

ControllerMappingSelectButton == \E t \in Targets, index \in {0, 1} :
  /\ dialog = <<"mapping">> /\ edit.progress
  /\ index <= Len(edit.map[t])
  /\ dialog' = <<t, index>>
  /\ flags' = [flags EXCEPT ![edit.pad].updating = TRUE]
  /\ UNCHANGED <<plugged, creating, stored, original, sdl, pending, edit>>

Selecting == dialog \in (Targets \X {0, 1})

ControllerMappingButtonQuit ==
  /\ Selecting
  /\ dialog' = <<"mapping">>
  /\ flags' = [flags EXCEPT ![edit.pad].updating = FALSE]
  /\ UNCHANGED <<plugged, creating, stored, original, sdl, pending, edit>>

\* updateButton: the button leaves the target it had, and takes the place of the
\* one that stood there.
Without(map, t, b) == IF t = None THEN map ELSE [map EXCEPT ![t] = Remove(@, b)]
\* mutant: the one that stood there still counts as mapped
DisplacedStays(phys, list, index) == phys
Displaced(phys, list, index) ==
  IF Len(list) > index THEN [phys EXCEPT ![list[index + 1]] = None] ELSE phys
UpdateButton(e, t, b, index) ==
  IF e.phys[b] = t THEN e
  ELSE LET map == Without(e.map, e.phys[b], b)
           list == IF Len(map[t]) > index THEN RemoveAt(map[t], index + 1) ELSE map[t]
       IN  [e EXCEPT !.map = [map EXCEPT ![t] = IF index = 0 THEN <<b>> \o list ELSE Append(list, b)],
                     !.phys = [Displaced(e.phys, map[t], index) EXCEPT ![b] = t]]

\* UpdateState, of a controller that waits for a button.
NewButtonMapping == \E p \in plugged, b \in Physical :
  /\ flags[p].updating /\ (b \in Axes => flags[p].analog)
  /\ flags' = [flags EXCEPT ![p].updating = FALSE]
  /\ IF edit.progress /\ Selecting
     THEN edit' = UpdateButton(edit, dialog[1], b, dialog[2]) /\ dialog' = <<"mapping">>
     ELSE UNCHANGED <<edit, dialog>>
  /\ UNCHANGED <<plugged, creating, stored, original, sdl, pending>>

\* "if user actually reset to default manually, reset mapping, else add"
IsOriginal(text) == text = original[Guid[edit.pad]]
ControllerMappingApply ==
  LET g == Guid[edit.pad]
      text == Text(FALSE, edit.map)
  IN  /\ dialog = <<"mapping">> /\ edit.progress /\ edit.map # edit.applied
      /\ IF IsOriginal(text)
         THEN /\ stored' = [stored EXCEPT ![VidPid[g]] = None]
              /\ sdl' = [sdl EXCEPT ![g] = original[g]]
              /\ UNCHANGED <<original, pending>>
         ELSE UpdateControllerMappings([stored EXCEPT ![VidPid[g]] = text], pending \union {g})
      /\ Quit(edit.pad) /\ dialog' = None
      /\ UNCHANGED plugged

CloseMapping ==
  /\ dialog = <<"mapping">>
  /\ Quit(edit.pad) /\ dialog' = None
  /\ UNCHANGED <<plugged, stored, original, sdl, pending>>

-----------------------------------------------------------------------------
Init ==
  /\ plugged = {} /\ creating = FALSE
  /\ flags = [p \in Pads |-> NoFlags]
  /\ \E old \in SUBSET (Guids \union Models) :
       stored = [k \in Guids \union Models |-> IF k \in old THEN Text(k \in Guids, Old) ELSE None]
  /\ original = [g \in Guids |-> None]
  /\ sdl = [g \in Guids |-> Text(TRUE, Factory)]
  /\ pending = {} /\ edit = NoEdit /\ dialog = None

Next ==
  \/ \E p \in Pads : Plug(p) \/ Unplug(p) \/ Chosen(p)
  \/ OpenCapture \/ CloseCapture \/ SetEnableAnalogStickMapping
  \/ ControllerMappingSelectButton \/ ControllerMappingButtonQuit \/ NewButtonMapping
  \/ ControllerMappingApply \/ CloseMapping

Spec == Init /\ [][Next]_vars

-----------------------------------------------------------------------------
TypeOK ==
  /\ plugged \subseteq Pads /\ pending \subseteq Guids
  /\ \A g \in Guids : sdl[g].guid /\ (original[g] # None => original[g].guid)
  /\ \A m \in Models : stored[m] # None => ~stored[m].guid

\* A controller waits for a button, or lets its sticks be mapped, only while it is
\* the one that is edited.
FlagsFollowEdit == \A p \in plugged :
  flags[p] # NoFlags => edit.progress /\ edit.pad = p

\* Every button of the pad does one thing, and does what the list shows.
EachButtonOnce == edit.progress => \A b \in Physical :
  /\ \A t \in Targets : b \in ToSet(edit.map[t]) <=> edit.phys[b] = t
  /\ \A t \in Targets : IsInjective(edit.map[t])

\* What is kept as the original was never the user's.
OriginalIsFactory == \A g \in Guids : original[g] # None => original[g].map = Factory

\* What is stored for a connected controller is in force, unless another GUID of
\* the model was edited.
StoredInForce == \A p \in plugged :
  LET g == Guid[p] IN
  (\A h \in Guids \ {g} : VidPid[h] # VidPid[g]) =>
    IF stored[VidPid[g]] = None THEN sdl[g].map = Factory ELSE sdl[g].map = stored[VidPid[g]].map

Safe == FlagsFollowEdit /\ EachButtonOnce /\ OriginalIsFactory /\ StoredInForce

\* "if user actually reset to default manually, reset mapping": a mapping that is
\* the original one is not stored.
ManualResetResets == [][\A m \in Models :
  stored'[m] # stored[m] /\ stored'[m] # None /\ edit.progress /\ plugged' = plugged
    => stored'[m].map # Factory]_vars

\* A model's mapping is in force for every controller of the model.
ModelInForce == \A p \in plugged : stored[VidPid[Guid[p]]] # None
                  => sdl[Guid[p]].map = stored[VidPid[Guid[p]]].map
=============================================================================
