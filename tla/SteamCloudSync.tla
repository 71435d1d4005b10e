--------------------------- MODULE SteamCloudSync ---------------------------
(***************************************************************************)
(* The profiles of the desktop client and the cloud they are kept in: the  *)
(* files of gui/src/settings.cpp, one of them with the list of the others, *)
(* and SteamCloudSync (gui/src/steamworks/steamworks_cloud_sync.cpp), which*)
(* fetches them when the program starts and compares both ways when it     *)
(* ends or the user asks for it.  A sync runs on the GUI thread to its end.*)
(*                                                                         *)
(* This is one machine; other machines of the account put files into the   *)
(* cloud.  All share a clock in seconds.  The content of a file is the     *)
(* number of the user's change that made it, 0 if nobody changed it, and   *)
(* Elsewhere if it comes from another machine.  A profile's name is what   *)
(* the user called it and the dashes that were put before it.              *)
(***************************************************************************)
EXTENDS Naturals, FiniteSets

CONSTANTS None, Default,
          Called,      \* what the user calls a profile
          MaxDashes,   \* bound: dashes before a name
          MaxTime, MaxChanges,   \* bounds: seconds, changes of the user
          Faults,      \* of {"fails", "cut"}: what may happen to a transfer
          MaxFaults

SyncAssumption == MaxDashes \in Nat /\ Faults \subseteq {"fails", "cut"}

Names == (0 .. MaxDashes) \X Called
Files == Names \union {Default}
Elsewhere == MaxChanges + 1

VARIABLES files,     \* [Files -> a file or None], on this machine
          cloud,     \* [Files -> a file or None]
          app,       \* the program, with its two Settings objects
          backups,   \* what profile_backups holds
          made,      \* ghost: the user's last change to each file
          clock, changes, faults
vars == <<files, cloud, app, backups, made, clock, changes, faults>>

File(ver, list) == [ver |-> ver, list |-> list, time |-> clock, whole |-> TRUE]
Off == [phase |-> "off", current |-> Default, ui |-> {}, sync |-> {}, same |-> TRUE]

-----------------------------------------------------------------------------
(* The settings.  A Settings object writes its two files as it is built.    *)

Written(fs, f) == [fs EXCEPT ![f] = IF @ = None THEN File(0, {}) ELSE [@ EXCEPT !.time = clock]]
Built(fs, f) == Written(Written(fs, f), Default)
SaveProfiles(fs, list) == [fs EXCEPT ![Default] = [@ EXCEPT !.list = list, !.time = clock]]

\* RunMain: the object for the current profile, or the one of --profile, is also
\* the one the sync keeps.
Open == app.phase = "off" /\
  LET listed == IF files[Default] = None THEN {} ELSE files[Default].list IN
  \E f \in listed \union {Default} :
    /\ files' = Built(files, f)
    /\ app' = [phase |-> "new", current |-> f, ui |-> listed, sync |-> listed, same |-> TRUE]
    /\ UNCHANGED <<cloud, backups, made, clock, changes, faults>>

Change == app.phase = "on" /\ changes < MaxChanges
  /\ LET f == app.current IN
     /\ files' = [files EXCEPT ![f] = File(changes + 1, @.list)]
     /\ made' = [made EXCEPT ![f] = changes + 1]
  /\ changes' = changes + 1
  /\ UNCHANGED <<cloud, app, backups, clock, faults>>

\* A new Settings object takes the place of the one the window has.
SetCurrentProfile == app.phase = "on" /\
  \E f \in app.ui \union {Default} \union ({0} \X Called) : f # app.current /\
    LET a == app
        new == f # Default /\ f \notin a.ui
        fs == IF new THEN SaveProfiles(files, a.ui \union {f}) ELSE files
    IN
    /\ files' = Built(fs, f)
    /\ app' = [app EXCEPT !.current = f, !.ui = fs[Default].list, !.same = FALSE,
                             !.sync = IF new /\ a.same THEN @ \union {f} ELSE @]
    /\ UNCHANGED <<cloud, backups, made, clock, changes, faults>>

\* Without the file, a call that fails, or one that Steam does.
DeleteProfileFromCloud(p, gone) == IF gone THEN [cloud EXCEPT ![p] = None] ELSE cloud

\* ProfileDialog.qml offers it for a profile that is not the current one.
DeleteProfile == app.phase = "on" /\
  \E p \in app.ui \ {app.current} : \E gone \in {TRUE} \union (IF faults < MaxFaults THEN {FALSE} ELSE {}) :
    LET left == app.ui \ {p} IN
    /\ files' = SaveProfiles([files EXCEPT ![p] = None], left)
    /\ app' = [app EXCEPT !.ui = left, !.sync = IF app.same THEN left ELSE @]
    /\ made' = [made EXCEPT ![p] = 0]
    /\ cloud' = DeleteProfileFromCloud(p, gone)
    /\ faults' = faults + (IF gone THEN 0 ELSE 1)
    /\ UNCHANGED <<backups, clock, changes>>

-----------------------------------------------------------------------------
(* Transfers                                                                *)

\* The name that the name of a file is taken for.
ExtractProfileName(f) == <<IF f[1] < MaxDashes THEN f[1] + 1 ELSE f[1], f[2]>>

\* Of the backups, those of the user's own changes.
\* mutant: the backup is made of what was fetched
Mine(fs, S) == {f \in S : fs[f].whole /\ fs[f].ver \in 1 .. MaxChanges}
BackupOfNew(S) == backups \union {<<f, cloud[f].ver>> : f \in Mine(cloud, S)}
CreateBackup(S) == backups \union {<<f, files[f].ver>> : f \in Mine(files, S)}

\* How a sync may go: each transfer succeeds or one of the faults befalls it.
Ways(S) == {how \in [S -> Faults \union {"ok"}] : Cardinality({f \in S : how[f] # "ok"}) + faults <= MaxFaults}
Bad(how) == Cardinality({f \in DOMAIN how : how[f] # "ok"})

\* downloadFile: a write that stops half way leaves what it wrote.
DownloadFile(fs, f, way) ==
  CASE way = "fails" -> fs[f]
    [] way = "cut"   -> [cloud[f] EXCEPT !.time = clock, !.whole = FALSE]
    [] OTHER         -> [cloud[f] EXCEPT !.time = clock]

\* uploadFile: an upload whose size is wrong is deleted.
UploadFile(f, way) ==
  CASE way = "fails" -> cloud[f]
    [] way = "cut"   -> None
    [] OTHER         -> [files[f] EXCEPT !.time = clock]

\* Both ends of a sync: what goes up, what comes down, and the profiles that the
\* fetched files are registered for.
Sync(up, down, phase) == \E how \in Ways(up \union down) :
  LET fs == [f \in Files |-> IF f \in down THEN DownloadFile(files, f, how[f]) ELSE files[f]]
      new == {ExtractProfileName(f) : f \in {g \in down \ {Default} : how[g] = "ok"}} \ app.sync
      list == app.sync \union new
  IN
  /\ files' = (IF new = {} THEN fs ELSE SaveProfiles(fs, list))
  /\ cloud' = [f \in Files |-> IF f \in up THEN UploadFile(f, how[f]) ELSE cloud[f]]
  /\ app' = IF phase = "off" THEN Off
             ELSE [app EXCEPT !.phase = phase, !.sync = list, !.ui = IF app.same THEN list ELSE @]
  /\ backups' = CreateBackup({f \in down : files[f] # None})
  /\ faults' = faults + Bad(how)
  /\ UNCHANGED <<made, clock, changes>>

SyncAllProfilesFromCloud == app.phase = "new" /\
  LET newer == {f \in Files : cloud[f] # None /\ (files[f] = None \/ cloud[f].time > files[f].time)}
  IN  Sync({}, newer, "on")

\* compareTimestamps allows for a second.
LocalIsNewer(f) == cloud[f] = None \/ (files[f].time > cloud[f].time + 1)
CloudIsNewer(f) == files[f] = None \/ (cloud[f].time > files[f].time + 1)

\* It stops after five seconds, with the files it has done by then.
SyncBidirectional(phase) == \E done \in {Files} \union {{f} : f \in Files} :
  Sync({f \in done : files[f] # None /\ LocalIsNewer(f)},
          {f \in done : cloud[f] # None /\ CloudIsNewer(f)}, phase)

\* The user has turned it off, Steam is not there, or the program is killed.
StartsWithout == app.phase = "new" /\ app' = [app EXCEPT !.phase = "on"]
  /\ UNCHANGED <<files, cloud, backups, made, clock, changes, faults>>
EndsWithout == app.phase # "off" /\ app' = Off
  /\ UNCHANGED <<files, cloud, backups, made, clock, changes, faults>>

SyncSteamCloud == app.phase = "on" /\ SyncBidirectional("on")
Exit == app.phase = "on" /\ SyncBidirectional("off")

ClearAllCloudData == app.phase = "on" /\ \E left \in SUBSET {f \in Files : cloud[f] # None} :
  /\ Cardinality(left) + faults <= MaxFaults
  /\ cloud' = [f \in Files |-> IF f \in left THEN cloud[f] ELSE None]
  /\ faults' = faults + Cardinality(left)
  /\ UNCHANGED <<files, app, backups, made, clock, changes>>

\* Another machine's upload, or its deletion of a profile.
OtherMachine == \E f \in Files : \E file \in {None, File(Elsewhere, IF f = Default THEN {0} \X Called ELSE {})} :
  /\ (file = None => f # Default) /\ cloud[f] # file
  /\ cloud' = [cloud EXCEPT ![f] = file]
  /\ UNCHANGED <<files, app, backups, made, clock, changes, faults>>

Tick == clock < MaxTime /\ clock' = clock + 1
  /\ UNCHANGED <<files, cloud, app, backups, made, changes, faults>>

-----------------------------------------------------------------------------
Init ==
  /\ files = [f \in Files |-> None] /\ cloud = [f \in Files |-> None]
  /\ app = Off /\ backups = {}
  /\ made = [f \in Files |-> 0]
  /\ clock = 0 /\ changes = 0 /\ faults = 0

Next == Tick \/ OtherMachine
  \/ Open \/ Change \/ SetCurrentProfile \/ DeleteProfile
  \/ SyncAllProfilesFromCloud \/ StartsWithout \/ SyncSteamCloud \/ Exit \/ EndsWithout
  \/ ClearAllCloudData

Spec == Init /\ [][Next]_vars

-----------------------------------------------------------------------------
TypeOK ==
  /\ clock \in 0 .. MaxTime /\ changes \in 0 .. MaxChanges /\ faults \in 0 .. MaxFaults
  /\ app.phase # "off" => files[Default] # None /\ files[app.current] # None

\* What the user changed last is still there, or in a backup:
\* neither an older file from the cloud nor a transfer that fails takes it away.
NothingLost == \A f \in Files : made[f] > 0 =>
  \/ files[f] # None /\ files[f].ver = made[f] /\ files[f].whole
  \/ <<f, made[f]>> \in backups

\* "Profile ... is now available in the UI": a profile that was fetched is listed
\* under its own name.
FetchedIsListed == app.phase = "on" =>
  \A p \in Names : files[p] # None => p \in files[Default].list
=============================================================================
