------------------------------- MODULE MCClient -------------------------------
\* The desktop client and the cloud services, each part on a small instance. They
\* share no state here: `part` names the one that runs.
EXTENDS Integers, FiniteSets, Sequences
CONSTANTS Parts, None, NoId, NoAccount, NoHost, Default, N1, N2, Main

\* The home of each account's country.
MCHome(a) == IF a = "a" THEN "us" ELSE "hu"
\* The kinds of session that are asked for, and what may go wrong.
MCSetups == {[kinds |-> {"lan", "psn"}, sleeps |-> 1, fails |-> 1, switches |-> 1],
             [kinds |-> {"lan", "cloud"}, sleeps |-> 0, fails |-> 1, switches |-> 1]}
\* What a player holds in hand.
MCDevices == {{"keyboard", "mouse"}, {"keyboard", "pad"}, {"setsu", "pad"}, {"touch"}}
\* A pad, and one made by Steam.
MCGuid == [p \in {"p1", "p2"} |-> IF p = "p1" THEN "g1" ELSE "g2"]
MCVidPid == [g \in {"g1", "g2"} |-> IF g = "g1" THEN "m1" ELSE "m2"]
MCFactory == [t \in {"cross", "moon"} |-> IF t = "cross" THEN <<"b0">> ELSE <<"a0">>]
MCOld == [t \in {"cross", "moon"} |-> IF t = "cross" THEN <<"a0", "b0">> ELSE <<>>]
\* Two ids of one PS5 game, one of a PS4 game, and two entitlements.
MCRank(x) == CASE x = "A5x" -> 1 [] x = "A5y" -> 2 [] x = "B4" -> 3 [] x = "E" -> 4 [] x = "F" -> 5 [] OTHER -> 0
MCLess(x, y) == MCRank(x) < MCRank(y)
MCTok(x) == CASE x \in {"A5x", "A5y"} -> "ps5" [] x = "B4" -> "ps4" [] OTHER -> ""
MCStable(x) == CASE x \in {"A5x", "A5y"} -> "A5" [] x = "B4" -> "B" [] OTHER -> ""
MCRow == [pid |-> "", alt |-> "", id |-> "", concept |-> "", svc |-> "", dev |-> {}, cat |-> "", store |-> "",
          ft |-> 0, owned |-> FALSE, prefer |-> FALSE, plus |-> FALSE, streams |-> TRUE, title |-> "", key |-> <<>>,
          service |-> "", category |-> "", stream |-> ""]
MCApollo == {[MCRow EXCEPT !.id = p, !.concept = c] : p \in {"B4", "A5x"}, c \in {"", "1"}}
MCListed == {[MCRow EXCEPT !.pid = p, !.concept = c, !.dev = {IF p = "B4" THEN "PS4" ELSE "PS5"}, !.plus = q, !.streams = ~q] :
              p \in {"A5x", "A5y", "B4"}, c \in {"", "1"}, q \in BOOLEAN}
MCOwned == {[MCRow EXCEPT !.alt = p, !.id = IF i = "" THEN p ELSE i, !.ft = f, !.title = "t",
              !.svc = IF MCTok(p) = "ps5" THEN "pscloud" ELSE "psnow"] :
             p \in {"A5x", "A5y", "B4"}, i \in {"E", "F", ""}, f \in {1, 5}}
MCUpTo(S, n) == UNION {[1 .. k -> S] : k \in 0 .. n}
MCTwoOwned == {s \in MCUpTo(MCOwned, 2) : \A i, j \in DOMAIN s : i # j => s[i].id # s[j].id}
\* Two owned games with one row of each list, and two rows of a list with one owned game.
MCInputs == [apollo : MCUpTo(MCApollo, 1), lists : MCUpTo(MCListed, 1), owned : MCTwoOwned,
             parts : {[x \in {} |-> <<>>]}, native : {TRUE}]
            \union [apollo : {<<>>}, lists : MCUpTo(MCListed, 2), owned : MCUpTo(MCOwned, 1),
                    parts : {[x \in {} |-> <<>>]}, native : BOOLEAN]

VARIABLE part \* the part that runs; the others keep their initial state
VARIABLES account, locale, catalog_files, gen, catalog_inFlight, first, parked, catalog_worker, asked,
          answered, catalog_up, catalog_changes, catalog_quits, catalog_overlapped
VARIABLES rows, walk_told, box, start, total, dropped, budget, walk_games, kids, next, complete, failed, pc
VARIABLES details_files, details_inFlight, details_worker, details_up, details_quits, details,
          gameDetailsState, timers, requests, wants, details_told, details_overlapped
VARIABLES input, im, cross, merge_games, result, pass
VARIABLES desk, power, setup
VARIABLES state, pads, tracker, block, dpad, sent, world, stale, behind
VARIABLES mapping_plugged, creating, flags, stored, original, sdl, pending, edit, mapping_dialog
VARIABLES hosts_named, hosts_discovered, hosts_reg, hosts_nick, hosts_ps4s, hosts_hidden, hosts_manual,
          hosts_nextId, hosts_psn, hosts_list, hosts_dialog
VARIABLES renamed_named, renamed_discovered, renamed_reg, renamed_nick, renamed_ps4s, renamed_hidden,
          renamed_manual, renamed_nextId, renamed_psn, renamed_list, renamed_dialog
VARIABLES psn_named, psn_discovered, psn_reg, psn_nick, psn_ps4s, psn_hidden, psn_manual, psn_nextId, psn_psn,
          psn_list, psn_dialog
VARIABLES sync_files, cloud, app, backups, made, clock, sync_changes, faults
VARIABLES setsu_plugged, kernel, udev, avail, dev, touches, click, motion, setsu_nextId, plugs
VARIABLES attached, gone, audio, available, ref, object, backend, dying, session, mine, handheld, output,
          waits, held, buttons, pads_push, mixed, menu, rumble, on, spin, frames, sessions
VARIABLES allow, micConnected, muted, recording, gui, console, posted, buf, read, encoded, out, queued, drain,
          sound_push

\* The catalog of the cloud's games, kept for an account and a locale.
Catalog == INSTANCE CloudCatalog WITH
  Accounts <- {"a", "b"}, Home <- MCHome, Locales <- {"us", "hu"}, Base <- "us", Views <- {"v1", "v2"},
  MaxChanges <- 1, MaxQuits <- 0, Products <- {}, MaxAsked <- 0, details <- <<>>,
  gameDetailsState <- [product |-> "none", dialog |-> 0], timers <- {}, requests <- {}, wants <- <<>>,
  told <- <<>>, files <- catalog_files, inFlight <- catalog_inFlight, worker <- catalog_worker,
  up <- catalog_up, changes <- catalog_changes, quits <- catalog_quits, overlapped <- catalog_overlapped
CatalogVars == <<account, locale, catalog_files, gen, catalog_inFlight, first, parked, catalog_worker, asked,
    answered, catalog_up, catalog_changes, catalog_quits, catalog_overlapped>>

\* The walk through the containers of the store.
Walk == INSTANCE ApolloWalk WITH
  Products <- {"p", "q"}, Kids <- {"k1", "k2"}, Grandchild <- "g", NoId <- "noid", Root <- "r", PageSize <- 1,
  MaxKids <- 1, Budget <- 4, RootRows <- 2, KidRows <- 1, told <- walk_told, games <- walk_games
WalkVars == <<rows, walk_told, box, start, total, dropped, budget, walk_games, kids, next, complete, failed,
    pc>>

\* The details of a game that a dialog asks for, while the catalog rests.
Details == INSTANCE CloudCatalog WITH
  Accounts <- {}, NoAccount <- "nobody", Home <- MCHome, Locales <- {"us"}, Base <- "us", Views <- {},
  None <- "none", MaxChanges <- 0, MaxQuits <- 1, Products <- {"p", "q"}, MaxAsked <- 3, account <- "nobody",
  locale <- "us", gen <- 0, first <- "none", parked <- {}, asked <- {}, answered <- <<>>, changes <- 0,
  files <- details_files, inFlight <- details_inFlight, worker <- details_worker, up <- details_up,
  quits <- details_quits, told <- details_told, overlapped <- details_overlapped
DetailsVars == <<details_files, details_inFlight, details_worker, details_up, details_quits, details,
    gameDetailsState, timers, requests, wants, details_told, details_overlapped>>

\* The one list made of what the services sent.
Merge == INSTANCE CatalogMerge WITH
  Tok <- MCTok, Stable <- MCStable, Less <- MCLess, Inputs <- MCInputs, games <- merge_games
MergeVars == <<input, im, cross, merge_games, result, pass>>

\* The one session that the client has.
Desktop == INSTANCE DesktopSession WITH
  Hosts <- {"h1"}, Setups <- MCSetups, MaxSessions <- 2, MaxAttempts <- 2, MaxTries <- 1
DesktopVars == <<desk, power, setup>>

\* What keyboard, mouse, touch screen, touchpads and controllers give.
Input == INSTANCE StreamInput WITH
  Keys <- {"k"}, PadButtons <- {}, Fingers <- {"f1", "f2", "f3"}, SetsuFingers <- {"s1"},
  Shortcut <- {"right"}, Slots <- {0, 1}, IdMod <- 3, Width <- 3, Step <- 2, Devices <- MCDevices
InputVars == <<state, pads, tracker, block, dpad, sent, world, stale, behind>>

\* The mapping of a controller's buttons.
Mapping == INSTANCE ControllerMapping WITH
  Pads <- {"p1", "p2"}, Guid <- MCGuid, VidPid <- MCVidPid, Virtual <- {"p2"}, Targets <- {"cross", "moon"},
  Buttons <- {"b0"}, Axes <- {"a0"}, Factory <- MCFactory, Old <- MCOld, plugged <- mapping_plugged,
  dialog <- mapping_dialog
MappingVars == <<mapping_plugged, creating, flags, stored, original, sdl, pending, edit, mapping_dialog>>

\* The list of consoles, two of the same name.
HostsNamed == INSTANCE HostList WITH
  Consoles <- {1, 2}, Names <- {N1, N2}, NameOf <- <<{N1}, {N1}>>, PS4s <- {2}, PsnOrder <- <<>>,
  Main <- Main, Legacy <- {2}, MaxManual <- 1, named <- hosts_named, discovered <- hosts_discovered,
  reg <- hosts_reg, nick <- hosts_nick, ps4s <- hosts_ps4s, hidden <- hosts_hidden, manual <- hosts_manual,
  nextId <- hosts_nextId, psn <- hosts_psn, list <- hosts_list, dialog <- hosts_dialog
HostsNamedVars == <<hosts_named, hosts_discovered, hosts_reg, hosts_nick, hosts_ps4s, hosts_hidden,
    hosts_manual, hosts_nextId, hosts_psn, hosts_list, hosts_dialog>>

\* The list of consoles, one of which is renamed.
HostsRenamed == INSTANCE HostList WITH
  Consoles <- {1, 2}, Names <- {N1, N2}, NameOf <- <<{N1, N2}, {N2}>>, PS4s <- {}, PsnOrder <- <<>>,
  Main <- Main, Legacy <- {}, MaxManual <- 0, named <- renamed_named, discovered <- renamed_discovered,
  reg <- renamed_reg, nick <- renamed_nick, ps4s <- renamed_ps4s, hidden <- renamed_hidden,
  manual <- renamed_manual, nextId <- renamed_nextId, psn <- renamed_psn, list <- renamed_list,
  dialog <- renamed_dialog
HostsRenamedVars == <<renamed_named, renamed_discovered, renamed_reg, renamed_nick, renamed_ps4s,
    renamed_hidden, renamed_manual, renamed_nextId, renamed_psn, renamed_list, renamed_dialog>>

\* The list of consoles, with those of the PSN account.
HostsOfPsn == INSTANCE HostList WITH
  Consoles <- {1}, Names <- {N1, N2}, NameOf <- <<{N1, N2}>>, PS4s <- {1}, PsnOrder <- <<N1, Main>>,
  Main <- Main, Legacy <- {}, MaxManual <- 1, named <- psn_named, discovered <- psn_discovered,
  reg <- psn_reg, nick <- psn_nick, ps4s <- psn_ps4s, hidden <- psn_hidden, manual <- psn_manual,
  nextId <- psn_nextId, psn <- psn_psn, list <- psn_list, dialog <- psn_dialog
HostsOfPsnVars == <<psn_named, psn_discovered, psn_reg, psn_nick, psn_ps4s, psn_hidden, psn_manual,
    psn_nextId, psn_psn, psn_list, psn_dialog>>

\* The settings' files in the cloud of Steam.
Sync == INSTANCE SteamCloudSync WITH
  Called <- {"p"}, MaxDashes <- 0, MaxTime <- 1, MaxChanges <- 1, Faults <- {"fails", "cut"}, MaxFaults <- 1,
  files <- sync_files, changes <- sync_changes
SyncVars == <<sync_files, cloud, app, backups, made, clock, sync_changes, faults>>

\* Touchpads and motion sensors as udev and the kernel tell of them.
Setsu == INSTANCE Setsu WITH
  Pads <- {"p"}, Sensors <- {"g"}, Slots <- {0, 1}, MaxTouch <- 2, Ids <- 3, MaxPlugs <- 2,
  EarlyFingers <- FALSE, plugged <- setsu_plugged, nextId <- setsu_nextId
SetsuVars == <<setsu_plugged, kernel, udev, avail, dev, touches, click, motion, setsu_nextId, plugs>>

\* The controllers, from SDL to the menus and the session.
Pads == INSTANCE Controllers WITH
  Pads <- {"h", "d"}, DualSense <- {"d"}, Handheld <- {"h"}, Stays <- {"h"}, Played <- {"d"},
  Buttons <- {"a"}, Mic <- "mic", MaxRepeat <- 2, Batch <- 2, MaxFrames <- 2, MaxSessions <- 1,
  push <- pads_push
PadsVars == <<attached, gone, audio, available, ref, object, backend, dying, session, mine, handheld, output,
    waits, held, buttons, pads_push, mixed, menu, rumble, on, spin, frames, sessions>>

\* The microphone, its button and the sound of the stream.
Sound == INSTANCE StreamAudio WITH
  FrameSize <- 3, Chunks <- {1, 2, 7}, Numbers <- 12, MaxPosted <- 1, Buffer <- 2, MaxQueued <- 7,
  push <- sound_push
SoundVars == <<allow, micConnected, muted, recording, gui, console, posted, buf, read, encoded, out, queued,
    drain, sound_push>>

vars == <<part, CatalogVars, WalkVars, DetailsVars, MergeVars, DesktopVars, InputVars, MappingVars,
          HostsNamedVars, HostsRenamedVars, HostsOfPsnVars, SyncVars, SetsuVars, PadsVars, SoundVars>>

Init ==
  /\ part \in Parts
  /\ Catalog!Init /\ (part = "catalog" \/ (account = NoAccount /\ locale = "us"))
  /\ IF part = "walk" THEN Walk!Init
     ELSE rows = <<>> /\ walk_told = <<>> /\ box = "r" /\ start = 0 /\ total = -1 /\ dropped = FALSE /\
          budget = 4 /\ walk_games = {} /\ kids = <<>> /\ next = 1 /\ complete = TRUE /\ failed = FALSE /\
          pc = "walk"
  /\ Details!Init
  /\ Desktop!Init /\ (part = "session" \/ (desk.auto = NoHost /\ power = [h \in {"h1"} |-> "ready"] /\ setup = (CHOOSE s \in MCSetups : TRUE)))
  /\ Input!Init /\ (part = "input" \/ world = [keys |-> {}, mouse |-> {}, fingers |-> {}, click |-> FALSE, devices |-> {"touch"}])
  /\ Mapping!Init /\ (part = "mapping" \/ stored = [k \in {"g1", "g2", "m1", "m2"} |-> None])
  /\ HostsNamed!Init
  /\ HostsRenamed!Init /\ (part = "renamed" \/ renamed_named = <<N1, N2>>)
  /\ HostsOfPsn!Init /\ (part = "psn" \/ psn_named = <<N1>>)
  /\ Sync!Init
  /\ Setsu!Init /\ (part = "setsu" \/ (setsu_plugged = {} /\ kernel = [d \in {"p"} |-> Setsu!Still] /\ avail = <<>>))
  /\ Pads!Init
  /\ Sound!Init
  /\ IF part = "merge" THEN Merge!Init
     ELSE input = <<>> /\ im = <<>> /\ cross = <<>> /\ merge_games = <<>> /\ result = <<>> /\ pass = 1

\* One part runs. The others keep still.
Next ==
  \/ part = "catalog" /\ Catalog!Next /\ UNCHANGED <<part, WalkVars, DetailsVars, MergeVars, DesktopVars,
        InputVars, MappingVars, HostsNamedVars, HostsRenamedVars, HostsOfPsnVars, SyncVars, SetsuVars,
        PadsVars, SoundVars>>
  \/ part = "walk" /\ Walk!Next /\ UNCHANGED <<part, CatalogVars, DetailsVars, MergeVars, DesktopVars,
        InputVars, MappingVars, HostsNamedVars, HostsRenamedVars, HostsOfPsnVars, SyncVars, SetsuVars,
        PadsVars, SoundVars>>
  \/ part = "details" /\ Details!Next /\ UNCHANGED <<part, CatalogVars, WalkVars, MergeVars, DesktopVars,
        InputVars, MappingVars, HostsNamedVars, HostsRenamedVars, HostsOfPsnVars, SyncVars, SetsuVars,
        PadsVars, SoundVars>>
  \/ part = "merge" /\ Merge!Next /\ UNCHANGED <<part, CatalogVars, WalkVars, DetailsVars, DesktopVars,
        InputVars, MappingVars, HostsNamedVars, HostsRenamedVars, HostsOfPsnVars, SyncVars, SetsuVars,
        PadsVars, SoundVars>>
  \/ part = "session" /\ Desktop!Next /\ UNCHANGED <<part, CatalogVars, WalkVars, DetailsVars, MergeVars,
        InputVars, MappingVars, HostsNamedVars, HostsRenamedVars, HostsOfPsnVars, SyncVars, SetsuVars,
        PadsVars, SoundVars>>
  \/ part = "input" /\ Input!Next /\ UNCHANGED <<part, CatalogVars, WalkVars, DetailsVars, MergeVars,
        DesktopVars, MappingVars, HostsNamedVars, HostsRenamedVars, HostsOfPsnVars, SyncVars, SetsuVars,
        PadsVars, SoundVars>>
  \/ part = "mapping" /\ Mapping!Next /\ UNCHANGED <<part, CatalogVars, WalkVars, DetailsVars, MergeVars,
        DesktopVars, InputVars, HostsNamedVars, HostsRenamedVars, HostsOfPsnVars, SyncVars, SetsuVars,
        PadsVars, SoundVars>>
  \/ part = "hosts" /\ HostsNamed!Next /\ UNCHANGED <<part, CatalogVars, WalkVars, DetailsVars, MergeVars,
        DesktopVars, InputVars, MappingVars, HostsRenamedVars, HostsOfPsnVars, SyncVars, SetsuVars, PadsVars,
        SoundVars>>
  \/ part = "renamed" /\ HostsRenamed!Next /\ UNCHANGED <<part, CatalogVars, WalkVars, DetailsVars, MergeVars,
        DesktopVars, InputVars, MappingVars, HostsNamedVars, HostsOfPsnVars, SyncVars, SetsuVars, PadsVars,
        SoundVars>>
  \/ part = "psn" /\ HostsOfPsn!Next /\ UNCHANGED <<part, CatalogVars, WalkVars, DetailsVars, MergeVars,
        DesktopVars, InputVars, MappingVars, HostsNamedVars, HostsRenamedVars, SyncVars, SetsuVars, PadsVars,
        SoundVars>>
  \/ part = "sync" /\ Sync!Next /\ UNCHANGED <<part, CatalogVars, WalkVars, DetailsVars, MergeVars,
        DesktopVars, InputVars, MappingVars, HostsNamedVars, HostsRenamedVars, HostsOfPsnVars, SetsuVars,
        PadsVars, SoundVars>>
  \/ part = "setsu" /\ Setsu!Next /\ UNCHANGED <<part, CatalogVars, WalkVars, DetailsVars, MergeVars,
        DesktopVars, InputVars, MappingVars, HostsNamedVars, HostsRenamedVars, HostsOfPsnVars, SyncVars,
        PadsVars, SoundVars>>
  \/ part = "controllers" /\ Pads!Next /\ UNCHANGED <<part, CatalogVars, WalkVars, DetailsVars, MergeVars,
        DesktopVars, InputVars, MappingVars, HostsNamedVars, HostsRenamedVars, HostsOfPsnVars, SyncVars,
        SetsuVars, SoundVars>>
  \/ part = "sound" /\ Sound!Next /\ UNCHANGED <<part, CatalogVars, WalkVars, DetailsVars, MergeVars,
        DesktopVars, InputVars, MappingVars, HostsNamedVars, HostsRenamedVars, HostsOfPsnVars, SyncVars,
        SetsuVars, PadsVars>>

Spec == Init /\ [][Next]_vars

\* The fairness of each part is that of its own module.
FairSpec ==
  /\ Spec
  /\ WF_CatalogVars(part = "catalog" /\ Catalog!Work)
  /\ WF_CatalogVars(part = "catalog" /\ Catalog!Complete)
  /\ WF_CatalogVars(part = "catalog" /\ Catalog!Drain)
  /\ WF_CatalogVars(part = "catalog" /\ Catalog!Restart)
  /\ WF_WalkVars(part = "walk" /\ Walk!Next)
  /\ WF_DesktopVars(part = "session" /\ Desktop!Deliver)
  /\ WF_DesktopVars(part = "session" /\ Desktop!WakeupStartFailed)
  /\ \A i \in 1 .. 2 : WF_DesktopVars(part = "session" /\ Desktop!SessionThread(i) /\ (desk.s[i].stop \/ desk.s[i].thread # "running"))
  /\ WF_PadsVars(part = "controllers" /\ Pads!HandleDevices)
  /\ WF_PadsVars(part = "controllers" /\ Pads!Deletes)
  /\ WF_PadsVars(part = "controllers" /\ Pads!RumbleTick)
  /\ \A d \in {"h", "d"} : WF_PadsVars(part = "controllers" /\ Pads!Vanishes(d))
  /\ \A d \in {"h", "d"} : WF_PadsVars(part = "controllers" /\ Pads!MenuTick(d))
  /\ \A d \in {"h", "d"} : WF_PadsVars(part = "controllers" /\ Pads!RumbleFades(d))
  /\ WF_SoundVars(part = "sound" /\ Sound!PushAudioFrame)
  /\ WF_SoundVars(part = "sound" /\ Sound!Play)




\* What was begun ends: a view's wait for the catalog, the walk of the store, a session
\* that was stopped, the wait for a console to wake, the life of a pad that has left, a
\* rumble, and the silence after sound was dropped. As one part runs only, this is what
\* the modules call ViewsAnswered, WalkEnds, StopEnds, WaitEnds, GoneIsForgotten,
\* RumbleEnds and SoundComesBack.
Done(i, view, pad) ==
  /\ (part = "catalog" => Catalog!Answered(view))
  /\ (part = "walk" => Walk!Over)
  /\ (part = "session" => Desktop!GoneIfStopped(i))
  /\ (part = "controllers" => Pads!Forgotten(pad))
  /\ (part = "sound" => Sound!NotDropped)
ClientEnds ==
  /\ []<>Done(1, "v1", "h") /\ []<>Done(2, "v2", "d")
  /\ []<>(part = "session" => Desktop!NotWaiting)
  /\ []<>(part = "controllers" => Pads!Still("d"))
===============================================================================
