------------------------------ MODULE CloudCatalog ------------------------------
(***************************************************************************)
(* The catalog of cloud games: CloudCatalogBackend of the desktop client   *)
(* (gui/src/cloudcatalogbackend.cpp), which lets one worker fetch at a     *)
(* time and answers every waiting view, and the fetch itself               *)
(* (lib/src/cloudcatalog_unified.c) with the three files it keeps for a    *)
(* day. The user changes the account or the locale at any moment.          *)
(*                                                                         *)
(* The same class fetches the details of a game for a dialog: the product  *)
(* and the callback of a request are kept in the one gameDetailsState,     *)
(* across a pause and the request itself, and the details are cached for   *)
(* seven days in files that no change of the account removes.              *)
(***************************************************************************)
EXTENDS Naturals, FiniteSets

CONSTANTS Accounts, NoAccount, \* tokens; NoAccount: logged out
          Home(_),             \* the locale of an account's country
          Locales, Base,       \* Base: "en-US", the last locale of the chain
          Views, None,         \* callbacks that views pass in; no callback
          MaxChanges, MaxQuits, \* how often the user changes something; quits
          Products, MaxAsked   \* products with details; how many dialogs are opened

Absent == [of |-> NoAccount, locale |-> Base, apollo |-> FALSE, browse |-> FALSE, owned |-> FALSE, there |-> FALSE]
File(a, l, ap, br, ow) == [of |-> a, locale |-> l, apollo |-> ap, browse |-> br, owned |-> ow, there |-> TRUE]
\* "unified_catalog_v3", "ps5_cloud_catalog_v6", "ps5_cloud_library"; apollo, browse and
\* owned tell whether what the file holds of the three sources is all there is.
Keys == {"unified", "v6", "library"}

VARIABLES account, locale,      \* the settings
          files,                \* the cache directory
          gen,                  \* catalogGeneration
          inFlight, first, parked, \* unifiedFetchInFlight, the callback it began with, pendingUnifiedCallbacks
          worker,               \* pc, its snapshot and its findings; ghost: lists and fresh,
                                \* whether the two lists and the library lack nothing
          asked, answered,      \* views that wait; views that were called, with the catalog's account
          up, changes, quits,
          details,              \* game_details_<product>: whose details the file holds, or Nobody
          gameDetailsState,     \* the product, and the dialog that its callback belongs to
          timers, requests,     \* pauses and requests under way, as pairs of a dialog and its product
          wants,                \* the product that each dialog shows
          told,                 \* what each dialog's callback was called with
          overlapped            \* history: a dialog asked while another waited
dialogs == <<details, gameDetailsState, timers, requests, wants, told, overlapped>>
gui == <<account, locale, gen, inFlight, first, parked, asked, answered, up, changes, quits, dialogs>>
catalog == <<account, locale, files, gen, inFlight, first, parked, worker, asked, answered, up, changes, quits>>
vars == <<catalog, dialogs>>

Idle == [pc |-> "idle", gen |-> 0, of |-> NoAccount, locale |-> Base, apollo |-> FALSE, lists |-> FALSE, nothing |-> FALSE,
         browse |-> FALSE, games |-> FALSE, owned |-> FALSE, auth |-> FALSE, fresh |-> FALSE, ok |-> FALSE]

Nobody == "none"
NoDialog == [product |-> Nobody, dialog |-> 0]

Wipe == [k \in Keys |-> Absent]

Begin(v, g, a, l) == /\ inFlight' = TRUE /\ first' = v
                     /\ worker' = [Idle EXCEPT !.pc = "unified", !.gen = g, !.of = a, !.locale = l]

\* fetchUnifiedCatalog: begin, or wait for the fetch that runs.
Fetch(v) ==
  /\ up /\ v \notin asked /\ answered[v] = "never" /\ asked' = asked \union {v}
  /\ IF inFlight THEN parked' = parked \union {v} /\ UNCHANGED <<inFlight, first, worker>>
     ELSE Begin(v, gen, account, locale) /\ UNCHANGED parked
  /\ UNCHANGED <<account, locale, files, gen, answered, up, changes, quits, dialogs>>

\* The view drops its list when the cache is invalidated.
Invalidate == /\ gen' = gen + 1 /\ files' = Wipe /\ answered' = [v \in Views |-> "never"]
              /\ changes < MaxChanges /\ changes' = changes + 1
              /\ UNCHANGED <<inFlight, first, parked, worker, asked, up, quits, dialogs>>

ChangeAccount(a) == up /\ a # account /\ account' = a /\ Invalidate /\ UNCHANGED locale
ChangeLocale(l) == up /\ l # locale /\ locale' = l /\ Invalidate /\ UNCHANGED account

\* A file that is too old, of another schema or broken is removed by who reads it.
Expire(k) == /\ files[k].there /\ changes < MaxChanges /\ changes' = changes + 1
             /\ files' = [files EXCEPT ![k] = Absent]
             /\ UNCHANGED <<account, locale, gen, inFlight, first, parked, worker, asked, answered, up, quits, dialogs>>

-----------------------------------------------------------------------------
At(pc) == worker.pc = pc
Becomes(w) == worker' = w /\ UNCHANGED gui
Write(k, f) == files' = [files EXCEPT ![k] = f]

\* 1. the whole catalog from the cache.
ReadUnified ==
  /\ At("unified") /\ UNCHANGED files
  /\ LET f == files["unified"] IN
     Becomes(IF f.there
             THEN [worker EXCEPT !.pc = "posted", !.ok = TRUE, !.of = f.of, !.locale = f.locale]
             ELSE [worker EXCEPT !.pc = "native"])

\* What the answer to a request is: none, what was asked for, something else, an
\* error of the client's or of the server's.
Answers == {"none", "good", "bad", "client", "server"}

\* psnow_oauth, psnow_session, owned_oauth: a blip says nothing of the token.
OAuth(a) == CASE a = "good" -> "ok" [] a \in {"none", "server"} -> "fatal" [] OTHER -> "auth"
\* psnow_stores: only a definite no means that the region is not supported.
Stores(a) == CASE a = "good" -> "ok" [] a = "client" -> "region" [] OTHER -> "fatal"
RootCategories(a) == IF a = "good" THEN "ok" ELSE "fatal"
Categories == {1, 2}
\* The locale of the country that the session tells.
Region(learnt) == IF learnt THEN Home(worker.of) ELSE worker.locale

\* cc_fetch_psnow_native: the first step that does not succeed is the result. The
\* session already tells the country. A category that fails twice is left out.
Native ==
  /\ At("native") /\ UNCHANGED files
  /\ \E oauth, session \in {OAuth(a) : a \in Answers}, stores \in {Stores(a) : a \in Answers},
       root \in {RootCategories(a) : a \in Answers}, had \in SUBSET Categories, learnt \in BOOLEAN :
       LET r == IF worker.of = NoAccount THEN "auth" ELSE IF oauth # "ok" THEN oauth ELSE IF session # "ok" THEN session
                ELSE IF stores # "ok" THEN stores ELSE root
           here == Region(worker.of # NoAccount /\ oauth = "ok" /\ session # "fatal" /\ (learnt \/ session = "ok"))
       IN Becomes(CASE r = "ok" -> [worker EXCEPT !.pc = "imagic", !.apollo = had = Categories, !.lists = had = Categories,
                                                  !.nothing = had = {}, !.locale = here]
                    [] r = "auth" -> [worker EXCEPT !.pc = "imagic", !.auth = TRUE, !.apollo = TRUE, !.nothing = TRUE,
                                                    !.locale = here]
                    [] OTHER -> [worker EXCEPT !.pc = IF r = "region" THEN "fallback" ELSE "degraded", !.locale = here])

\* mutant: the fallback of a failed probe is as good as any
SettlesForAll(definite, all) == all

\* The public list. Only a region that a server said to be unsupported may have it
\* for a day: a failure of the native probe is asked again.
SettlesFor(definite, all) == definite /\ all

Fallback ==
  /\ \/ At("fallback") \/ At("degraded")
  /\ UNCHANGED files
  /\ \E all \in BOOLEAN, none \in BOOLEAN :
       /\ all => ~none
       /\ Becomes([worker EXCEPT !.pc = "imagic", !.apollo = SettlesFor(worker.pc = "fallback", all),
                                 !.lists = all /\ worker.pc = "fallback", !.nothing = none])

\* cc_fetch_imagic: the first locale that any list is answered for, and whether the
\* main list is among them.
FetchImagic(had) == IF had[1] # {} THEN <<worker.locale, "main" \in had[1]>>
                    ELSE IF had[2] # {} THEN <<Base, "main" \in had[2]>> ELSE <<>>

\* 3. the lists of PS5 games: from the file of the same locale, or fetched; the file
\* is written with the main list only.
Imagic ==
  /\ At("imagic")
  /\ IF files["v6"].there /\ files["v6"].locale = worker.locale
     THEN UNCHANGED files /\ Becomes([worker EXCEPT !.pc = "owned", !.browse = TRUE, !.games = TRUE])
     ELSE \E had \in [1..2 -> SUBSET {"main", "other"}] : LET got == FetchImagic(had) IN
            IF got # <<>>
            THEN /\ Becomes([worker EXCEPT !.pc = "owned", !.browse = got[2], !.games = TRUE, !.locale = got[1]])
                 /\ IF got[2] THEN Write("v6", File(worker.of, got[1], TRUE, TRUE, TRUE)) ELSE UNCHANGED files
            ELSE /\ UNCHANGED files
                 /\ Becomes(IF worker.nothing /\ ~worker.auth
                            THEN [worker EXCEPT !.pc = "posted", !.ok = FALSE]
                            ELSE [worker EXCEPT !.pc = "owned"])

\* cc_fetch_owned, page by page: the first page that is not good decides. The status
\* is only compared with 401 and 403 ("denied"): an error page that can be parsed
\* ("error") is an empty last page. Ghost: whether nothing is missing.
FetchOwned(pages) ==
  LET bad == {i \in DOMAIN pages : pages[i] # "good"} IN
  IF bad = {} THEN <<"ok", TRUE>>
  ELSE CASE pages[CHOOSE i \in bad : \A j \in bad : i <= j] = "denied" -> <<"auth", FALSE>>
         [] pages[CHOOSE i \in bad : \A j \in bad : i <= j] = "unreadable" -> <<"fatal", FALSE>>
         [] OTHER -> <<"ok", FALSE>>

\* 4. what the user owns.
Owned ==
  /\ At("owned")
  /\ IF worker.auth THEN UNCHANGED files /\ Becomes([worker EXCEPT !.pc = "assemble", !.owned = TRUE, !.fresh = TRUE])
     ELSE IF files["library"].there
     THEN UNCHANGED files /\ Becomes([worker EXCEPT !.pc = "assemble", !.owned = TRUE, !.fresh = files["library"].owned])
     ELSE \E a \in Answers, pages \in [1..2 -> {"good", "denied", "unreadable", "error"}] :
            LET got == IF OAuth(a) = "ok" THEN FetchOwned(pages) ELSE <<OAuth(a), FALSE>> IN
            /\ Becomes([worker EXCEPT !.pc = "assemble", !.auth = got[1] = "auth", !.owned = got[1] # "fatal", !.fresh = got[2]])
            /\ IF got[1] = "ok" THEN Write("library", File(worker.of, Base, TRUE, TRUE, got[2])) ELSE UNCHANGED files

\* 5.-7. the catalog is put together, and kept if nothing of it is missing.
Assemble ==
  /\ At("assemble") /\ Becomes([worker EXCEPT !.pc = "posted", !.ok = TRUE])
  /\ IF (~worker.nothing \/ worker.games) /\ ~worker.auth /\ worker.apollo /\ worker.browse /\ worker.owned
     THEN Write("unified", File(worker.of, worker.locale, worker.lists, worker.browse, worker.fresh))
     ELSE UNCHANGED files

Work == up /\ (ReadUnified \/ Native \/ Fallback \/ Imagic \/ Owned \/ Assemble)

\* mutant: only the callback that began the fetch is taken along
FirstOnly == {first}

Waiting == {first} \union parked

\* The completion on the GUI thread. A fetch that was overtaken by a change is
\* thrown away with what it wrote, and all who wait are fetched for again.
Complete ==
  /\ up /\ At("posted") /\ UNCHANGED <<account, gen, up, changes, quits, dialogs>>
  /\ IF worker.gen # gen
     THEN /\ files' = Wipe /\ Begin(first, gen, account, locale) /\ parked' = Waiting \ {first}
          /\ UNCHANGED <<locale, asked, answered>>
     ELSE /\ inFlight' = FALSE /\ first' = None /\ parked' = {} /\ worker' = Idle
          /\ locale' = IF worker.ok THEN worker.locale ELSE locale
          /\ asked' = asked \ Waiting
          /\ answered' = [v \in Views |-> IF v \in Waiting THEN (IF worker.ok THEN worker.of ELSE "failed") ELSE answered[v]]
          /\ UNCHANGED files

\* The application ends; the destructor of the application waits for the pool, so a
\* fetch that is under way may still write, but its completion is never run.
Quit == /\ up /\ quits < MaxQuits /\ quits' = quits + 1 /\ up' = FALSE
        /\ UNCHANGED <<account, locale, files, gen, inFlight, first, parked, worker, asked, answered, changes, dialogs>>

Drain == ~up /\ (ReadUnified \/ Native \/ Fallback \/ Imagic \/ Owned \/ Assemble)

Restart == /\ ~up /\ worker.pc \in {"idle", "posted"} /\ up' = TRUE /\ gen' = 0 /\ inFlight' = FALSE /\ first' = None
           /\ parked' = {} /\ worker' = Idle /\ asked' = {} /\ answered' = [v \in Views |-> "never"]
           /\ gameDetailsState' = NoDialog /\ timers' = {} /\ requests' = {} /\ wants' = <<>> /\ told' = <<>>
           /\ UNCHANGED <<account, locale, files, changes, quits, details, overlapped>>

-----------------------------------------------------------------------------
Asked == DOMAIN wants
Adds(s, x) == s \union {<<Cardinality(s) + 1, x>>}
Calls(d, what) == told' = [told EXCEPT ![d] = Adds(@, what)]

\* fetchGameDetails: from the cache at once; else after a pause of 100 ms.
FetchDetails(p) ==
  LET d == Cardinality(Asked) + 1 IN
  /\ up /\ d <= MaxAsked
  /\ wants' = [e \in 1..d |-> IF e = d THEN p ELSE wants[e]]
  /\ IF details[p] # Nobody
     THEN /\ told' = [e \in 1..d |-> IF e = d THEN {<<1, details[p]>>} ELSE told[e]]
          /\ UNCHANGED <<gameDetailsState, timers, overlapped>>
     ELSE /\ told' = [e \in 1..d |-> IF e = d THEN {} ELSE told[e]]
          /\ gameDetailsState' = [product |-> p, dialog |-> d] /\ timers' = timers \union {<<d, p>>}
          /\ overlapped' = (overlapped \/ timers \union requests # {})
  /\ UNCHANGED <<details, requests, catalog>>

\* executeGameDetailsFetch
ExecuteDetails(t) == /\ up /\ t \in timers /\ timers' = timers \ {t} /\ requests' = requests \union {t}
                     /\ UNCHANGED <<details, gameDetailsState, wants, told, overlapped, catalog>>

\* handleGameDetailsResponse: the product and the callback are read from the state.
DetailsFail(t) == /\ up /\ t \in requests /\ requests' = requests \ {t} /\ Calls(gameDetailsState.dialog, "error")
                  /\ UNCHANGED <<details, gameDetailsState, timers, wants, overlapped, catalog>>
DetailsAnswer(t) == /\ up /\ t \in requests /\ requests' = requests \ {t} /\ Calls(gameDetailsState.dialog, t[2])
                    /\ details' = [details EXCEPT ![gameDetailsState.product] = t[2]]
                    /\ UNCHANGED <<gameDetailsState, timers, wants, overlapped, catalog>>

ExpireDetails(p) == /\ details[p] # Nobody /\ details' = [details EXCEPT ![p] = Nobody]
                    /\ UNCHANGED <<gameDetailsState, timers, requests, wants, told, overlapped, catalog>>

-----------------------------------------------------------------------------
Init == /\ account \in Accounts \union {NoAccount} /\ locale \in Locales /\ files = Wipe /\ gen = 0 /\ inFlight = FALSE
        /\ first = None /\ parked = {} /\ worker = Idle /\ asked = {} /\ answered = [v \in Views |-> "never"]
        /\ up = TRUE /\ changes = 0 /\ quits = 0
        /\ details = [p \in Products |-> Nobody] /\ gameDetailsState = NoDialog /\ timers = {} /\ requests = {}
        /\ wants = <<>> /\ told = <<>> /\ overlapped = FALSE

Next == \/ \E v \in Views : Fetch(v)
        \/ (\E a \in Accounts \union {NoAccount} : ChangeAccount(a)) \/ (\E l \in Locales : ChangeLocale(l))
        \/ (\E k \in Keys : Expire(k)) \/ Work \/ Complete \/ Quit \/ Drain \/ Restart
        \/ \E p \in Products : FetchDetails(p) \/ ExpireDetails(p)
        \/ \E t \in timers \union requests : ExecuteDetails(t) \/ DetailsFail(t) \/ DetailsAnswer(t)
Spec == Init /\ [][Next]_vars
FairSpec == Spec /\ WF_vars(Work) /\ WF_vars(Complete) /\ WF_vars(Drain) /\ WF_vars(Restart)

-----------------------------------------------------------------------------
TypeOK == /\ account \in Accounts \union {NoAccount} /\ locale \in Locales /\ gen \in 0..MaxChanges
          /\ parked \subseteq asked /\ inFlight = (worker.pc # "idle")
          /\ \A k \in Keys : files[k].of \in Accounts \union {NoAccount}
          /\ timers \intersect requests = {} /\ \A d \in Asked : wants[d] \in Products

\* A view only ever holds a list of the account that is logged in, whatever changed
\* while it was fetched ("so one account never sees another account's owned games").
OwnGamesOnly == \A v \in Views : answered[v] \in {"never", "failed", account}

\* When no fetch is under way, the cache holds nothing of another account: the
\* completion's second wipe, since the worker writes after the first.
CacheIsOwn == up /\ ~inFlight => \A k \in {"unified", "library"} : files[k].there => files[k].of = account

\* A catalog that is kept for a day lacks no game of the two lists: a failure is
\* served but asked again.
KeptListsAreWhole == files["unified"].there => files["unified"].apollo /\ files["unified"].browse /\ files["unified"].of # NoAccount

\* "otherwise one 5xx hides the user's whole owned library for the full cache TTL":
\* what is kept lacks no game that the user owns.
KeptLibraryIsWhole == \A k \in {"unified", "library"} : files[k].there => files[k].owned

Safe == OwnGamesOnly /\ CacheIsOwn /\ KeptListsAreWhole

\* What is saved as the details of a product, "Saving game details to cache for:", are
\* that product's.
CachedUnderOwnProduct == \A p \in Products : details[p] \in {Nobody, p}

\* Each dialog hears once, and of its own product.
HearsOnce == \A d \in Asked : told[d] \subseteq {<<1, wants[d]>>, <<1, "error">>}

\* Both hold while one dialog waits at a time, whatever is cached, expires or fails.
OneAtATimeIsRight == ~overlapped => CachedUnderOwnProduct /\ HearsOnce

\* Every view is answered, unless the user quits.
Answered(v) == v \notin asked
ViewsAnswered == \A v \in Views : []<>Answered(v)
=============================================================================
