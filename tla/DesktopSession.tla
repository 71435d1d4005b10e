--------------------------- MODULE DesktopSession ---------------------------
(***************************************************************************)
(* gui/src: the life of the one session the desktop client has.            *)
(* QmlBackend (qmlbackend.cpp) makes it for a console in the network or    *)
(* behind PSN, CloudStreamingBackend (cloudstreamingbackend.cpp) for a     *)
(* cloud game; StreamSession (streamsession.cpp) holds the ChiakiSession.  *)
(*                                                                         *)
(* "desk" is what the GUI thread owns: the session objects, the pointer to *)
(* the current one, the timers and the queue of its posted events.  A      *)
(* handler is an operator from desk to desk, so that what it calls is part *)
(* of its step.  The session threads, the PSN worker and the pool that     *)
(* provisions a cloud game post events and touch only their own session.   *)
(***************************************************************************)
EXTENDS Naturals, Sequences, FiniteSets

CONSTANTS Hosts,        \* consoles in the network, registered
          NoHost,
          Setups,       \* the kinds of session asked for; bounds: sleeps of the
                        \* computer, starts that fail, consoles switched on or off
          MaxSessions,  \* bound: session objects made
          MaxAttempts,  \* bound: attempts of a session in its 20 seconds of retries
          MaxTries      \* MAX_PSN_RECONNECT_TRIES

Ids == 1..MaxSessions

VARIABLES desk,   \* the GUI thread's state
          power,  \* what discovery last saw of each console: "standby" or "ready"
          setup   \* what is left of the bounds
vars == <<desk, power, setup>>

\* thread: "punching" and "cancelled" are the PSN worker's, then the session
\* thread is "running", "waiting" for a retry, or "ended"; "failed" never began.
Unmade == [kind |-> "none", host |-> NoHost, life |-> "none", thread |-> "none",
           attempts |-> 0, connected |-> FALSE, stop |-> FALSE, ctrlFailed |-> FALSE]
Started == {"running", "waiting"}

Init ==
  /\ \E auto \in Hosts \union {NoHost} :
       desk = [s |-> [i \in Ids |-> Unmade], cur |-> 0, queue |-> <<>>,
               info |-> [kind |-> "none", host |-> NoHost],
               wakeName |-> NoHost, wakeStart |-> FALSE, timer |-> FALSE,
               auto |-> auto, discovery |-> TRUE, inhibited |-> FALSE,
               resume |-> FALSE, slept |-> 0, tries |-> 0,
               asking |-> FALSE, provisioning |-> FALSE, crashed |-> FALSE]
  /\ power \in [Hosts -> {"standby", "ready"}]
  /\ setup \in Setups

-----------------------------------------------------------------------------
(* What the handlers are made of                                            *)

Made(d) == Cardinality({i \in Ids : d.s[i].life # "none"})
Current(d) == d.s[d.cur]
Post(d, event) == [d EXCEPT !.queue = Append(@, event)]

\* session->deleteLater(): neither a stop nor a join.
Doomed(d) == [Post(d, [what |-> "delete", id |-> d.cur]) EXCEPT !.s[d.cur].life = "doomed"]
Dropped(d) == [Doomed(d) EXCEPT !.cur = 0]

\* With no session the handlers that do not ask call through a null pointer.
WithSession(d, then) == IF d.cur = 0 THEN [d EXCEPT !.crashed = TRUE] ELSE then

NewSession(d, info) ==
  LET i == Made(d) + 1 IN
  [d EXCEPT !.cur = i,
            !.s[i] = [Unmade EXCEPT !.kind = info.kind, !.host = info.host, !.life = "live"]]

StreamStart(d, starts) ==
  [d EXCEPT !.s[d.cur].thread = IF starts THEN "running" ELSE "failed",
            !.s[d.cur].attempts = IF starts THEN @ + 1 ELSE @]

Launched(d, starts) ==
  WithSession(d, IF starts THEN [StreamStart(d, TRUE) EXCEPT !.inhibited = TRUE]
                           ELSE Dropped(StreamStart(d, FALSE)))

\* connect_timer runs from the first start to CONNECTED.
IsConnecting(d) == d.cur # 0 /\ Current(d).thread \in Started /\ ~Current(d).connected

SeesOwn(d, state) == d.info.host \in Hosts /\ power[d.info.host] = state

WakesNow(d) == /\ d.wakeStart /\ d.cur # 0
               /\ SeesOwn(d, "ready") /\ d.info.host = d.wakeName
WakesAgain(d) == SeesOwn(d, "standby") /\ IsConnecting(d)

\* The console this session is for, in the list that discovery has.
OwnHostUpdated(d, starts) ==
  IF WakesNow(d)
  THEN Launched([d EXCEPT !.wakeName = NoHost, !.wakeStart = FALSE, !.timer = FALSE], starts)
  ELSE IF WakesAgain(d) THEN [d EXCEPT !.wakeName = d.info.host] ELSE d

Refuses(d) == d.cur # 0

Opened(d, starts) ==
  IF d.info.kind = "psn"
  THEN [d EXCEPT !.discovery = FALSE, !.s[d.cur].thread = "punching"]
  ELSE IF d.wakeName # NoHost
       THEN OwnHostUpdated([d EXCEPT !.wakeStart = TRUE, !.timer = TRUE], starts)
       ELSE Launched(d, starts)

CreateSession(d, info, starts) ==
  LET asked == [d EXCEPT !.auto = NoHost] IN
  IF Refuses(d) THEN asked
  ELSE Opened(NewSession([asked EXCEPT !.info = info], info), starts)

WakesFirst(h) == power[h] = "standby"

ConnectToHost(d, h, starts) ==
  CreateSession([d EXCEPT !.resume = FALSE,
                          !.wakeName = IF WakesFirst(h) THEN h ELSE @],
                [kind |-> "lan", host |-> h], starts)

UpdateDiscoveryHosts(d, starts) ==
  LET own == OwnHostUpdated(d, starts) IN
  IF own.auto # NoHost THEN ConnectToHost(own, own.auto, starts) ELSE own

StopAutoConnect(d) ==
  LET cleared == [d EXCEPT !.auto = NoHost]
      gaveUp == [cleared EXCEPT !.timer = FALSE, !.wakeName = NoHost, !.wakeStart = FALSE]
  IN  IF d.wakeName = NoHost THEN cleared
      ELSE IF d.wakeStart THEN WithSession(gaveUp, Dropped(gaveUp)) ELSE gaveUp

StreamStop(d) == [d EXCEPT !.s[d.cur].stop = TRUE]
PsnCancel(d) ==
  IF d.cur # 0 /\ Current(d).thread = "punching"
  THEN [d EXCEPT !.s[d.cur].thread = "cancelled"] ELSE d

-----------------------------------------------------------------------------
(* The events posted to the GUI thread                                      *)

ConnectedChanged(d) == WithSession(d, IF Current(d).connected
                                      THEN [d EXCEPT !.discovery = FALSE] ELSE d)

Released(d) == [d EXCEPT !.inhibited = FALSE, !.discovery = TRUE]
SessionQuit(d) == WithSession(d, Released(Dropped(d)))

CheckPsnConnection(d, success, starts) ==
  IF success THEN Launched(d, starts)
  ELSE IF d.cur # 0 THEN [Dropped(d) EXCEPT !.discovery = TRUE] ELSE d

\* The handler of sessionCreated comes first, then the start; session_info stays.
FinishCloudSession(d, starts) ==
  LET dropped == IF d.cur # 0 THEN Doomed(d) ELSE d
      registered == [NewSession(dropped, [kind |-> "cloud", host |-> NoHost])
                       EXCEPT !.inhibited = TRUE]
  IN  StreamStart(registered, starts)

CloudAnswered(d, success, starts) ==
  LET answered == [d EXCEPT !.provisioning = FALSE]
  IN  IF success THEN FinishCloudSession(answered, starts) ELSE answered

Delivered(d, e, starts) ==
  CASE e.what = "connected" -> ConnectedChanged(d)
    [] e.what = "quit" -> SessionQuit(d)
    [] e.what = "psn" -> CheckPsnConnection(d, e.success, starts)
    [] e.what = "cloud" -> CloudAnswered(d, e.success, starts)
    [] e.what = "delete" -> [d EXCEPT !.s[e.id].life = "gone"]

-----------------------------------------------------------------------------
(* Steps of the GUI thread                                                  *)

CanMake == Made(desk) < MaxSessions

\* A step may start a session; a start may fail within the bound.
Gui(Result(_)) ==
  /\ ~desk.crashed
  /\ \E starts \in BOOLEAN :
       /\ desk' = Result(starts)
       /\ LET failed(d) == Cardinality({i \in Ids : d.s[i].thread = "failed"}) IN
          setup' = [setup EXCEPT !.fails = @ - (failed(desk') - failed(desk))]
       /\ starts \/ setup.fails > 0

Deliver ==
  /\ desk.queue # <<>> /\ ~desk.crashed
  /\ LET e == Head(desk.queue)
         rest == [desk EXCEPT !.queue = Tail(@)]
     IN  IF e.what \in {"psn", "cloud"}
         THEN /\ CanMake \/ e.what = "psn" \/ ~e.success
              /\ \E starts \in {TRUE} \union (IF setup.fails > 0 THEN {FALSE} ELSE {}) :
                   /\ desk' = Delivered(rest, e, starts)
                   /\ setup' = [setup EXCEPT !.fails = IF starts THEN @ ELSE @ - 1]
         ELSE desk' = Delivered(rest, e, TRUE) /\ UNCHANGED setup
  /\ UNCHANGED power

HostsUpdated ==
  /\ desk.discovery /\ (desk.auto = NoHost \/ CanMake)
  /\ Gui(LAMBDA starts : UpdateDiscoveryHosts(desk, starts))
  /\ UNCHANGED power

\* The views leave the user one thing to ask for at a time (external, QML).
MainView == desk.cur = 0 /\ ~desk.provisioning /\ desk.auto = NoHost

AskLan == \E h \in Hosts :
  /\ MainView /\ CanMake /\ "lan" \in setup.kinds
  /\ Gui(LAMBDA starts : ConnectToHost(desk, h, starts))
  /\ UNCHANGED power

PsnInfo == [kind |-> "psn", host |-> NoHost]

\* The token is fresh, or refreshed first.
AskPsn ==
  /\ MainView /\ CanMake /\ "psn" \in setup.kinds
  /\ \/ Gui(LAMBDA starts : CreateSession([desk EXCEPT !.resume = FALSE], PsnInfo, starts))
     \/ desk' = [desk EXCEPT !.resume = FALSE, !.asking = TRUE] /\ UNCHANGED setup
  /\ UNCHANGED power

TokenRefreshed ==
  /\ desk.asking /\ CanMake
  /\ \/ Gui(LAMBDA starts : CreateSession([desk EXCEPT !.asking = FALSE], PsnInfo, starts))
     \/ desk' = [desk EXCEPT !.asking = FALSE] /\ UNCHANGED setup
  /\ UNCHANGED power

AskCloud ==
  /\ MainView /\ "cloud" \in setup.kinds /\ ~desk.crashed
  /\ desk' = [desk EXCEPT !.provisioning = TRUE]
  /\ UNCHANGED <<power, setup>>

StopSession ==
  /\ desk.cur # 0 /\ ~Current(desk).stop /\ ~desk.crashed
  /\ desk' = StreamStop(desk)
  /\ UNCHANGED <<power, setup>>

CancelPsn ==
  /\ PsnCancel(desk) # desk /\ ~desk.crashed
  /\ desk' = PsnCancel(desk)
  /\ UNCHANGED <<power, setup>>

\* The user leaves the view, or the 25 seconds are over.
LeaveAutoConnect ==
  /\ desk.auto # NoHost \/ desk.wakeStart
  /\ ~desk.crashed
  /\ desk' = StopAutoConnect(desk)
  /\ UNCHANGED <<power, setup>>

WakeupStartFailed == desk.timer /\ LeaveAutoConnect

GoToSleep ==
  /\ setup.sleeps > 0 /\ desk.cur # 0 /\ ~desk.crashed
  /\ LET stopped == StreamStop(desk) IN
     desk' = [IF desk.info.kind = "psn" THEN PsnCancel(stopped) ELSE stopped
                EXCEPT !.resume = TRUE, !.slept = desk.cur]
  /\ setup' = [setup EXCEPT !.sleeps = @ - 1]
  /\ UNCHANGED power

ResumeFromSleep ==
  /\ desk.resume /\ CanMake
  /\ LET awake == [desk EXCEPT !.resume = FALSE] IN
     IF desk.info.kind = "psn"
     THEN desk' = [awake EXCEPT !.tries = 1] /\ UNCHANGED setup
     ELSE Gui(LAMBDA starts : CreateSession(awake, desk.info, starts))
  /\ UNCHANGED power

PsnReconnect ==
  /\ desk.tries > 0 /\ CanMake
  /\ LET ended == [desk EXCEPT !.resume = FALSE, !.tries = 0] IN
     \/ Gui(LAMBDA starts : CreateSession(ended, desk.info, starts))
     \/ /\ desk' = IF desk.tries < MaxTries THEN [desk EXCEPT !.tries = @ + 1] ELSE ended
        /\ UNCHANGED setup
  /\ UNCHANGED power

-----------------------------------------------------------------------------
(* Steps of the others                                                      *)

Runs(i) == desk.s[i].thread = "running" /\ desk.s[i].life # "gone" /\ ~desk.crashed

\* The session thread tells of the connection; ctrl_failed is never reset.
Connects(i) ==
  /\ Runs(i) /\ ~desk.s[i].connected /\ ~desk.s[i].stop /\ ~desk.s[i].ctrlFailed
  /\ desk.s[i].host \in Hosts => power[desk.s[i].host] = "ready"
  /\ desk' = Post([desk EXCEPT !.s[i].connected = TRUE], [what |-> "connected", id |-> i])
  /\ UNCHANGED <<power, setup>>

Reasons == {"stopped", "refused", "crashed_or_in_use", "ctrl"}
Retries(x, reason) ==
  /\ ~x.connected /\ x.kind # "psn"
  /\ reason \notin {"stopped", "crashed_or_in_use"}

\* CHIAKI_EVENT_QUIT, the last act of the session thread.
Quits(i) == \E reason \in Reasons :
  /\ Runs(i)
  /\ reason = "stopped" <=> desk.s[i].stop
  /\ LET x == [desk.s[i] EXCEPT !.ctrlFailed = @ \/ reason = "ctrl"] IN
     \/ /\ Retries(x, reason) /\ x.attempts < MaxAttempts
        /\ desk' = [desk EXCEPT !.s[i] = [x EXCEPT !.thread = "waiting"]]
     \/ /\ ~(Retries(x, reason) /\ x.attempts = 1)
        /\ desk' = Post([desk EXCEPT !.s[i] = [x EXCEPT !.thread = "ended", !.connected = FALSE]],
                        [what |-> "quit", id |-> i])
  /\ UNCHANGED <<power, setup>>

\* The timer's second is over; it dies with the object.
Retry(i) ==
  /\ desk.s[i].thread = "waiting" /\ desk.s[i].life # "gone" /\ ~desk.crashed
  /\ desk' = [desk EXCEPT !.s[i].thread = "running", !.s[i].attempts = @ + 1]
  /\ UNCHANGED <<power, setup>>

PunchEnds(i) == \E success \in BOOLEAN :
  /\ desk.s[i].thread \in {"punching", "cancelled"} /\ desk.s[i].life # "gone" /\ ~desk.crashed
  /\ success => desk.s[i].thread = "punching"
  /\ desk' = Post([desk EXCEPT !.s[i].thread = "none"],
                  [what |-> "psn", id |-> i, success |-> success])
  /\ UNCHANGED <<power, setup>>

\* chiaki_cloud_provision_session returns (module CloudProvision); it cannot be cancelled.
Provisioned == \E success \in BOOLEAN :
  /\ desk.provisioning /\ \A k \in DOMAIN desk.queue : desk.queue[k].what # "cloud"
  /\ ~desk.crashed
  /\ desk' = Post(desk, [what |-> "cloud", id |-> 0, success |-> success])
  /\ UNCHANGED <<power, setup>>

\* A console is switched on, wakes up or goes to standby.
Switched == \E h \in Hosts :
  /\ setup.switches > 0
  /\ power' = [power EXCEPT ![h] = IF @ = "ready" THEN "standby" ELSE "ready"]
  /\ setup' = [setup EXCEPT !.switches = @ - 1]
  /\ UNCHANGED desk

SessionThread(i) == Quits(i) \/ Retry(i) \/ PunchEnds(i)

Next ==
  \/ Deliver \/ HostsUpdated \/ AskLan \/ AskPsn \/ TokenRefreshed \/ AskCloud
  \/ StopSession \/ CancelPsn \/ LeaveAutoConnect \/ WakeupStartFailed
  \/ GoToSleep \/ ResumeFromSleep \/ PsnReconnect \/ Provisioned \/ Switched
  \/ \E i \in Ids : Connects(i) \/ SessionThread(i)

Spec == Init /\ [][Next]_vars
\* Event loop, timers and threads go on.  That a session thread which was stopped
\* quits is what module Session shows; that the punch ends is the worker's bound.
Fairness ==
  /\ WF_vars(Deliver) /\ WF_vars(WakeupStartFailed)
  /\ \A i \in Ids : WF_vars(SessionThread(i) /\ (desk.s[i].stop \/ desk.s[i].thread # "running"))
FairSpec == Spec /\ Fairness

-----------------------------------------------------------------------------
TypeOK ==
  /\ desk.cur \in 0..MaxSessions
  /\ desk.tries \in 0..MaxTries
  /\ \A i \in Ids : desk.s[i].life \in {"none", "live", "doomed", "gone"}
  /\ desk.wakeName \in Hosts \union {NoHost}

\* A handler finds the session it was connected for: no SessionQuit, ConnectedChanged
\* or PSN result is applied to another session, or to none.
OwnSession ==
  desk.queue # <<>> => LET e == Head(desk.queue) IN
                       e.what \in {"connected", "quit", "psn"} => e.id = desk.cur

\* A session object is not freed under the thread that works on it.
CleanedUp == \A i \in Ids :
  desk.s[i].life = "gone" => desk.s[i].thread \notin {"running", "punching", "cancelled"}

\* The computer may sleep again as soon as, and not before, no session runs.
SleepAllowed ==
  /\ desk.inhibited => desk.cur # 0
  /\ desk.cur # 0 /\ Current(desk).thread \in Started => desk.inhibited

\* Without a session the consoles are looked for, unless a PSN session failed to start.
DiscoveryComesBack ==
  desk.cur = 0 => desk.discovery \/ \E i \in Ids : desk.s[i].kind = "psn" /\ desk.s[i].thread = "failed"

Safe == OwnSession /\ CleanedUp /\ SleepAllowed /\ DiscoveryComesBack

\* A started session that the user stopped is gone in the end, retries or not.
GoneIfStopped(i) == desk.s[i].stop /\ desk.s[i].thread \in Started \union {"ended"} => desk.s[i].life = "gone"
StopEnds == \A i \in Ids : []<>GoneIfStopped(i)

\* Waiting for a console to wake up ends with its session started or given up.
NotWaiting == ~desk.wakeStart
WaitEnds == []<>NotWaiting

\* A retry can succeed: an attempt is not hopeless from its first step.
RetryIsNotHopeless == \A i \in Ids :
  desk.s[i].thread = "running" /\ desk.s[i].attempts > 1 => ~desk.s[i].ctrlFailed

\* A console that is seen to be ready is not waited for.
ReadyIsStarted ==
  desk.wakeStart /\ desk.cur # 0 /\ SeesOwn(desk, "ready") => desk.info.host = desk.wakeName

\* "Resuming session...": what comes after a sleep is of the kind that was put to sleep.
ResumesWhatSlept == [][
  desk.resume /\ ~desk'.resume /\ desk'.cur # desk.cur /\ ResumeFromSleep
    => desk'.s[desk'.cur].kind = desk.s[desk.slept].kind]_vars
=============================================================================
