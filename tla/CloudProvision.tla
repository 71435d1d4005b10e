----------------------------- MODULE CloudProvision -----------------------------
(***************************************************************************)
(* chiaki_cloud_provision_session of lib/src/cloudsession.c: the check of  *)
(* the token, Kamaji's steps that find and, if need be, buy the title's    *)
(* entitlement (cloudsession_kamaji.c), Gaikai's that lock and allocate a  *)
(* slot (cloudsession_gaikai.c), the cancel that is polled between them,   *)
(* and the one fallback from an owned entitlement to the whole flow.       *)
(***************************************************************************)
EXTENDS Naturals, Sequences

CONSTANTS MaxLock,     \* MAX_LOCK_RETRIES
          MaxNet,      \* GK_ALLOC_MAX_NET_ERRORS
          NetRetry,    \* GK_ALLOC_NET_RETRY_S
          DefaultWait, \* DEFAULT_ALLOC_WAIT_S
          MaxWait,     \* MAX_ALLOC_WAIT_S
          Polls,       \* the poll intervals that the server asks for
          Estimates    \* its estimates of the wait; 0: none

Kamaji == <<"0.5b", "0.5c", "0.5d", "token", "attributes", "entitlement", "preview", "buynow", "5", "6">>
Gaikai == <<"0", "7", "8", "8a", "8b", "9", "10", "11", "12", "13">>
Steps == Kamaji \o Gaikai

\* mutant: buynow follows its preview without a look
PolledButBuy == {"auth", "first", "0.5c", "0.5d", "token", "preview", "5", "6",
                 "0", "7", "8", "8a", "8b", "9", "10", "13", "pings"}

\* The steps before which the flow looks whether it was cancelled.
Polled == {"auth", "first", "0.5c", "0.5d", "token", "preview", "buynow", "5", "6",
           "0", "7", "8", "8a", "8b", "9", "10", "13", "pings"}

After(s) == Steps[(CHOOSE i \in 1..Len(Steps) : Steps[i] = s) + 1]

VARIABLES cfg,        \* [pscloud, owned, foreign, legacy, skip, forced], BOOLEANs
          pc, polled, \* the step, and whether the cancel was polled for it
          whole,      \* the run without the owned entitlement
          retried,    \* 0.5d asks the fallback store
          locks, net, \* attempts at the lock; network errors in a row
          elapsed, limit, \* the wait for a slot; limit 0: the server did not say yet
          err, msg,   \* out->err, out->error_message
          slot,       \* the result was filled in
          cancelled, late, \* is_cancelled; requests that were begun since
          bought,     \* licenses bought
          readOnly    \* ghost: the cancel came before the preview was answered
vars == <<cfg, pc, polled, whole, retried, locks, net, elapsed, limit, err, msg, slot, cancelled, late, bought, readOnly>>

FastPath == cfg.owned /\ ~whole
FirstStep(owned) == IF cfg.pscloud THEN "0" ELSE IF owned THEN "5" ELSE "0.5b"

Goto(s) == pc' = s /\ polled' = (s \notin Polled)
Returns(e, m) == pc' = "out" /\ polled' = TRUE /\ err' = e /\ msg' = m /\ UNCHANGED <<whole, retried>>

\* mutant: the fallback keeps the owned entitlement
FallsBackAgain(e, m) ==
  IF cfg.owned /\ m = "no game" /\ ~cancelled
  THEN Goto(FirstStep(TRUE)) /\ err' = "none" /\ msg' = "none" /\ UNCHANGED <<whole, retried>>
  ELSE Returns(e, m)

\* An entitlement of the user's that Gaikai rejects: once more with the whole flow.
Ends(e, m) ==
  IF FastPath /\ m = "no game" /\ ~cancelled
  THEN Goto(FirstStep(FALSE)) /\ whole' = TRUE /\ retried' = FALSE /\ err' = "none" /\ msg' = "none"
  ELSE Returns(e, m)

Calm == UNCHANGED <<locks, net, elapsed, limit>>
Rest == UNCHANGED <<cfg, slot, cancelled, late, bought, readOnly>>

\* The user backs out.
Cancel == /\ ~cancelled /\ pc # "out" /\ cancelled' = TRUE
          /\ readOnly' = (pc \in {"auth", "first"} \union {Kamaji[i] : i \in 1..7})
          /\ UNCHANGED <<cfg, pc, polled, whole, retried, locks, net, elapsed, limit, err, msg, slot, late, bought>>

\* is_cancelled between the steps; between the check of the token and the run it decides the first step.
Poll == /\ ~polled /\ pc # "out"
        /\ IF cancelled THEN Returns("canceled", msg)
           ELSE IF pc = "first" THEN Goto(FirstStep(cfg.owned)) /\ UNCHANGED <<err, msg, whole, retried>>
           ELSE polled' = TRUE /\ UNCHANGED <<pc, err, msg, whole, retried>>
        /\ Calm /\ Rest

\* Every request is begun like this.
Asks(s) == /\ pc = s /\ polled /\ late' = (IF cancelled THEN late + 1 ELSE late)
           /\ UNCHANGED <<cfg, cancelled, readOnly>>

\* cc_authorize_check: only a server's answer speaks against the token.
CheckToken ==
  /\ Asks("auth") /\ Calm /\ UNCHANGED <<slot, bought>>
  /\ \/ Goto("first") /\ UNCHANGED <<err, msg, whole, retried>>
     \/ Returns("unknown", "AUTHORIZATION_FAILED")
     \/ Returns("network", "network error")

\* A step with nothing of its own: on, or the end with one of the messages, or a network error.
Plain(s, says, lost) ==
  /\ Asks(s) /\ Calm /\ UNCHANGED <<slot, bought>>
  /\ \/ Goto(After(s)) /\ UNCHANGED <<err, msg, whole, retried>>
     \/ \E m \in says : Ends("unknown", m)
     \/ Ends(lost, "none")

AnonymousSession == Plain("0.5b", {"none"}, "network") \/ Plain("0.5c", {"none"}, "network")

\* 0.5d: a modern title of a foreign catalog is looked for once more in the fallback store.
Resolve == \/ Plain("0.5d", {"not found", "no entitlement", "none"}, "network")
           \/ /\ Asks("0.5d") /\ cfg.foreign /\ ~cfg.legacy /\ ~retried /\ retried' = TRUE
              /\ Calm /\ UNCHANGED <<slot, bought, pc, polled, whole, err, msg>>

Token == Plain("token", {"none"}, "network")

Attributes ==
  IF cfg.skip
  THEN /\ pc = "attributes" /\ Goto("entitlement") /\ Calm
       /\ UNCHANGED <<cfg, whole, retried, err, msg, slot, cancelled, late, bought, readOnly>>
  ELSE Plain("attributes", {"ACCOUNT_PRIVACY_SETTINGS"}, "network")

AuthSession == Plain("5", {"none"}, "network") \/ Plain("6", {"none"}, "network")

\* The client ids, the configuration, the start; the body of a refusal is the message.
Start == Plain("0", {"none"}, "unknown") \/ Plain("7", {"none"}, "unknown")
         \/ Plain("8", {"no game", "rejected", "none"}, "unknown")
AuthCodes == Plain("8a", {"none"}, "network") \/ Plain("8b", {"none"}, "network")
Authorize == Plain("9", {"no game", "rejected", "PS_PLUS_SUBSCRIPTION_REQUIRED", "none"}, "network")

\* 0.5e: does the user own it? A legacy title of a foreign catalog need not be bought.
Entitlement ==
  /\ Asks("entitlement") /\ Calm /\ UNCHANGED <<slot, bought>>
  /\ \/ \E owns \in BOOLEAN : /\ Goto(IF owns \/ (cfg.foreign /\ cfg.legacy) THEN "5" ELSE "preview")
                              /\ UNCHANGED <<err, msg, whole, retried>>
     \/ \E e \in {"unknown", "network"} : Ends(e, "none")

\* What the checkout does with a failure: a foreign catalog goes on without a license.
CheckoutFails(e, m) == IF cfg.foreign THEN Goto("5") /\ UNCHANGED <<err, msg, whole, retried>> ELSE Ends(e, m)

Preview == /\ Asks("preview") /\ Calm /\ UNCHANGED <<slot, bought>>
           /\ \/ Goto("buynow") /\ UNCHANGED <<err, msg, whole, retried>>
              \/ \E m \in {"PS_PLUS_SUBSCRIPTION_REQUIRED", "GAME_NOT_FREE", "none"} : CheckoutFails("unknown", m)
              \/ CheckoutFails("network", "none")

\* The answer may be lost after the license was bought.
BuyNow == /\ Asks("buynow") /\ Calm /\ UNCHANGED slot
          /\ \/ bought' = bought + 1 /\ Goto("5") /\ UNCHANGED <<err, msg, whole, retried>>
             \/ CheckoutFails("unknown", "none") /\ UNCHANGED bought
             \/ CheckoutFails("network", "none") /\ bought' \in {bought, bought + 1}

\* Steps 10 and 13 try again after a network error, a limited number of times in
\* a row: TooOften. A cancel that is there when it comes is seen first.
TooOften == net + 1 > MaxNet

Lock ==
  /\ Asks("10") /\ UNCHANGED <<slot, bought, elapsed, limit>>
  /\ \/ Goto("11") /\ net' = 0 /\ UNCHANGED <<locks, err, msg, whole, retried>>
     \/ Ends("unknown", "none") /\ net' = 0 /\ UNCHANGED locks
     \/ /\ net' = 0
        /\ IF locks = MaxLock THEN Ends("unknown", "none") /\ UNCHANGED locks
           ELSE locks' = locks + 1 /\ Goto("10") /\ UNCHANGED <<err, msg, whole, retried>>
     \/ /\ UNCHANGED locks
        /\ IF cancelled THEN Ends("canceled", "none") /\ UNCHANGED net
           ELSE IF TooOften THEN Ends("network", "none") /\ UNCHANGED net
           ELSE net' = net + 1 /\ Goto("10") /\ UNCHANGED <<err, msg, whole, retried>>

\* 11: the list; the pings (PingJobs) are skipped for a datacenter of the user's choice.
Datacenters ==
  /\ Asks("11") /\ Calm /\ UNCHANGED <<slot, bought>>
  /\ \/ Goto(IF cfg.forced THEN "12" ELSE "pings") /\ UNCHANGED <<err, msg, whole, retried>>
     \/ Ends("unknown", IF cfg.forced THEN "not available" ELSE "none")
     \/ \E e \in {"unknown", "network"} : Ends(e, "none")

Pings == /\ pc = "pings" /\ polled /\ Calm /\ Rest
         /\ \/ Goto("12") /\ UNCHANGED <<err, msg, whole, retried>>
            \/ Ends("unknown", "PING_TIMEOUT")
            \/ cancelled /\ Ends("canceled", "none")

Select == /\ Asks("12") /\ UNCHANGED <<slot, bought, locks>>
          /\ \/ /\ Goto("13") /\ net' = 0 /\ elapsed' = 0 /\ limit' = 0 /\ UNCHANGED <<err, msg, whole, retried>>
             \/ \E e \in {"unknown", "network"} : Ends(e, "none") /\ UNCHANGED <<net, elapsed, limit>>

Limit == IF limit = 0 THEN DefaultWait ELSE limit
LimitFor(est) == IF est = 0 THEN DefaultWait ELSE IF est * 2 > MaxWait THEN MaxWait ELSE est * 2

\* 13: a slot; or a queue, with a limit that the first answer sets; or a network error.
Allocate ==
  /\ Asks("13") /\ UNCHANGED <<bought, locks>>
  /\ \/ Ends("success", msg) /\ slot' = TRUE /\ net' = 0 /\ UNCHANGED <<elapsed, limit>>
     \/ Ends("unknown", msg) /\ net' = 0 /\ UNCHANGED <<slot, elapsed, limit>>
     \/ \E est \in Estimates, poll \in Polls :
          LET most == IF limit = 0 THEN LimitFor(est) ELSE limit IN
          /\ net' = 0 /\ limit' = most /\ UNCHANGED slot
          /\ IF elapsed >= most THEN Ends("timeout", msg) /\ UNCHANGED elapsed
             ELSE /\ elapsed' = elapsed + (IF poll > most - elapsed THEN most - elapsed ELSE poll)
                  /\ Goto("13") /\ UNCHANGED <<err, msg, whole, retried>>
     \/ /\ UNCHANGED <<slot, limit>>
        /\ IF cancelled THEN Ends("canceled", msg) /\ UNCHANGED <<net, elapsed>>
           ELSE IF TooOften THEN Ends("network", "cannot reach") /\ UNCHANGED <<net, elapsed>>
           ELSE IF elapsed >= Limit THEN Ends("network", "timed out") /\ UNCHANGED <<net, elapsed>>
           ELSE net' = net + 1 /\ elapsed' = elapsed + NetRetry /\ Goto("13")
                /\ UNCHANGED <<err, msg, whole, retried>>

Init == /\ cfg \in [pscloud : BOOLEAN, owned : BOOLEAN, foreign : BOOLEAN, legacy : BOOLEAN, skip : BOOLEAN, forced : BOOLEAN]
        /\ pc = "auth" /\ polled = FALSE /\ whole = FALSE /\ retried = FALSE /\ locks = 0 /\ net = 0
        /\ elapsed = 0 /\ limit = 0 /\ err = "none" /\ msg = "none" /\ slot = FALSE
        /\ cancelled = FALSE /\ late = 0 /\ bought = 0 /\ readOnly = FALSE

Flow == \/ Poll \/ CheckToken \/ AnonymousSession \/ Resolve \/ Token \/ Attributes \/ Entitlement \/ Preview
        \/ BuyNow \/ AuthSession \/ Start \/ AuthCodes \/ Authorize \/ Lock \/ Datacenters \/ Pings \/ Select \/ Allocate
Next == Cancel \/ Flow
Spec == Init /\ [][Next]_vars
FairSpec == Spec /\ WF_vars(Flow)

-----------------------------------------------------------------------------
TypeOK == /\ pc \in {"auth", "first", "pings", "out"} \union {Steps[i] : i \in 1..Len(Steps)}
          /\ locks \in 0..MaxLock /\ net \in 0..MaxNet /\ elapsed \in 0..(MaxWait + NetRetry)
          /\ bought \in Nat /\ late \in Nat

\* Success comes with a slot and without a message (the UI shows any message it
\* does not know), and a slot only comes with success.
SuccessIsWhole == pc = "out" => (err = "success" <=> slot) /\ (slot => msg = "none")

\* Nothing is bought when the cancel came before the preview was answered
\* (km_checkout_acquire polls twice), and never twice, the fallback included.
BuysAtMostOnce == bought <= 1 /\ (readOnly => bought = 0)

\* After a cancel no more than three requests go out, whatever step it hit.
CancelStopsSoon == late <= 3

\* The wait for a slot ends near the limit: one network retry may run past it.
WaitIsBounded == limit # 0 => elapsed <= limit + MaxNet * NetRetry

Safe == SuccessIsWhole /\ BuysAtMostOnce /\ CancelStopsSoon /\ WaitIsBounded

\* Whatever the servers answer, the flow comes to an end: the lock, the queue and
\* the network errors all are counted.
Over == pc = "out"
FlowEnds == []<>Over
=============================================================================
