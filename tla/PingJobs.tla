------------------------------- MODULE PingJobs -------------------------------
(***************************************************************************)
(* gk_step11_datacenters of lib/src/cloudsession_gaikai.c: every           *)
(* datacenter is pinged on a thread of its own. The owner waits for them   *)
(* until a deadline or a cancel, joins those that are done and abandons    *)
(* the others; who comes second to the handoff frees the job. The rows are *)
(* merged into the list that the settings keep, and the best is selected.  *)
(***************************************************************************)
EXTENDS Naturals, FiniteSets

CONSTANTS N,     \* datacenters in the server's list
          Old,   \* datacenters that only the settings still know
          Rtts,  \* times that are measured, in ms
          Gate,  \* the best time must not be above it (80)
          Failed \* the time of a row that was not measured (999)

Dcs == 1..N
NoRow == [rtt |-> 0, measured |-> FALSE]
Unmeasured == [rtt |-> Failed, measured |-> FALSE]
Measured(t) == [rtt |-> t, measured |-> TRUE]
Dummy == Measured(20)

VARIABLES forced,   \* the datacenter of the user's choice, or 0
          prior,    \* the settings' rows: Dcs \union Old -> row or NoRow
          pc, next, \* the owner, and the slot it is at
          job,      \* "none", "alive", "freed"
          threaded, thread, \* a thread was started; where it is: "off", "pings", "stored", "over"
          done, handoff, ok, \* the job: done, handoff, and its time (0: none)
          seen,     \* the owner's reading of done
          rows, picker, selected, cancelled
vars == <<forced, prior, pc, next, job, threaded, thread, done, handoff, ok, seen, rows, picker, selected, cancelled>>

Jobs == <<job, threaded, thread, done, handoff, ok>>
Kept == UNCHANGED <<forced, prior>>
Row(i) == IF ok[i] > 0 THEN Measured(ok[i]) ELSE Unmeasured

Cancel == ~cancelled /\ pc # "out" /\ cancelled' = TRUE
          /\ UNCHANGED <<forced, prior, pc, next, job, threaded, thread, done, handoff, ok, seen, rows, picker, selected>>

\* The datacenter of the user's choice is not pinged: a made-up row stands for it.
Forced == /\ pc = "list" /\ forced # 0
          /\ IF forced \in Dcs THEN pc' = "merge" /\ rows' = [rows EXCEPT ![forced] = Dummy]
             ELSE pc' = "out" /\ UNCHANGED rows
          /\ UNCHANGED <<next, seen, picker, selected, cancelled>> /\ UNCHANGED Jobs /\ Kept

\* One thread for each; without memory a row is all there is, and without a
\* thread the owner pings here.
Launch(i) ==
  /\ pc = "list" /\ forced = 0 /\ next = i
  /\ IF i = 1 /\ cancelled THEN pc' = "out" /\ UNCHANGED <<rows, next>> /\ UNCHANGED Jobs
     ELSE /\ next' = (IF i = N THEN 1 ELSE i + 1) /\ pc' = (IF i = N THEN "wait" ELSE "list")
          /\ \/ rows' = [rows EXCEPT ![i] = Unmeasured] /\ UNCHANGED Jobs
             \/ /\ job' = [job EXCEPT ![i] = "alive"] /\ threaded' = [threaded EXCEPT ![i] = TRUE]
                /\ thread' = [thread EXCEPT ![i] = "pings"] /\ UNCHANGED <<rows, done, handoff, ok>>
             \/ /\ job' = [job EXCEPT ![i] = "alive"] /\ done' = [done EXCEPT ![i] = TRUE]
                /\ handoff' = [handoff EXCEPT ![i] = TRUE]
                /\ \E t \in Rtts \union {0} : ok' = [ok EXCEPT ![i] = t]
                /\ UNCHANGED <<rows, threaded, thread>>
  /\ UNCHANGED <<seen, picker, selected, cancelled>> /\ Kept

\* gk_ping_thread: the result, then done, then the handoff.
Stores(i) == /\ thread[i] = "pings" /\ thread' = [thread EXCEPT ![i] = "stored"]
             /\ \E t \in Rtts \union {0} : ok' = [ok EXCEPT ![i] = t]
             /\ done' = [done EXCEPT ![i] = TRUE]
             /\ UNCHANGED <<forced, prior, pc, next, job, threaded, handoff, seen, rows, picker, selected, cancelled>>


SecondFrees(i) == handoff[i]

HandsOff(i) == /\ thread[i] = "stored" /\ thread' = [thread EXCEPT ![i] = "over"]
               /\ handoff' = [handoff EXCEPT ![i] = TRUE]
               /\ job' = (IF SecondFrees(i) THEN [job EXCEPT ![i] = "freed"] ELSE job)
               /\ UNCHANGED <<forced, prior, pc, next, threaded, done, ok, seen, rows, picker, selected, cancelled>>

\* The owner sees all of them done, or the deadline, or the cancel. A cancel that
\* comes at the deadline is not looked at any more.
Awaits == /\ pc = "wait" /\ UNCHANGED <<next, rows, picker, selected, cancelled>> /\ UNCHANGED Jobs /\ Kept
          /\ \/ pc' = "collect" /\ UNCHANGED seen
             \/ cancelled /\ (\E i \in Dcs : threaded[i] /\ ~done[i]) /\ pc' = "collect canceled" /\ UNCHANGED seen

Collecting == pc \in {"collect", "collect canceled"}
Collected == IF pc = "collect" THEN "merge" ELSE "out"
Advance == IF next = N THEN pc' = Collected /\ next' = 1 ELSE pc' = pc /\ next' = next + 1

\* A slot without a job.
Skips == Collecting /\ job[next] = "none" /\ Advance
         /\ UNCHANGED <<seen, rows, picker, selected, cancelled>> /\ UNCHANGED Jobs /\ Kept

Reads == Collecting /\ job[next] # "none" /\ seen = "no" /\ UNCHANGED <<pc, next, rows, picker, selected, cancelled>>
         /\ seen' = (IF ~threaded[next] \/ done[next] THEN "done" ELSE "pending") /\ UNCHANGED Jobs /\ Kept

\* Done: join the thread, keep the row, free the job.
Joins == /\ Collecting /\ seen = "done" /\ (threaded[next] => thread[next] = "over")
         /\ seen' = "no" /\ rows' = [rows EXCEPT ![next] = Row(next)] /\ job' = [job EXCEPT ![next] = "freed"] /\ Advance
         /\ UNCHANGED <<threaded, thread, done, handoff, ok, picker, selected, cancelled>> /\ Kept

\* Not done: detach it. If it came first after all, its result counts.
Abandons == /\ Collecting /\ seen = "pending" /\ seen' = "no" /\ Advance
            /\ handoff' = [handoff EXCEPT ![next] = TRUE]
            /\ rows' = [rows EXCEPT ![next] = IF handoff[next] THEN Row(next) ELSE Unmeasured]
            /\ job' = (IF SecondFrees(next) THEN [job EXCEPT ![next] = "freed"] ELSE job)
            /\ UNCHANGED <<threaded, thread, done, ok, picker, selected, cancelled>> /\ Kept

\* gk_build_picker: this run's row, else the settings', else an empty one; the
\* made-up row only where there is none.
Picked(d) == IF d = forced \/ d \notin Dcs \/ rows[d] = NoRow
             THEN IF prior[d] = NoRow /\ d \in Dcs THEN rows[d] ELSE prior[d]
             ELSE rows[d]

Merge == /\ pc = "merge" /\ pc' = "select" /\ picker' = [d \in Dcs \union Old |-> Picked(d)]
         /\ UNCHANGED <<next, seen, rows, selected, cancelled>> /\ UNCHANGED Jobs /\ Kept

\* gk_step12_select: the first of the sorted rows, unless it is too slow or was
\* not measured. Rows of the same time keep no order.
Best == {d \in Dcs : rows[d] # NoRow /\ \A e \in Dcs : rows[e] # NoRow => rows[d].rtt <= rows[e].rtt}
Select == /\ pc = "select" /\ pc' = "out"
          /\ \E d \in Best : selected' = IF forced # 0 \/ (rows[d].measured /\ rows[d].rtt <= Gate) THEN d ELSE 0
          /\ UNCHANGED <<next, seen, rows, picker, cancelled>> /\ UNCHANGED Jobs /\ Kept

Init == /\ forced \in 0..N + 1
        /\ prior \in [Dcs \union Old -> {NoRow, Measured(50)}]
        /\ pc = "list" /\ next = 1 /\ job = [i \in Dcs |-> "none"] /\ threaded = [i \in Dcs |-> FALSE]
        /\ thread = [i \in Dcs |-> "off"] /\ done = [i \in Dcs |-> FALSE] /\ handoff = [i \in Dcs |-> FALSE]
        /\ ok = [i \in Dcs |-> 0] /\ seen = "no" /\ rows = [i \in Dcs |-> NoRow]
        /\ picker = [d \in Dcs \union Old |-> NoRow] /\ selected = 0 /\ cancelled = FALSE

Owner == Forced \/ (\E i \in Dcs : Launch(i)) \/ Awaits \/ Skips \/ Reads \/ Joins \/ Abandons \/ Merge \/ Select
Next == Cancel \/ Owner \/ \E i \in Dcs : Stores(i) \/ HandsOff(i)
Spec == Init /\ [][Next]_vars
\* A ping may hang.
FairSpec == Spec /\ WF_vars(Owner) /\ \A i \in Dcs : WF_vars(HandsOff(i))

-----------------------------------------------------------------------------
TypeOK == /\ pc \in {"list", "wait", "collect", "collect canceled", "merge", "select", "out"} /\ next \in Dcs
          /\ \A i \in Dcs : job[i] \in {"none", "alive", "freed"} /\ thread[i] \in {"off", "pings", "stored", "over"}
          /\ \A i \in Dcs : ok[i] \in Rtts \union {0}

\* A thread that still runs finds its job (the handoff exchange).
NoUseAfterFree == \A i \in Dcs : thread[i] \in {"pings", "stored"} => job[i] = "alive"

\* When the owner is through, a job is left only with a thread that still has it.
NothingLeaks == pc \in {"merge", "select", "out"} => \A i \in Dcs : job[i] = "alive" => thread[i] \in {"pings", "stored"}

\* Every datacenter has its row before one is selected.
RowForEach == pc \in {"merge", "select"} /\ forced = 0 => \A i \in Dcs : rows[i] # NoRow

\* What was selected by itself was measured in this run and is no slower than the
\* gate and any other that was measured.
SelectedIsBest == (selected # 0 /\ forced = 0) =>
                    rows[selected].measured /\ \A d \in Dcs : rows[d].measured => rows[selected].rtt <= rows[d].rtt

\* A choice of the user's keeps every time that was measured before.
ChoiceKeepsTimes == (pc = "select" /\ forced # 0) => \A d \in Dcs \union Old : prior[d].measured => picker[d] = prior[d]

Safe == NoUseAfterFree /\ NothingLeaks /\ RowForEach /\ SelectedIsBest /\ ChoiceKeepsTimes

\* "this run's measurement wins, else the platform's prior stored RTT": a time is
\* only replaced by a time.
TimeReplacesTime == pc = "select" => \A d \in Dcs \union Old : prior[d].measured => picker[d].measured

\* The owner never waits for a ping that hangs.
Over == pc = "out"
StepEnds == []<>Over
=============================================================================
