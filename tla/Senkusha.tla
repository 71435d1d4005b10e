------------------------------- MODULE Senkusha -------------------------------
(***************************************************************************)
(* lib/src/senkusha.c: before a stream the client measures the round trip  *)
(* and the largest packets in both directions, with requests whose answers *)
(* may be lost or come after the wait for them has ended.                  *)
(***************************************************************************)
EXTENDS Integers, FiniteSets

CONSTANTS MinMtu, MaxMtu,   \* bounds of the search (576 and 1454)
          PathIn, PathOut,  \* the largest packet that passes in each direction
          Pings,            \* SENKUSHA_PING_COUNT_DEFAULT
          Retries,          \* attempts for a size
          MaxFaults         \* bound: waits that end before their answer

VARIABLES cloud,      \* the service is a cloud one
          pc,         \* the exchange the run is at
          waiting,    \* its request is sent
          id,         \* id, tag or sequence number of the request
          finished,   \* state_finished
          flight,     \* ids of requests whose answer may still arrive
          taken,      \* pings whose pong was taken, with the pong's own id
          search,     \* min, max, cur and attempt of an MTU test
          mtu,        \* results, in and out
          result,     \* "none", "ok", "failed"
          faults      \* waits that ended before their answer

vars == <<cloud, pc, waiting, id, finished, flight, taken, search, mtu, result, faults>>

Tests == {"mtu_in", "mtu_out"}
PathOf(test) == IF test = "mtu_in" THEN PathIn ELSE PathOut

-----------------------------------------------------------------------------
(* Requests and answers                                                     *)

\* A probe that does not pass has no answer.
TooBig == pc \in Tests /\ search.cur > PathOf(pc)

\* A new request; id numbers them all (ids and tags that chance repeats are
\* left out).
Send ==
  /\ ~waiting /\ pc \notin {"disconnect", "closed"}
  /\ waiting' = TRUE /\ finished' = FALSE /\ id' = id + 1
  /\ \/ ~TooBig /\ flight' = flight \union {id'} /\ UNCHANGED faults
     \/ TooBig /\ flight' = flight /\ UNCHANGED faults
     \/ ~TooBig /\ flight' = flight /\ faults < MaxFaults /\ faults' = faults + 1
  /\ UNCHANGED <<cloud, pc, taken, search, mtu, result>>

\* mutant: any answer will do
MatchesAny(i) == TRUE

\* Only the answer that carries the number of the request at hand counts.
Matches(i) == i = id

\* The callbacks of Takion's thread.
Receive ==
  /\ \E i \in flight :
       /\ flight' = flight \ {i}
       /\ IF waiting /\ Matches(i)
          THEN /\ finished' = TRUE
               /\ taken' = IF pc = "ping" /\ ~finished THEN taken \union {<<id, i>>} ELSE taken
          ELSE UNCHANGED <<finished, taken>>
  /\ UNCHANGED <<cloud, pc, waiting, id, search, mtu, result, faults>>

-----------------------------------------------------------------------------
(* The run: what follows an answer, and what follows a wait without one     *)

Goes(next) == pc' = next /\ waiting' = FALSE
              /\ UNCHANGED <<cloud, id, finished, flight, taken>>

Fails(next) == Goes(next) /\ result' = "failed" /\ UNCHANGED <<search, mtu>>
Passes(next) == Goes(next) /\ UNCHANGED <<search, mtu, result>>

Ends(ok) == waiting /\ finished = ok
\* A wait may end too early only while its answer is still under way.
TimesOut == /\ Ends(FALSE)
            /\ \/ id \notin flight /\ UNCHANGED faults
               \/ id \in flight /\ faults < MaxFaults /\ faults' = faults + 1
Answer == Ends(TRUE) /\ UNCHANGED faults

Connected == pc = "connect" /\ Answer /\ Passes(IF cloud THEN "big" ELSE "version")
VersionAcked == pc = "version" /\ Answer /\ Passes("big")
\* connect, version and BANG are needed, except that the cloud's echo is not.
GivesUp == pc \in {"connect", "version", "big"} /\ ~(pc = "big" /\ cloud) /\ TimesOut /\ Fails("closed")
Bang == pc = "big" /\ (Answer \/ (cloud /\ TimesOut)) /\ Passes("echo_on")

EchoOn == pc = "echo_on" /\ \/ Answer /\ Passes("ping")
                            \/ TimesOut /\ Fails("disconnect")

\* A ping without a pong is skipped.
Ping == /\ pc = "ping" /\ (Answer \/ TimesOut)
        /\ search' = [search EXCEPT !.attempt = @ + 1]
        /\ Goes(IF search.attempt = Pings THEN "echo_off" ELSE "ping")
        /\ UNCHANGED <<mtu, result>>

StartsAt(cur) == [min |-> MinMtu, max |-> MaxMtu, cur |-> cur, attempt |-> 1]

EchoOff == /\ pc = "echo_off"
           /\ \/ /\ Answer /\ taken # {} /\ Goes("mtu_in")
                 /\ search' = StartsAt(MaxMtu) /\ UNCHANGED <<mtu, result>>
              \/ Answer /\ taken = {} /\ Fails("disconnect")
              \/ TimesOut /\ Fails("disconnect")

Midpoint(s) == s.min + (s.max - s.min) \div 2
Narrowed(s, success) ==
  LET t == IF success THEN [s EXCEPT !.min = s.cur] ELSE [s EXCEPT !.max = s.cur]
  IN [t EXCEPT !.cur = Midpoint(t), !.attempt = 1]

\* mutant: a size that failed is kept as the lower bound
NarrowedUp(s, success) ==
  LET t == [s EXCEPT !.min = s.cur]
  IN [t EXCEPT !.cur = Midpoint(t), !.attempt = 1]

\* The test ends when the bounds have met; the lower one is the result.
SearchStep(success, next) ==
  LET s == Narrowed(search, success)
  IN IF s.max - s.min > 1
     THEN Goes(pc) /\ search' = s /\ UNCHANGED <<mtu, result>>
     ELSE /\ Goes(next) /\ UNCHANGED result
          /\ search' = (IF pc = "mtu_in" THEN StartsAt(s.min) ELSE s)
          /\ mtu' = [mtu EXCEPT ![pc] = s.min]

After(test) == IF test = "mtu_in" THEN "mtu_command" ELSE "mtu_end"

MtuAnswer == pc \in Tests /\ Answer /\ SearchStep(TRUE, After(pc))
MtuRetry == /\ pc \in Tests /\ TimesOut /\ search.attempt < Retries
            /\ Goes(pc) /\ search' = [search EXCEPT !.attempt = @ + 1] /\ UNCHANGED <<mtu, result>>
MtuTooBig == pc \in Tests /\ TimesOut /\ search.attempt = Retries /\ SearchStep(FALSE, After(pc))

MtuCommand == pc = "mtu_command" /\ \/ Answer /\ Passes("mtu_out")
                                    \/ TimesOut /\ Fails("disconnect")

\* The result stands already when the console does not acknowledge the end.
MtuEnd == pc = "mtu_end" /\ \/ Answer /\ Goes("disconnect") /\ result' = "ok" /\ UNCHANGED <<search, mtu>>
                            \/ TimesOut /\ Fails("disconnect")

\* The disconnect message is not waited for.
Disconnect == pc = "disconnect" /\ ~waiting /\ Passes("closed") /\ UNCHANGED faults

Init ==
  /\ cloud \in BOOLEAN /\ pc = "connect" /\ waiting = FALSE /\ id = 0 /\ finished = FALSE
  /\ flight = {} /\ taken = {} /\ search = StartsAt(MaxMtu)
  /\ mtu = [mtu_in |-> 0, mtu_out |-> 0] /\ result = "none" /\ faults = 0

Run == \/ Connected \/ VersionAcked \/ GivesUp \/ Bang \/ EchoOn \/ Ping \/ EchoOff
       \/ MtuAnswer \/ MtuRetry \/ MtuTooBig \/ MtuCommand \/ MtuEnd \/ Disconnect

Next == Send \/ Receive \/ Run

Spec == Init /\ [][Next]_vars
FairSpec == Spec /\ WF_vars(Send) /\ WF_vars(Receive) /\ WF_vars(Run)

-----------------------------------------------------------------------------
TypeOK ==
  /\ search.min \in MinMtu .. MaxMtu /\ search.max \in MinMtu .. MaxMtu
  /\ search.cur \in search.min .. search.max /\ search.attempt \in 1 .. Retries + Pings
  /\ flight \subseteq 1 .. id

\* A size that is reported passes, or is the smallest one, which is taken for
\* granted: a late answer to a smaller probe is never taken for a larger one.
SizesPass == \A t \in Tests : mtu[t] <= PathOf(t) \/ mtu[t] \in {0, MinMtu}

\* Without a lost or late answer the result is the largest size that passes.
SizesExact ==
  result = "ok" /\ faults = 0 /\ MinMtu <= PathIn /\ MinMtu <= PathOut =>
    \A t \in Tests : mtu[t] = IF PathOf(t) < MaxMtu THEN PathOf(t) ELSE MaxMtu

\* A round trip is measured with the pong of its own ping.
OwnPongs == \A p \in taken : p[1] = p[2]

\* A run that succeeds has measured everything.
Complete == result = "ok" => taken # {} /\ 0 \notin {mtu[t] : t \in Tests}

Safe == SizesPass /\ SizesExact /\ OwnPongs /\ Complete

\* Whatever is lost, the run ends.
RunOver == pc = "closed"
===============================================================================
