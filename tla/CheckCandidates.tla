---------------------------- MODULE CheckCandidates ----------------------------
(***************************************************************************)
(* check_candidates of lib/src/remote/holepunch.c: the request is sent to  *)
(* every candidate of the console from the socket of the OFFER and, behind *)
(* a NAT with random allocation, from many others; the first address that  *)
(* answers it is connected to, and every other socket is closed.           *)
(***************************************************************************)
EXTENDS Naturals, FiniteSets

CONSTANTS Known,      \* the console's candidates
          Strangers,  \* other addresses that packets come from
          MaxExtra,   \* EXTRA_CANDIDATE_ADDRESSES
          Tries,      \* SELECT_CANDIDATE_TRIES
          Random,     \* the sockets for a random allocation (RANDOM_ALLOCATION_SOCKS_NUMBER)
          MaxPackets, \* packets that arrive
          MaxFaults   \* system calls that fail

Session == {"v4", "v6"}
Nobody == [addr |-> "none", sock |-> "none"]

VARIABLES random,     \* stun_random_allocation
          pc, err,
          open,       \* sockets that are open
          watched,    \* fds: select leaves only the ready ones in it
          tried,      \* candidates a request was sent to
          extra,      \* candidates that were made of strangers
          retries, responded,
          chosen,     \* selected_candidate and selected_sock
          answers,    \* who answered our request, and on which socket
          packets, faults
vars == <<random, pc, err, open, watched, tried, extra, retries, responded, chosen, answers, packets, faults>>

Fault == faults < MaxFaults /\ faults' = faults + 1

\* cleanup_sockets
CleansUp(e) == pc' = "out" /\ err' = e /\ open' = {}

\* One request to each candidate; one that cannot be resolved or sent to is skipped.
Send == /\ pc = "send"
        /\ \E s \in SUBSET Known :
             /\ Cardinality(Known \ s) + faults <= MaxFaults /\ faults' = faults + Cardinality(Known \ s)
             /\ tried' = s
             /\ IF s = {} THEN CleansUp("network") /\ UNCHANGED watched
                ELSE pc' = "select" /\ watched' = open /\ UNCHANGED <<err, open>>
        /\ UNCHANGED <<random, extra, retries, responded, chosen, answers, packets>>

\* select runs out: the requests are sent again, a limited number of times.
SelectTimesOut ==
  /\ pc = "select"
  /\ IF retries < Tries
     THEN retries' = retries + 1 /\ watched' = open /\ tried' = tried \union Known \union extra
          /\ UNCHANGED <<pc, err, open>>
     ELSE CleansUp("unreachable") /\ UNCHANGED <<retries, watched, tried>>
  /\ UNCHANGED <<random, extra, responded, chosen, answers, packets, faults>>

SelectFails == /\ pc = "select" /\ Fault /\ CleansUp("network")
               /\ UNCHANGED <<random, watched, tried, extra, retries, responded, chosen, answers, packets>>

\* A packet: from whom, what it is ("request", "answer", "other answer", "junk", "short").
Arrives(a, s, kind) ==
  /\ pc = "select" /\ packets < MaxPackets /\ packets' = packets + 1
  /\ s \in watched /\ watched' = {s}
  /\ kind = "answer" => a \in tried \union extra
  /\ a \in Strangers \ extra => Cardinality(extra) < MaxExtra
  /\ extra' = extra \union ({a} \intersect Strangers)
  /\ UNCHANGED <<random, retries>>

\* More strangers than there is room for are not looked at.
TooMany == /\ pc = "select" /\ packets < MaxPackets /\ Strangers \ extra # {} /\ Cardinality(extra) >= MaxExtra
           /\ packets' = packets + 1 /\ \E s \in watched : watched' = {s}
           /\ UNCHANGED <<random, pc, err, open, tried, extra, retries, responded, chosen, answers, faults>>

\* The console's request is answered. An address that did not answer ours is
\* asked as well if it is new: a failure of that leaves err at what the answer
\* returned, success included.
Request ==
  \E a \in Known \union Strangers, s \in watched :
    /\ Arrives(a, s, "request") /\ responded' = TRUE
    /\ \/ /\ tried' = (IF random \/ a \in Strangers THEN tried \union {a} ELSE tried)
          /\ UNCHANGED <<pc, err, open, faults>>
       \/ a \in Known /\ Fault /\ CleansUp("network") /\ UNCHANGED tried
       \/ (random \/ a \in Strangers) /\ Fault /\ CleansUp("success") /\ UNCHANGED tried
    /\ UNCHANGED <<chosen, answers>>

\* Neither request nor answer: the end, unless a stranger sent it.
Junk ==
  \E a \in Known \union Strangers, s \in watched :
    /\ Arrives(a, s, "junk")
    /\ IF a \in Strangers THEN UNCHANGED <<pc, err, open>> ELSE CleansUp("unknown")
    /\ UNCHANGED <<tried, responded, chosen, answers, faults>>

OtherAnswer == \E a \in Known \union Strangers, s \in watched :
                 /\ Arrives(a, s, "other answer")
                 /\ UNCHANGED <<pc, err, open, tried, responded, chosen, answers, faults>>

\* mutant: the other sockets stay open
ChoosesOnly(s) == open

Chooses(s) == {s}

\* The answer to our request: connect, and close the other sockets.
Answer ==
  \E a \in Known \union Strangers, s \in watched :
    /\ Arrives(a, s, "answer")
    /\ answers' = answers \union {[addr |-> a, sock |-> s]}
    /\ chosen' = [addr |-> a, sock |-> s]
    /\ \/ pc' = "confirm" /\ open' = Chooses(s) /\ UNCHANGED <<err, faults>>
       \/ Fault /\ CleansUp("network")
    /\ UNCHANGED <<tried, responded>>

\* mutant: an answer to another request counts
AnyAnswer ==
  \E a \in Known \union Strangers, s \in watched :
    /\ Arrives(a, s, "other answer")
    /\ chosen' = [addr |-> a, sock |-> s] /\ pc' = "confirm" /\ open' = Chooses(s)
    /\ UNCHANGED <<err, faults, answers, tried, responded>>

\* receive_request_send_response_ps: the console's own request must have come by now.
Confirm ==
  /\ pc = "confirm"
  /\ \/ pc' = "out" /\ err' = "success" /\ UNCHANGED <<open, faults>>
     \/ ~responded /\ CleansUp("timeout") /\ UNCHANGED faults
     \/ Fault /\ CleansUp("network")
  /\ UNCHANGED <<random, watched, tried, extra, retries, responded, chosen, answers, packets>>

Init == /\ random \in BOOLEAN /\ pc = "send" /\ err = "none"
        /\ open = (IF random THEN Session \union Random ELSE Session)
        /\ watched = {} /\ tried = {} /\ extra = {} /\ retries = 0 /\ responded = FALSE
        /\ chosen = Nobody /\ answers = {} /\ packets = 0 /\ faults = 0
Next == \/ Send \/ SelectTimesOut \/ SelectFails \/ TooMany \/ Request \/ Junk \/ OtherAnswer
        \/ Answer \/ Confirm
Spec == Init /\ [][Next]_vars

-----------------------------------------------------------------------------
TypeOK == /\ pc \in {"send", "select", "confirm", "out"}
          /\ open \subseteq Session \union Random /\ watched \subseteq Session \union Random
          /\ extra \subseteq Strangers /\ retries \in 0..Tries
          /\ err \in {"none", "success", "network", "unreachable", "unknown", "timeout"}

\* The address that is connected to has answered the request with our id, on
\* the socket that is kept (the memcmp with request_id).
ChosenAnswered == chosen # Nobody => chosen \in answers

\* When it returns, no socket is open but the one it returns.
NoSocketLeft == pc = "out" => open \subseteq {chosen.sock} /\ (err # "success" => open = {})

Safe == ChosenAnswered /\ NoSocketLeft /\ Cardinality(extra) <= MaxExtra

\* What the caller takes for granted: success comes with an open socket to a
\* candidate that answered.
SuccessHasSocket == pc = "out" /\ err = "success" => open # {}
================================================================================
