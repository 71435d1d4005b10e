---------------------------- MODULE StunAllocation ----------------------------
(***************************************************************************)
(* How the client guesses the port that its NAT will open towards the      *)
(* console: stun_port_allocation_test of lib/src/remote/stun.h asks up to  *)
(* four STUN servers, finds by how much the port grows from one to the     *)
(* next, and holepunch_session_create_offer puts the ports that come next  *)
(* into the OFFER. The increment is kept for the second hole.              *)
(***************************************************************************)
EXTENDS Integers, Sequences, FiniteSets

CONSTANTS U16,           \* UINT16_MAX, a power of two less one
          WellKnown,     \* 1024
          Dynamic,       \* 49152, the first port of IANA's dynamic range
          Guesses,       \* candidates for a steady allocation (8)
          RandomGuesses, \* RANDOM_ALLOCATION_GUESSES_NUMBER
          Servers,       \* STUN servers there are
          Addresses,     \* the NAT's public addresses
          Steps,         \* steps between its allocations
          MaxSkips       \* allocations we do not see: lost answers, other hosts

VARIABLES step, next, skips,   \* the NAT
          asked, replies,      \* servers asked, and the mapped addresses so far
          hole,                \* 1 for ctrl, 2 for data
          increment, random,   \* stun_allocation_increment, stun_random_allocation
          port,                \* the port of the STUN candidate
          candidates           \* ports of the STUN candidates of the OFFER
vars == <<step, next, skips, asked, replies, hole, increment, random, port, candidates>>

NotTested == -1
Low(n) == n % (U16 + 1)

\* The router does not give out the well known ports.
Following(p, s) == IF p + s > U16 THEN p + s - U16 + WellKnown ELSE p + s

Allocates == next' = Following(next, step)

OtherHost == /\ candidates = <<>> /\ skips < MaxSkips /\ skips' = skips + 1 /\ Allocates
             /\ UNCHANGED <<step, asked, replies, hole, increment, random, port, candidates>>

Wanted == IF increment = NotTested THEN 4 ELSE 1

\* stun_get_external_address_from_server: the answer may not come.
Ask == /\ candidates = <<>> /\ asked < Servers /\ Len(replies) < Wanted /\ asked' = asked + 1 /\ Allocates
       /\ \/ \E a \in Addresses : replies' = Append(replies, [addr |-> a, port |-> next]) /\ UNCHANGED skips
          \/ skips < MaxSkips /\ skips' = skips + 1 /\ UNCHANGED replies
       /\ UNCHANGED <<step, hole, increment, random, port, candidates>>

-----------------------------------------------------------------------------
Same(i, j) == replies[i].addr = replies[j].addr
Port(i) == replies[i].port

\* Division in C drops the remainder towards zero.
Over(n, d) == IF n < 0 THEN -((-n) \div d) ELSE n \div d

\* Two increments that should be the same; otherwise the allocation is random.
Compare(a, b) == [inc |-> IF a # b /\ a = 0 THEN b ELSE a, random |-> a # b]
Only(a) == [inc |-> a, random |-> FALSE]

Two == Only(IF Same(1, 2) THEN Port(2) - Port(1) ELSE 0)

Three == IF Same(1, 2)
         THEN IF Same(1, 3) THEN Compare(Port(2) - Port(1), Port(3) - Port(2)) ELSE Only(Port(2) - Port(1))
         ELSE Only(CASE Same(1, 3) -> Over(Port(3) - Port(1), 2)
                     [] ~Same(1, 3) /\ Same(2, 3) -> Port(3) - Port(2)
                     [] OTHER -> 0)


\* With four equal addresses the increments are uint16_t and the majority wins.
Vote(a, b, c) == CASE a = b \/ a = c -> Only(a)
                   [] a # b /\ a # c /\ b = c -> Only(b)
                   [] OTHER -> [inc |-> IF a # 0 THEN a ELSE b, random |-> TRUE]

FourEqual == Vote(Low(Port(2) - Port(1)), Low(Port(3) - Port(2)), Low(Port(4) - Port(3)))

\* The fourth case of two responses subtracts the wrong way round, and those
\* with the fourth server's address divide the distance of other ones by four.
Four ==
  CASE Same(1, 2) /\ Same(2, 3) /\ Same(3, 4) -> FourEqual
    [] Same(1, 2) /\ Same(2, 3) /\ ~Same(3, 4) -> Compare(Port(2) - Port(1), Port(3) - Port(2))
    [] Same(1, 2) /\ ~Same(2, 3) /\ Same(2, 4) -> Compare(Port(2) - Port(1), Over(Port(4) - Port(2), 2))
    [] Same(1, 2) /\ ~Same(2, 3) /\ ~Same(2, 4) -> Only(Port(2) - Port(1))
    [] ~Same(1, 2) /\ Same(1, 4) /\ Same(1, 3) -> Compare(Port(4) - Port(3), Over(Port(3) - Port(1), 2))
    [] ~Same(1, 2) /\ Same(1, 4) /\ ~Same(1, 3) -> Only(Over(Port(4) - Port(1), 4))
    [] ~Same(1, 2) /\ ~Same(1, 4) /\ Same(1, 3) -> Only(Over(Port(3) - Port(1), 2))
    [] ~Same(1, 2) /\ ~Same(1, 4) /\ ~Same(1, 3) /\ Same(2, 4) /\ Same(2, 3) ->
         Compare(Port(4) - Port(3), Port(3) - Port(2))
    [] ~Same(1, 2) /\ ~Same(1, 4) /\ ~Same(1, 3) /\ Same(2, 4) /\ ~Same(2, 3) -> Only(Over(Port(4) - Port(1), 4))
    [] ~Same(1, 2) /\ ~Same(1, 4) /\ ~Same(1, 3) /\ ~Same(2, 4) /\ Same(2, 3) -> Only(Over(Port(3) - Port(1), 2))
    [] ~Same(1, 2) /\ ~Same(1, 4) /\ ~Same(1, 3) /\ ~Same(2, 4) /\ ~Same(2, 3) ->
         Only(IF Same(3, 4) THEN Port(3) - Port(4) ELSE 0)

Found == CASE Len(replies) = 1 -> Only(0)
           [] Len(replies) = 2 -> Two
           [] Len(replies) = 3 -> Three
           [] Len(replies) = 4 -> Four

\* The allocations of the servers that did not answer are added.
Determine ==
  /\ port = 0 /\ replies # <<>> /\ Wanted = 4 /\ (Len(replies) = 4 \/ asked = Servers)
  /\ increment' = Found.inc
  /\ random' = (random \/ Found.random)
  /\ port' = Low(Port(Len(replies))
                 + (CASE Len(replies) = 2 -> 2 * Found.inc [] Len(replies) = 3 -> Found.inc [] OTHER -> 0))
  /\ UNCHANGED <<step, next, skips, asked, replies, hole, candidates>>

\* Once the increment is known one server is enough.
TakeAddress == /\ port = 0 /\ replies # <<>> /\ Wanted = 1 /\ port' = Port(1)
               /\ UNCHANGED <<step, next, skips, asked, replies, hole, increment, random, candidates>>

Successor(p) == LET q == p + increment
                IN CASE q < WellKnown /\ p > WellKnown -> U16 - (WellKnown - q)
                     [] q < 1 /\ ~(q < WellKnown /\ p > WellKnown) -> q + U16
                     [] q > U16 -> q - U16 + WellKnown
                     [] OTHER -> q

Steady == LET p[i \in 0..Guesses] == IF i = 0 THEN port ELSE Successor(p[i - 1])
          IN [i \in 1..Guesses |-> Low(p[i])]
AtRandom == LET p[i \in 1..RandomGuesses] == IF i = 1 THEN port
                                             ELSE IF p[i - 1] = U16 THEN Dynamic ELSE p[i - 1] + 1
            IN p

Offer == /\ candidates = <<>> /\ port # 0
         /\ candidates' = CASE increment = 0 -> <<port>>
                            [] increment # 0 /\ ~random -> Steady
                            [] increment # 0 /\ random -> AtRandom
         /\ UNCHANGED <<step, next, skips, asked, replies, hole, increment, random, port>>

\* The hole is punched from that port; the second one is asked for afterwards.
SecondHole == /\ candidates # <<>> /\ hole = 1 /\ hole' = 2 /\ Allocates
              /\ asked' = 0 /\ replies' = <<>> /\ port' = 0 /\ candidates' = <<>>
              /\ UNCHANGED <<step, skips, increment, random>>

Init == /\ step \in Steps /\ next \in (WellKnown + 1)..U16 /\ skips = 0 /\ asked = 0 /\ replies = <<>>
        /\ hole = 1 /\ increment = NotTested /\ random = FALSE /\ port = 0 /\ candidates = <<>>
Next == OtherHost \/ Ask \/ Determine \/ TakeAddress \/ Offer \/ SecondHole
Spec == Init /\ [][Next]_vars

-----------------------------------------------------------------------------
TypeOK == /\ next \in 0..U16 /\ hole \in 1..2 /\ increment \in -U16..U16
          /\ port \in 0..U16 /\ Len(replies) <= 4 /\ \A i \in DOMAIN candidates : candidates[i] \in 0..U16

\* What the OFFER is for: the console finds the port that the NAT opens next
\* among its candidates. For a NAT with one address whose ports grow evenly
\* (over the end of the range too) one allocation we do not see, or one wrap,
\* between the four answers does not spoil the guess; the increment still
\* holds for the second hole. This is the vote over three increments.
GuessesNextPort ==
  (/\ candidates # <<>> /\ Cardinality(Addresses) = 1
   /\ skips = 0 \/ (hole = 1 /\ Len(replies) = 4)
   /\ next = Following(Port(Len(replies)), step))
  => next \in {candidates[i] : i \in DOMAIN candidates}

\* "Calculating packet allocation based on 2 responses with the same address":
\* with only two such responses the ports of the others have no say.
BasedOnSameAddress ==
  Len(replies) = 4 /\ hole = 1 /\ increment # NotTested =>
    \A i, j \in 1..4 :
      i < j /\ Same(i, j) /\ (\A k \in 1..4 \ {i, j} : ~Same(i, k) /\ \A l \in 1..4 \ {k} : ~Same(k, l))
        => increment = Over(Port(j) - Port(i), j - i)
================================================================================
