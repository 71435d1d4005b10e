---------------------------- MODULE ReorderWindow ----------------------------
(***************************************************************************)
(* What a reorder queue promises, without the ring: a set of elements held *)
(* back under their sequence numbers, all of them less than Size ahead of  *)
(* the next number to deliver, and every element given back to its owner   *)
(* once.                                                                   *)
(***************************************************************************)
EXTENDS SeqNum, Functions

CONSTANTS Size,       \* how far ahead of base an element may be held
          Elems       \* the elements that can be offered

VARIABLES base,       \* next number to deliver
          held,       \* held[s] is the element waiting under number s
          given       \* elements given back to the owner

windowVars == <<base, held, given>>

Fits(b, s) == Dist(b, s) < Size

\* The held elements that a window starting at b still covers.
Kept(b) == Restrict(held, {s \in DOMAIN held : Fits(b, s)})

With(f, s, e) == [n \in DOMAIN f \cup {s} |-> IF n = s THEN e ELSE f[n]]

Init ==
  /\ base \in SeqNums
  /\ held = << >>
  /\ given = {}

Fresh(e) == e \notin given /\ e \notin Range(held)

Accept(s, e) ==
  /\ Fresh(e) /\ Fits(base, s) /\ s \notin DOMAIN held
  /\ held' = With(held, s, e)
  /\ UNCHANGED <<base, given>>

\* Only a duplicate or a number outside the window may be refused.
Refuse(s, e) ==
  /\ Fresh(e) /\ (s \in DOMAIN held \/ ~Fits(base, s))
  /\ given' = given \cup {e}
  /\ UNCHANGED <<base, held>>

\* Make room for s by giving up the oldest: the window moves just far enough,
\* or to s itself.
Slide(s, e) ==
  /\ Fresh(e) /\ ~Fits(base, s)
  /\ \E b \in {s, Add(s, (M + 1) - Size)} :
       /\ base' = b
       /\ held' = With(Kept(b), s, e)
       /\ given' = given \cup (Range(held) \ Range(Kept(b)))

Deliver ==
  /\ base \in DOMAIN held
  /\ given' = given \cup {held[base]}
  /\ held' = Restrict(held, DOMAIN held \ {base})
  /\ base' = Add(base, 1)

Remove(s) ==
  /\ s \in DOMAIN held
  /\ given' = given \cup {held[s]}
  /\ held' = Restrict(held, DOMAIN held \ {s})
  /\ UNCHANGED base

Close ==
  /\ given' = given \cup Range(held)
  /\ held' = << >>
  /\ UNCHANGED base

Next ==
  \/ \E s \in SeqNums, e \in Elems : Accept(s, e) \/ Refuse(s, e) \/ Slide(s, e)
  \/ Deliver
  \/ \E s \in SeqNums : Remove(s)
  \/ Close

Spec == Init /\ [][Next]_windowVars
=============================================================================
