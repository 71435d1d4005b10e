------------------------------- MODULE ApolloWalk -------------------------------
(***************************************************************************)
(* cc_fetch_apollo_fallback of lib/src/cloudcatalog_fetch.c: the public    *)
(* list of classics, collected page by page from a root container and then *)
(* from the containers that it lists, with a budget of requests. A walk is *)
(* "complete" only if the server's own totals confirm it.                  *)
(***************************************************************************)
EXTENDS Naturals, SequencesExt

CONSTANTS Products, Kids, Grandchild, \* what rows name; NoId: a container without an id
          NoId, Root,
          PageSize, MaxKids, Budget,  \* 100, APOLLO_FALLBACK_MAX_CHILDREN, APOLLO_FALLBACK_PAGE_BUDGET
          RootRows, KidRows           \* how many rows they may have

Boxes == {Root, Grandchild} \union Kids
RowsOf(n, rows) == UNION {[1..k -> rows] : k \in 0..n}

VARIABLES rows, told,      \* the server: what a container lists; whether it tells total_results
          box, start, total, dropped, \* the walk of one container; total: -1 as NotTold
          budget, games, kids, next, complete, failed, pc
server == <<rows, told>>
vars == <<rows, told, box, start, total, dropped, budget, games, kids, next, complete, failed, pc>>

NotTold == 999
Page == [i \in 1..Min({PageSize, IF start > Len(rows[box]) THEN 0 ELSE Len(rows[box]) - start}) |-> rows[box][start + i]]
PageRows == {Page[i] : i \in DOMAIN Page}
IsContainer(r) == r \in Kids \union {Grandchild, NoId}

\* The children of a page that are taken: those that are new, in their order, as
\* long as there is room. Only the root has any: child_ids is NULL for the others.
Taken(page) ==
  FoldLeft(LAMBDA have, r : IF r \in Kids /\ (\A i \in DOMAIN have : have[i] # r) /\ Len(have) < MaxKids
                            THEN Append(have, r) ELSE have,
           kids, page)

\* mutant: only a container without an id counts as dropped
DropsFew(taken) == NoId \in PageRows

\* What the walk does not see: a container below a child, one without an id, one
\* for which there is no room.
Drops(taken) == \E r \in PageRows : IsContainer(r) /\ \/ box # Root
                                                      \/ r = NoId
                                                      \/ \A i \in DOMAIN taken : taken[i] # r

\* On to the next container, or the end.
Leaves(ok, list) ==
  /\ complete' = (complete /\ ok)
  /\ IF next <= Len(list) THEN box' = list[next] /\ next' = next + 1 /\ pc' = pc
     ELSE pc' = "out" /\ UNCHANGED <<box, next>>
  /\ start' = 0 /\ total' = NotTold /\ dropped' = FALSE

NoBudget == /\ pc = "walk" /\ budget = 0 /\ Leaves(FALSE, kids) /\ UNCHANGED <<budget, games, kids, failed>> /\ UNCHANGED server

\* A page that is not there or cannot be read.
PageFails == /\ pc = "walk" /\ budget > 0 /\ budget' = budget - 1 /\ failed' = TRUE
             /\ Leaves(FALSE, kids) /\ UNCHANGED <<games, kids>> /\ UNCHANGED server

PageComes ==
  /\ pc = "walk" /\ budget > 0 /\ budget' = budget - 1 /\ UNCHANGED failed /\ UNCHANGED server
  /\ games' = games \union (PageRows \intersect Products)
  /\ LET list == IF box = Root THEN Taken(Page) ELSE kids
         all == IF total = NotTold /\ told[box] THEN Len(rows[box]) ELSE total
         missed == dropped \/ Drops(list)
     IN /\ kids' = list
        /\ IF all # NotTold /\ start + PageSize >= all THEN Leaves(~missed, list)
           ELSE IF Page = <<>> THEN Leaves(FALSE, list)
           ELSE /\ start' = start + PageSize /\ total' = all /\ dropped' = missed
                /\ UNCHANGED <<box, next, complete, pc>>

Init == /\ \E r \in RowsOf(RootRows, Products \union Kids \union {NoId}), k \in RowsOf(KidRows, Products \union {Grandchild}),
              l \in RowsOf(1, Products) :
             rows = [b \in Boxes |-> IF b = Root THEN r ELSE IF b = Grandchild THEN l ELSE k]
        /\ \E t \in {Boxes, {Root}, Kids} : told = [b \in Boxes |-> b \in t]
        /\ box = Root /\ start = 0 /\ total = NotTold /\ dropped = FALSE /\ budget = Budget /\ games = {} /\ kids = <<>>
        /\ next = 1 /\ complete = TRUE /\ failed = FALSE /\ pc = "walk"
Next == NoBudget \/ PageFails \/ PageComes
Spec == Init /\ [][Next]_vars
FairSpec == Spec /\ WF_vars(Next)

-----------------------------------------------------------------------------
TypeOK == /\ box \in Boxes /\ budget \in 0..Budget /\ Len(kids) <= MaxKids /\ games \subseteq Products /\ next \in 1..MaxKids + 1

Lists(b) == {rows[b][i] : i \in DOMAIN rows[b]}
Below == Lists(Root) \union UNION {Lists(b) : b \in Lists(Root) \intersect Kids}
All == Below \union (IF Grandchild \in Below THEN Lists(Grandchild) ELSE {})

\* A list that counts as complete, and so is kept for a day, has every product that
\* can be reached, and nothing of it was met but not walked.
CompleteHasAll == pc = "out" /\ complete => All \intersect Products = games /\ Grandchild \notin Below /\ NoId \notin Below /\ ~failed

\* The walk ends whatever the server sends.
Over == pc = "out"
WalkEnds == []<>Over
=============================================================================
