------------------------------ MODULE CatalogMerge ------------------------------
(***************************************************************************)
(* lib/src/cloudcatalog_merge.c: how the lists of PS5 games, the classics  *)
(* and what the user owns become one list of games to stream. Pure code,   *)
(* written here as operators on sequences of rows: what the owner owns is  *)
(* matched with the catalogs (CrossRef), stamped on their rows (Merge),    *)
(* reduced to what can be streamed (Gate), tagged (Tag), and no product is *)
(* listed twice (Dedupe). "" stands for an absent field.                   *)
(***************************************************************************)
EXTENDS Naturals, FiniteSets, SequencesExt

CONSTANTS Tok(_),    \* platform_token of an id: "ps5" (PPSA), "ps4" (CUSA), ""
          Stable(_), \* cc_stable_key: the id without its last part, or ""
          Less(_, _), \* the order of strings
          Inputs     \* [apollo, lists, owned, parts, native]: what the servers sent

Blank == [pid |-> "", alt |-> "", id |-> "", concept |-> "", svc |-> "", dev |-> {}, cat |-> "", store |-> "",
          ft |-> 0, owned |-> FALSE, prefer |-> FALSE, plus |-> FALSE, streams |-> TRUE, title |-> "", key |-> <<>>,
          service |-> "", category |-> "", stream |-> ""]

Or(a, b) == IF a # "" THEN a ELSE b
ProductId(g) == Or(g.pid, g.alt)
EntitlementId(g) == IF g.id # ProductId(g) THEN g.id ELSE ""
Structured(g) == CASE g.svc = "pscloud" -> "ps5" [] g.svc = "psnow" -> "ps4" [] OTHER -> ""
Class(g) == Or(Structured(g), Tok(ProductId(g)))
ConceptKey(g) == IF g.concept = "" THEN <<>> ELSE <<g.concept, Or(Structured(g), Tok(Or(g.store, ProductId(g))))>>
EditionKey(g) == <<Or(g.concept, ProductId(g)), Class(g)>>

\* Maps whose keys are not empty: the last, or the first, row of a key counts.
K(id) == IF id = "" THEN <<>> ELSE <<id>>
EmptyMap == [k \in {} |-> 0]
PutLast(map, k, v) == IF k = <<>> THEN map ELSE [x \in DOMAIN map \union {k} |-> IF x = k THEN v ELSE map[x]]
PutFirst(map, k, v) == IF k \in DOMAIN map THEN map ELSE PutLast(map, k, v)
Index(map, list, Key(_), Put(_, _, _)) == FoldLeft(LAMBDA m, g : Put(m, Key(g), g), map, list)
ProductKey(g) == K(ProductId(g))
StableOf(g) == K(Stable(ProductId(g)))
ConceptOf(g) == K(g.concept)

\* cc_merge_imagic_list: one row for each edition; the other ids of it are aliases.
Imagic(lists) ==
  FoldLeft(LAMBDA s, g :
             LET same == {i \in DOMAIN s.browse : EditionKey(s.browse[i]) = EditionKey(g)} IN
             IF g.dev = {} THEN s
             ELSE IF g.plus /\ ~g.streams
             THEN [s EXCEPT !.supp = Append(SelectSeq(@, LAMBDA r : r.pid # g.pid), g)]
             ELSE IF ~g.streams THEN s
             ELSE IF same = {} THEN [s EXCEPT !.browse = Append(@, g)]
             ELSE LET i == CHOOSE i \in same : TRUE IN
                  [s EXCEPT !.browse[i].plus = @ \/ g.plus,
                            !.alias = IF g.pid # s.browse[i].pid THEN PutFirst(@, K(g.pid), K(s.browse[i].pid)) ELSE @],
           [browse |-> <<>>, supp |-> <<>>, alias |-> EmptyMap], lists)

NormalizeApollo(list) == [i \in DOMAIN list |-> [list[i] EXCEPT !.pid = Or(@, list[i].id), !.svc = "psnow"]]

-----------------------------------------------------------------------------
(* What is owned: cc_build_owned_cross_ref                                 *)

Rank(o) == (IF o.alt # "" /\ o.alt = o.id THEN 4 ELSE 0) + (IF o.ft = 3 THEN 2 ELSE 0) + (IF o.id # "" THEN 1 ELSE 0)

\* mutant: only the rank decides, so the first of two of the same rank stays
BetterByRank(c, o) == Rank(c) > Rank(o)

\* owned_better: the rank, and then the ids, so that the order of the list does not
\* matter. The package type and the SKU, which come between, are left out.
Better(c, o) == \/ Rank(c) > Rank(o)
                \/ /\ Rank(c) = Rank(o)
                   /\ Less(c.alt, o.alt) \/ (c.alt = o.alt /\ Less(c.id, o.id))

\* emit_owned: the entitlement with what the catalog says of it; the best one of
\* a title and platform is kept, in the place of the first.
Emit(list, ow, meta, supp) ==
  LET e == [ow EXCEPT !.dev = IF meta.dev # {} THEN meta.dev ELSE @, !.cat = Or(meta.pid, @), !.pid = ow.alt,
                      !.streams = ~supp, !.concept = Or(meta.concept, @)]
      k == IF meta.concept # "" THEN <<meta.concept, Or(Structured(e), Tok(ow.alt))>>
           ELSE IF ow.alt # "" THEN <<"p", ow.alt>> ELSE <<"e", ow.id>>
      same == {i \in DOMAIN list : list[i].key = k}
  IN IF same = {} THEN Append(list, [e EXCEPT !.key = k])
     ELSE LET i == CHOOSE i \in same : TRUE IN
          IF Better(e, list[i]) THEN [list EXCEPT ![i] = [e EXCEPT !.key = k]] ELSE list

\* The maps that an entitlement is looked up in.
Maps(apollo, im) ==
  LET cloud0 == Index(Index(EmptyMap, NormalizeApollo(apollo), ProductKey, PutFirst), im.browse, ProductKey, PutLast)
      aliases == {a \in DOMAIN im.alias : a \notin DOMAIN cloud0 /\ im.alias[a] \in DOMAIN cloud0}
  IN [cloud |-> [k \in DOMAIN cloud0 \union aliases |-> IF k \in DOMAIN cloud0 THEN cloud0[k] ELSE cloud0[im.alias[k]]],
      supp |-> Index(EmptyMap, im.supp, ProductKey, PutLast),
      browseStable |-> Index(EmptyMap, apollo \o im.browse, StableOf, PutFirst),
      browseConcept |-> Index(EmptyMap, apollo \o im.browse, ConceptOf, PutFirst),
      suppStable |-> Index(EmptyMap, im.supp, StableOf, PutFirst),
      suppConcept |-> Index(EmptyMap, im.supp, ConceptOf, PutFirst)]

\* The first of the lookups that finds a row: <<map, key, from the supplement>>.
Lookup(tries) == LET hits == {i \in DOMAIN tries : tries[i][2] \in DOMAIN tries[i][1]} IN
                 IF hits = {} THEN <<>> ELSE LET i == Min(hits) IN <<tries[i][1][tries[i][2]], tries[i][3]>>

Meta(ow, m) ==
  LET sk(id) == IF ow.title = "demo" THEN <<>> ELSE K(Stable(id)) IN
  Lookup(<< <<m.cloud, K(ow.alt), FALSE>>, <<m.cloud, K(ow.id), FALSE>>,
            <<m.browseConcept, K(ow.concept), FALSE>>, <<m.suppConcept, K(ow.concept), TRUE>>,
            <<m.supp, IF ow.id = ow.alt THEN K(ow.alt) ELSE <<>>, TRUE>>,
            <<m.browseStable, sk(ow.alt), FALSE>>, <<m.suppStable, sk(ow.alt), TRUE>>,
            <<m.browseStable, sk(ow.id), FALSE>>, <<m.suppStable, sk(ow.id), TRUE>> >>)

\* What is in no catalog may be a bundle: each of its parts that is.
SiblingMeta(s, ow, m) ==
  LET sk(id) == IF ow.title = "demo" THEN <<>> ELSE K(Stable(id)) IN
  Lookup(<< <<m.cloud, K(s), FALSE>>, <<m.supp, K(s), TRUE>>,
            <<m.browseStable, sk(s), FALSE>>, <<m.suppStable, sk(s), TRUE>> >>)

Siblings(list, ow, parts, m) ==
  FoldLeft(LAMBDA s, p : LET found == SiblingMeta(p, ow, m) IN
                         IF found = <<>> THEN s
                         ELSE IF ProductId(found[1]) \in s.seen \union {""} THEN s
                         ELSE [list |-> Emit(s.list, ow, found[1], found[2]), seen |-> s.seen \union {ProductId(found[1])}],
           [list |-> list, seen |-> {}], parts).list

\* An upgrade from disc whose wrapper cannot be launched takes the id of the one
\* full game of the same name and platform.
Rescued(e, owned) ==
  LET like == {i \in DOMAIN owned : /\ owned[i].ft = 3 /\ owned[i].title = e.title /\ owned[i].alt \notin {"", e.alt}
                                    /\ Tok(owned[i].alt) = Tok(e.alt)}
      own == {owned[i].alt : i \in {j \in like : owned[j].alt = owned[j].id}}
      other == {owned[i].alt : i \in {j \in like : owned[j].alt # owned[j].id}}
      instead == IF Cardinality(own) = 1 THEN own ELSE IF own = {} /\ Cardinality(other) = 1 THEN other ELSE {}
  IN IF e.ft # 5 \/ e.title = "" \/ instead = {} THEN e
     ELSE LET p == CHOOSE p \in instead : TRUE IN [e EXCEPT !.alt = p, !.pid = p, !.cat = p, !.prefer = TRUE]

CrossRef(in, m) ==
  LET all == FoldLeft(LAMBDA list, ow : LET found == Meta(ow, m) IN
                        IF found # <<>> THEN Emit(list, ow, found[1], found[2])
                        ELSE IF ow.alt \in DOMAIN in.parts THEN Siblings(list, ow, in.parts[ow.alt], m) ELSE list,
                      <<>>, in.owned)
  IN [i \in DOMAIN all |-> Rescued(all[i], in.owned)]

-----------------------------------------------------------------------------
(* One list: merge_owned_into_browse and cc_assemble_unified_catalog        *)

Register(s, g, i) == [s EXCEPT !.prod = PutLast(PutLast(@, K(ProductId(g)), i), K(EntitlementId(g)), i),
                               !.conc = PutLast(@, ConceptKey(g), i)]

\* find_index_for_owned: 0 if there is no row.
FindIndex(s, o) ==
  LET found == Lookup(<< <<s.prod, K(ProductId(o)), FALSE>>, <<s.prod, K(EntitlementId(o)), FALSE>>,
                         <<s.prod, K(o.store), FALSE>>, <<s.conc, ConceptKey(o), FALSE>> >>)
  IN IF found = <<>> THEN 0 ELSE found[1]

\* An owned PS5 title takes its row over; a PS4 one only a row that is no PS5 title's.
Stamp(g, o) ==
  IF o.svc = "pscloud"
  THEN [g EXCEPT !.owned = TRUE, !.prefer = @ \/ o.prefer, !.id = Or(o.id, @), !.alt = Or(ProductId(o), @),
                 !.pid = Or(ProductId(o), @), !.svc = "pscloud"]
  ELSE IF g.svc # "pscloud" /\ Class(g) # "ps5"
  THEN [g EXCEPT !.owned = TRUE, !.id = Or(EntitlementId(o), @), !.svc = "psnow"]
  ELSE g

SupersededTrial(o, full) == o.ft = 1 /\ ProductId(o) \in full

Merge(universe, cross) ==
  LET full == {ProductId(cross[i]) : i \in {j \in DOMAIN cross : cross[j].ft # 1}} \ {""}
      ordered == SelectSeq(cross, LAMBDA o : o.svc = "pscloud") \o SelectSeq(cross, LAMBDA o : o.svc # "pscloud")
      start == FoldLeft(LAMBDA s, g : Register([s EXCEPT !.games = Append(@, g)], g, Len(s.games) + 1),
                        [games |-> <<>>, prod |-> EmptyMap, conc |-> EmptyMap], universe)
      done == FoldLeft(LAMBDA s, o :
                LET i == IF o.ft = 1 THEN 0 ELSE FindIndex(s, o)
                    new == [o EXCEPT !.owned = TRUE, !.pid = Or(@, o.alt)]
                IN IF SupersededTrial(o, full) THEN s
                   ELSE IF i # 0 /\ o.svc # "" THEN [s EXCEPT !.games[i] = Stamp(@, o)]
                   ELSE Register([s EXCEPT !.games = Append(@, new)], new, Len(s.games) + 1),
              start, ordered).games
      owned == {ConceptKey(done[i]) : i \in {j \in DOMAIN done : done[j].owned}} \ {<<>>}
  IN SelectSeq(done, LAMBDA g : g.owned \/ ConceptKey(g) \notin owned)

\* In native mode what is owned but nowhere listed to be streamed is dropped.
Keys(ids) == (ids \union {Stable(p) : p \in ids}) \ {""}
Gate(games, apollo, im) ==
  LET rows == {apollo[i] : i \in DOMAIN apollo} \union {im.browse[i] : i \in DOMAIN im.browse}
      products == Keys({ProductId(g) : g \in rows})
      more == {im.supp[i] : i \in DOMAIN im.supp} \union {im.browse[i] : i \in DOMAIN im.browse}
      concepts == ({im.browse[i].concept : i \in DOMAIN im.browse}
                   \union {g.concept : g \in {r \in more : Keys({ProductId(r)}) \intersect products # {}}}) \ {""}
  IN SelectSeq(games, LAMBDA g : ~g.owned \/ g.concept \in concepts
                                 \/ Keys({ProductId(g), g.store, EntitlementId(g)}) \intersect products # {})

Service(g) == IF g.svc # "" THEN g.svc
              ELSE IF Tok(Or(Or(g.store, ProductId(g)), EntitlementId(g))) = "ps4" THEN "psnow" ELSE "pscloud"
StreamId(g) == IF Service(g) = "psnow" THEN Or(g.cat, ProductId(g))
               ELSE IF ~g.owned THEN ProductId(g)
               ELSE IF g.prefer THEN Or(Or(g.alt, g.store), ProductId(g)) ELSE Or(g.id, ProductId(g))
Tag(g) == [g EXCEPT !.service = Service(g), !.stream = StreamId(g), !.pid = Or(@, g.alt),
                    !.category = IF Service(g) = "psnow" THEN "streamable" ELSE IF g.owned THEN "owned" ELSE "purchaseable",
                    !.store = Or(Or(IF g.owned THEN g.alt ELSE "", g.cat), @)]

ContractRank(g) == (IF g.owned THEN 100 ELSE 0)
                   + (CASE g.category = "owned" -> 40 [] g.category = "streamable" -> 20 [] OTHER -> 0)
                   + (IF g.owned /\ g.service = "pscloud" THEN 10 ELSE 0) + (IF g.ft # 1 THEN 2 ELSE 0) + (IF g.plus THEN 1 ELSE 0)


Dedupe(games) ==
  FoldLeft(LAMBDA out, g :
             LET same == {i \in DOMAIN out : g.pid # "" /\ out[i].pid = g.pid} IN
             IF same = {} THEN Append(out, g)
             ELSE LET i == CHOOSE i \in same : TRUE
                      plus == out[i].plus \/ g.plus
                  IN IF ContractRank(g) > ContractRank(out[i]) THEN [out EXCEPT ![i] = [g EXCEPT !.plus = plus]]
                     ELSE [out EXCEPT ![i].plus = plus],
           <<>>, games)

IsPs5(g) == Tok(Or(ProductId(g), EntitlementId(g))) = "ps5" \/ "PS5" \in g.dev

\* cc_assemble_unified_catalog up to the merge: what is owned joins the rows of the
\* walk and the PS5 rows of the lists that the walk does not have.
Universe(apollo, im) ==
  LET ps5 == SelectSeq(im.browse, LAMBDA g : IsPs5(g) /\ \A i \in DOMAIN apollo : ProductId(apollo[i]) # ProductId(g))
  IN apollo \o [i \in DOMAIN ps5 |-> [ps5[i] EXCEPT !.svc = Or(@, "pscloud")]]

-----------------------------------------------------------------------------
(* The passes over the lists, in the order of the code. They run twice, side  *)
(* by side: on what the servers sent and on the same with the list of what is *)
(* owned reversed, so that the two results can be compared.                   *)
Orders == {"sent", "reversed"}

VARIABLES input, im, cross, games, result, pass
vars == <<input, im, cross, games, result, pass>>

Passes == <<"lists", "owned", "merge", "contract", "dedupe", "done">>
Nothing == [o \in Orders |-> <<>>]
Init == /\ \E in \in Inputs : input = [o \in Orders |-> IF o = "sent" THEN in ELSE [in EXCEPT !.owned = Reverse(@)]]
        /\ im = Nothing /\ cross = Nothing /\ games = Nothing /\ result = Nothing
        /\ pass = 1

At(p) == Passes[pass] = p /\ pass' = pass + 1

MergeLists == /\ At("lists") /\ im' = [o \in Orders |-> Imagic(input[o].lists)]
              /\ UNCHANGED <<input, cross, games, result>>
MatchOwned == /\ At("owned")
              /\ cross' = [o \in Orders |-> CrossRef(input[o], Maps(input[o].apollo, im[o]))]
              /\ UNCHANGED <<input, im, games, result>>
MergeOwned == /\ At("merge")
              /\ games' = [o \in Orders |-> Merge(Universe(NormalizeApollo(input[o].apollo), im[o]), cross[o])]
              /\ UNCHANGED <<input, im, cross, result>>
Tagged(list) == [i \in DOMAIN list |-> Tag(list[i])]
TagGames == /\ At("contract")
            /\ games' = [o \in Orders |-> Tagged(IF input[o].native THEN Gate(games[o], NormalizeApollo(input[o].apollo), im[o])
                                                ELSE games[o])]
            /\ UNCHANGED <<input, im, cross, result>>
ListOnce == /\ At("dedupe") /\ result' = [o \in Orders |-> Dedupe(games[o])]
            /\ UNCHANGED <<input, im, cross, games>>

Next == MergeLists \/ MatchOwned \/ MergeOwned \/ TagGames \/ ListOnce
Spec == Init /\ [][Next]_vars

Done == Passes[pass] = "done"

\* No product is listed twice, and none that the user owns is hidden behind a row
\* that he does not own.
OneRowEach ==
  Done => \A o \in Orders :
    /\ \A i, j \in DOMAIN result[o] : result[o][i].pid = result[o][j].pid /\ result[o][i].pid # "" => i = j
    /\ \A i \in DOMAIN games[o] : games[o][i].owned =>
         \E j \in DOMAIN result[o] : result[o][j].pid = games[o][i].pid /\ result[o][j].owned

\* A title that is owned is not offered to be bought, on the same platform.
NotSoldTwice ==
  Done => \A o \in Orders : \A i, j \in DOMAIN result[o] :
    result[o][i].owned /\ result[o][i].category = "owned" /\ ConceptKey(result[o][i]) # <<>>
    /\ result[o][j].category = "purchaseable" => ConceptKey(result[o][i]) # ConceptKey(result[o][j])

\* The order in which the server lists what is owned does not decide which products
\* are shown, nor which of them as owned (owned_better is a total order), as long as
\* nothing is an upgrade from disc: two of those can end in the one row.
Shown(list) == {<<list[i].pid, list[i].owned>> : i \in DOMAIN list}
OrderDoesNotMatter ==
  Done /\ (\A i \in DOMAIN input["sent"].owned : input["sent"].owned[i].ft # 5)
    => Shown(result["sent"]) = Shown(result["reversed"])
=============================================================================
