------------------------------ MODULE RankFusion ------------------------------
(***************************************************************************)
(* How ranked lists of hits become one: reciprocal rank fusion of the      *)
(* lists of engines or queries (engine/web_index/rrf.rs), and the fusion   *)
(* of the store's hits with the live ones (commands/search.rs).            *)
(*                                                                         *)
(* Scores are exact: the contribution weight / (60 + rank) is counted in   *)
(* parts of Unit, which the denominators of four ranks divide.  A URL stands for its *)
(* title and snippet too.                                                  *)
(***************************************************************************)
EXTENDS RankedLists, FiniteSetsExt, Functions, SequencesExt

CONSTANTS
    Urls,
    Before,         \* the position of each URL in the order of strings
    Canon           \* canonical_url()

ASSUME RankFusionAssumption ==
    /\ Before \in [Urls -> Nat]
    /\ \A u, v \in Urls : Before[u] = Before[v] => u = v
    /\ DOMAIN Canon = Urls

K == 60
Unit == 61 * 31 * 63 * 64

\* What a hit at this rank is worth, per unit of weight.
Share(rank) == Unit \div (K + rank)

Contribution(weight, rank) == weight * Share(rank)

\* The hits of lists of [hits, weight, engine], with what each is worth.
Hits(lists) ==
    UNION {{[at |-> <<i, r>>, url |-> lists[i].hits[r], engine |-> lists[i].engine,
             score |-> Contribution(lists[i].weight, r)] :
                r \in 1..Len(lists[i].hits)} : i \in 1..Len(lists)}

\* The hit seen first supplies the URL.
Earliest(hits) ==
    CHOOSE h \in hits : \A g \in hits :
        h.at[1] < g.at[1] \/ (h.at[1] = g.at[1] /\ h.at[2] <= g.at[2])

FusedPage(hits) ==
    [url |-> Earliest(hits).url,
     score |-> SumFunction([h \in hits |-> h.score]),
     count |-> Cardinality(hits),
     engines |-> {h.engine : h \in hits}]

\* reciprocal_rank_fusion(), without its order.
Fuse(lists) ==
    LET hits == Hits(lists) IN
    {FusedPage({h \in hits : Canon[h.url] = page}) : page \in {Canon[h.url] : h \in hits}}

\* Sorted by score, ties by URL.
ByScore(hits) ==
    InOrder(hits, LAMBDA a, b :
        a.score > b.score \/ (a.score = b.score /\ Before[a.url] < Before[b.url]))

-----------------------------------------------------------------------------
(* fuse_index_and_live() *)

LiveWeight == 3

\* A live hit that the store does not have gains 10%, and 5% for each further
\* engine up to two.
Novelty(store, live, hit) ==
    LET mine == {f \in ToSet(live) : Canon[f.url] = Canon[hit.url]} IN
    IF mine # {} /\ \A u \in ToSet(store) : Canon[u] # Canon[hit.url]
    THEN 110 + LET n == 5 * ((CHOOSE f \in mine : TRUE).count - 1) IN IF n < 10 THEN n ELSE 10
    ELSE 100

IndexAndLive(store, live) ==
    <<[hits |-> store, weight |-> 1, engine |-> "index"],
      [hits |-> [i \in 1..Len(live) |-> live[i].url], weight |-> LiveWeight, engine |-> "live"]>>

FuseIndexAndLive(store, live) ==
    ByScore({[hit EXCEPT !.score = @ * Novelty(store, live, hit)] :
                hit \in Fuse(IndexAndLive(store, live))})
=============================================================================
