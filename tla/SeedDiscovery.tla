----------------------------- MODULE SeedDiscovery -----------------------------
(***************************************************************************)
(* Where a research request takes its seeds from when it is given none     *)
(* (discover_seeds() of engine/discovery.rs): one pass over the live       *)
(* engines, under a time limit of its own, and then the offline layers,    *)
(* which are the curated catalog, the index and the crawl graph.           *)
(*                                                                         *)
(* The pass is that of LiveSearch, whose other caller is the search        *)
(* command.  The index is whatever engine the caller of execute_research() *)
(* passes; `webfind research` passes one that is new, and so empty.        *)
(* Relevance is counted in thousandths.                                    *)
(***************************************************************************)
EXTENDS LiveSearch

CONSTANTS
    Keywords,           \* how many keywords the query may have
    MaxSeeds, MinRelevance, FallbackRelevance,
    Catalogs, Indexes, Graphs,  \* the sets of seeds each layer may score above zero
    Forbidden,          \* URLs that the security gate refuses
    NotAsked

VARIABLE discovery      \* the seeds a request is given, and what they are chosen from

seedVars == <<vars, discovery>>

Seed == [url: Urls, relevance: 0..1000]

ASSUME SeedDiscoveryAssumption ==
    /\ Keywords \subseteq Nat \ {0}
    /\ MaxSeeds \in Nat \ {0}
    /\ MinRelevance \in 0..1000 /\ FallbackRelevance \in 0..1000
    /\ \A found \in Catalogs \cup Indexes \cup Graphs : found \subseteq Seed /\ IsFiniteSet(found)

-----------------------------------------------------------------------------
(* Choosing among seeds *)

\* sort_by() keeps the order of equals.
ByRelevance(seeds) ==
    LET order == InOrder(DOMAIN seeds, LAMBDA i, j :
                    \/ seeds[i].relevance > seeds[j].relevance
                    \/ seeds[i].relevance = seeds[j].relevance /\ i < j)
    IN  [n \in 1..Len(seeds) |-> seeds[order[n]]]

AtLeast(relevance, seeds) == At({i \in 1..Len(seeds) : seeds[i].relevance >= relevance}, seeds)

\* keyword_relevance(): the share of a query's k keywords that a hit has.
KeywordShare(k, u) == (1000 * IF Matches[u] < k THEN Matches[u] ELSE k) \div k

\* live_hit_relevance(): 0.8 for the keywords and 0.2 for the score, which
\* normalize_rrf_scores() leaves at 0.4 or more, and which is then multiplied by 60 and
\* clamped to 1.
LiveRelevance(k, u) ==
    IF KeywordShare(k, u) = 0 THEN 0 ELSE (8 * KeywordShare(k, u)) \div 10 + 200

LiveSeeds(k, hits) ==
    First(MaxSeeds, ByRelevance(AtLeast(1,
        [i \in 1..Len(hits) |-> [url |-> hits[i].url, relevance |-> LiveRelevance(k, hits[i].url)]])))

Named(u, seeds) == \E i \in 1..Len(seeds) : seeds[i].url = u

\* Filled that looks at the cap before it takes a seed (mutant).
FilledToCap(seeds, offline) ==
    FoldLeft(LAMBDA acc, s :
                IF Len(acc) >= MaxSeeds \/ Named(s.url, acc) THEN acc ELSE Append(acc, s),
             seeds, offline)

\* The offline seeds that are new follow the live ones; the cap is looked at when one
\* has been taken.
Filled(seeds, offline) ==
    LET after[i \in 0..Len(offline)] ==
            IF i = 0 THEN [seeds |-> seeds, full |-> FALSE]
            ELSE IF after[i - 1].full \/ Named(offline[i].url, after[i - 1].seeds) THEN after[i - 1]
            ELSE [seeds |-> Append(after[i - 1].seeds, offline[i]),
                  full |-> Len(after[i - 1].seeds) + 1 >= MaxSeeds]
    IN  after[Len(offline)].seeds

\* Seeds below the bar are offered only if none reaches it, and seeds below the floor
\* only if none reaches that.
Preferred(seeds) ==
    LET high == AtLeast(MinRelevance, seeds)
        best == AtLeast(FallbackRelevance, seeds)
    IN  CASE high # <<>> -> high
          [] high = <<>> /\ best # <<>> -> First(MaxSeeds, ByRelevance(best))
          [] high = <<>> /\ best = <<>> -> seeds

\* sanitize_url() refuses a URL or strips it of what canonical_url() strips too.
Sanitized(seeds) ==
    LET allowed == At({i \in 1..Len(seeds) : seeds[i].url \notin Forbidden}, seeds)
    IN  [i \in 1..Len(allowed) |-> Canon[allowed[i].url]]

-----------------------------------------------------------------------------
(* discover_seeds() *)

Discovering(liveSeeds) ==
    [stage |-> "offline", live |-> liveSeeds, offline |-> <<>>, chosen |-> <<>>, seeds |-> <<>>]

\* The pass is over for its caller, who keeps only what it needs.
Leave ==
    /\ phase' = "done"
    /\ clock' = 0
    /\ status' = [e \in Engines |-> "skipped"]
    /\ attempt' = [e \in Engines |-> 1]
    /\ since' = [e \in Engines |-> 0]
    /\ reports' = <<>>
    /\ live' = <<>>
    /\ UNCHANGED <<words, pass, mergeVars>>

\* discover_from_live(): the first pass only, whether or not it has hits.
DiscoverLive ==
    /\ phase = "fused" /\ pass = 1
    /\ \E k \in Keywords : discovery' = Discovering(LiveSeeds(k, live))
    /\ Leave

\* The time limit of discovery, which is configured by itself, runs out before the pass.
DiscoveryTimesOut ==
    /\ phase \in {"searching", "fusing"} /\ pass = 1
    /\ discovery' = Discovering(<<>>)
    /\ Leave

\* A URL counts with the highest relevance it was found with.
Highest(found) ==
    {s \in found : \A t \in found : t.url = s.url => t.relevance <= s.relevance}

\* The order of equals is that of a hash map, or of the graph's nodes.
Sorted(found) == {ByRelevance(s) : s \in SetToSeqs(found)}

FromCatalog(found) == {First(MaxSeeds, s) : s \in Sorted(Highest(found))}

\* The matches of full text and vectors are cut in the order of a hash map, not sorted.
FromIndex(found) == {First(2 * MaxSeeds, s) : s \in SetToSeqs(Highest(found))}

FromGraph(found) == {First(2 * MaxSeeds, s) : s \in Sorted(found)}

\* The offline layers are read, and the seeds chosen.
DiscoverOffline ==
    /\ discovery # NotAsked /\ discovery.stage = "offline"
    /\ \E catalog \in Catalogs, index \in Indexes, graph \in Graphs :
        \E c \in FromCatalog(catalog), i \in FromIndex(index), g \in FromGraph(graph) :
            LET offline == ByRelevance(c \o i \o g)
                chosen == Preferred(Filled(discovery.live, offline))
                seeds == Sanitized(chosen)
            IN  discovery' = [discovery EXCEPT
                    !.stage = CASE chosen = <<>> -> "none"
                                [] chosen # <<>> /\ seeds = <<>> -> "rejected"
                                [] seeds # <<>> -> "found",
                    !.offline = offline, !.chosen = chosen, !.seeds = seeds]
    /\ UNCHANGED vars

\* The index cannot be searched: discovery fails, and the live seeds with it.
IndexFails ==
    /\ discovery # NotAsked /\ discovery.stage = "offline"
    /\ discovery' = [discovery EXCEPT !.stage = "failed"]
    /\ UNCHANGED vars

Discover == DiscoverLive \/ DiscoveryTimesOut \/ DiscoverOffline \/ IndexFails

SeedInit == Init /\ discovery = NotAsked

SeedNext == (Next /\ UNCHANGED discovery) \/ Discover

SeedSpec == SeedInit /\ [][SeedNext]_seedVars /\ Fairness

-----------------------------------------------------------------------------
(* Properties *)

\* What a request could choose from: the live seeds, then what the offline layers add,
\* each URL as the first of them has it.  What the search of the index cuts off unsorted
\* (discovery.rs:303-304) is none of it.
SeedCandidates ==
    LET all == discovery.live \o discovery.offline IN
    {all[i] : i \in {i \in 1..Len(all) : \A j \in 1..(i - 1) : all[j].url # all[i].url}}

\* The most relevant candidate is among the seeds unless the security gate refuses it,
\* also when the live engines have filled every slot with worse ones, and nothing below
\* the bar is offered beside what reaches it (discovery.rs:123-124 "Prefer high-quality
\* seeds. If none reach the quality bar, fall back to the best candidates").
BestSeedOffered ==
    discovery # NotAsked /\ discovery.stage \in {"found", "rejected"} =>
        LET best == {c \in SeedCandidates : \A d \in SeedCandidates : c.relevance >= d.relevance}
            chosen == ToSet(discovery.chosen)
        IN  /\ best \cap chosen # {}
            /\ \A c \in best \cap chosen :
                    c.url \notin Forbidden => Canon[c.url] \in ToSet(discovery.seeds)
            /\ \A s, t \in chosen : s.relevance >= MinRelevance => t.relevance >= MinRelevance

\* No more seeds than the cap (discovery.rs:35 "Dynamic seed ceiling").
SeedsCapped == discovery # NotAsked => Len(discovery.seeds) <= MaxSeeds

\* "Returns an error if no seed reaches the relevance threshold" (discovery.rs:53).
BelowThresholdIsError ==
    discovery # NotAsked /\ discovery.stage = "found" =>
        \E i \in 1..Len(discovery.chosen) : discovery.chosen[i].relevance >= MinRelevance

\* No seed is given twice: URLs are told apart before they are sanitized.
SeedsDistinct ==
    discovery # NotAsked => Cardinality(ToSet(discovery.seeds)) = Len(discovery.seeds)
=============================================================================
