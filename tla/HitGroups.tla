------------------------------- MODULE HitGroups -------------------------------
(***************************************************************************)
(* aggregate_fused() of engine/web_index/rrf.rs: fused hits of one section *)
(* of a site become one, and a homepage joins the strongest section.       *)
(***************************************************************************)
EXTENDS RankFusion

CONSTANTS
    Host, Section,  \* host and first path segment of each URL
    NoSection,      \* the first segment of a homepage
    Matches         \* keyword_match_count() of each URL's title and snippet

ASSUME HitGroupsAssumption ==
    /\ DOMAIN Host = Urls /\ DOMAIN Section = Urls
    /\ Matches \in [Urls -> Nat]

Group(u) == <<Host[u], Section[u]>>

Homepages(groups) == {g \in groups : g[2] = NoSection}

\* The member with the most keyword matches represents a group; ties go to the
\* smaller URL.
Representative(hits) ==
    CHOOSE a \in hits : \A b \in hits :
        \/ Matches[a.url] > Matches[b.url]
        \/ Matches[a.url] = Matches[b.url] /\ Before[a.url] <= Before[b.url]

\* Absorbed that keeps the representative's own score (mutant).
AbsorbedAlone(hits) ==
    [url |-> Representative(hits).url,
     score |-> Representative(hits).score,
     count |-> SumFunction([h \in hits |-> h.count]),
     engines |-> UNION {h.engines : h \in hits}]

\* absorb(), over all members: scores and counts add up.
Absorbed(hits) ==
    [url |-> Representative(hits).url,
     score |-> SumFunction([h \in hits |-> h.score]),
     count |-> SumFunction([h \in hits |-> h.count]),
     engines |-> UNION {h.engines : h \in hits}]

Members(hits, group) == {h \in hits : Group(h.url) = group}

\* The sections a homepage's group may join: those of its host that score
\* highest; which of several is up to the iteration order of a map.
Strongest(hits, home) ==
    LET sections == {g \in {Group(h.url) : h \in hits} : g[1] = home[1] /\ g[2] # NoSection}
        score(g) == Absorbed(Members(hits, g)).score
    IN  {g \in sections : \A other \in sections : score(g) >= score(other)}

\* A homepage whose host has no section stays a group of its own.
JoinsOf(hits) ==
    LET groups == {Group(h.url) : h \in hits} IN
    {join \in [groups -> groups] :
        \A g \in groups :
            IF g \in Homepages(groups) /\ Strongest(hits, g) # {}
            THEN join[g] \in Strongest(hits, g) ELSE join[g] = g}

\* Sorted by score, then by keyword matches, then by URL.
Ranked(hits) ==
    InOrder(hits, LAMBDA a, b :
        \/ a.score > b.score
        \/ a.score = b.score /\ Matches[a.url] > Matches[b.url]
        \/ a.score = b.score /\ Matches[a.url] = Matches[b.url] /\ Before[a.url] < Before[b.url])

\* The possible outcomes of aggregation.
Aggregations(hits) ==
    {Ranked({Absorbed({h \in hits : join[Group(h.url)] = g}) : g \in {join[x] : x \in DOMAIN join}}) :
        join \in JoinsOf(hits)}
=============================================================================
