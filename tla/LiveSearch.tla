------------------------------ MODULE LiveSearch ------------------------------
(***************************************************************************)
(* A search with --live: up to three passes over the engines, each a       *)
(* fan-out with retries, a deadline and an early exit                      *)
(* (engine/web_index.rs, web_index/client.rs), then the merge of what they *)
(* found with the store's hits (commands/search.rs).                       *)
(*                                                                         *)
(* Time is counted in units of about 400 ms, within a pass.                *)
(***************************************************************************)
EXTENDS HitGroups

CONSTANTS
    Engines,
    HitLists,       \* the lists of hits an engine may answer with
    StoreLists,     \* the lists of hits the store may have
    Lengths,        \* how many words the query may have
    Selections,     \* the sets of engines should_query() may select
    Timeout,        \* of one request to an engine, and of a pass
    TargetHits,     \* enough hits to stop waiting for engines
    Wanted,         \* results asked for
    Noisy,          \* URLs of ad or tracker domains and adult pages
    Quoted,         \* URLs whose texts have the query's quoted phrases
    NoHits

VARIABLES
    words,          \* the words of the query
    pass,           \* 1..3, the pass over the engines
    phase,          \* searching, fusing, fused or done
    clock,          \* time since the pass began
    status,         \* of each engine: skipped, asking, backoff or reported
    attempt, since, \* which request it is on, and when that or the pause began
    reports,        \* what engines reported, in order of arrival
    live,           \* the fused hits of the last pass
    query,          \* what the merge looks at: [store, quotes, keywords]
    results         \* what the search returns

engineVars == <<status, attempt, since>>
mergeVars == <<query, results>>
vars == <<words, pass, phase, clock, engineVars, reports, live, mergeVars>>

ASSUME LiveSearchAssumption ==
    /\ HitLists \subseteq Seq(Urls) /\ StoreLists \subseteq Seq(Urls)
    /\ Lengths \subseteq Nat \ {0} /\ Selections \subseteq SUBSET Engines
    /\ Timeout \in Nat \ {0} /\ TargetHits \in Nat /\ Wanted \in Nat \ {0}
    /\ Noisy \subseteq Urls /\ Quoted \subseteq Urls

MaxAttempts == 3

\* should_query() leaves engines out.
Ask(engines) ==
    /\ status' = [e \in Engines |-> IF e \in engines THEN "asking" ELSE "skipped"]
    /\ attempt' = [e \in Engines |-> 1]
    /\ since' = [e \in Engines |-> 0]
    /\ clock' = 0
    /\ reports' = <<>>
    /\ phase' = "searching"

Init ==
    /\ words \in Lengths
    /\ pass = 1
    /\ phase = "searching"
    /\ clock = 0
    /\ \E engines \in Selections :
         status = [e \in Engines |-> IF e \in engines THEN "asking" ELSE "skipped"]
    /\ attempt = [e \in Engines |-> 1]
    /\ since = [e \in Engines |-> 0]
    /\ reports = <<>>
    /\ live = <<>>
    /\ query = NoHits
    /\ results = NoHits

-----------------------------------------------------------------------------
(* The engines of a pass *)

Collected(reps) == FoldLeft(LAMBDA n, r : n + Len(r.hits), 0, reps)

\* Enough answers: the pass does not wait for the other engines.
Quorum(reps) ==
    /\ Len(reps) >= (IF Cardinality(Engines) < 2 THEN Cardinality(Engines) ELSE 2)
    /\ Collected(reps) >= TargetHits
    /\ clock >= 1

\* An engine's report wakes the collector, which then looks at the clock.
Report(e, ok, hits) ==
    /\ reports' = Append(reports, [engine |-> e, ok |-> ok, hits |-> hits, latency |-> clock])
    /\ status' = [status EXCEPT ![e] = "reported"]
    /\ phase' = IF Quorum(reports') \/ clock >= Timeout THEN "fusing" ELSE "searching"
    /\ UNCHANGED <<words, pass, clock, attempt, since, live, mergeVars>>

Asking(e) == phase = "searching" /\ status[e] = "asking"

Answered(e, hits) == Asking(e) /\ Report(e, TRUE, hits)

\* Another status, a transport error or the timeout of the request.
Fails(e) == Asking(e) /\ Report(e, FALSE, <<>>)

\* 403 or 429: the engine is asked again under another identity, after a pause;
\* the last refusal is reported.
Blocked(e) ==
    /\ Asking(e)
    /\ IF attempt[e] < MaxAttempts
       THEN /\ status' = [status EXCEPT ![e] = "backoff"]
            /\ since' = [since EXCEPT ![e] = clock]
            /\ UNCHANGED <<words, pass, phase, clock, attempt, reports, live, mergeVars>>
       ELSE Report(e, FALSE, <<>>)

\* 200 to 549 ms after the first refusal, 400 to 749 ms after the second.
Pause(e) == IF attempt[e] = 1 THEN {0, 1} ELSE {1, 2}

Retry(e) ==
    /\ phase = "searching" /\ status[e] = "backoff"
    /\ clock - since[e] \in Pause(e)
    /\ status' = [status EXCEPT ![e] = "asking"]
    /\ attempt' = [attempt EXCEPT ![e] = @ + 1]
    /\ since' = [since EXCEPT ![e] = clock]
    /\ UNCHANGED <<words, pass, phase, clock, reports, live, mergeVars>>

\* Time does not pass a request's timeout, the end of a pause, or the deadline.
Tick ==
    /\ phase = "searching"
    /\ clock < Timeout
    /\ \A e \in Engines :
        /\ status[e] = "asking" => clock - since[e] < Timeout
        /\ status[e] = "backoff" => \E n \in Pause(e) : clock - since[e] < n
    /\ clock' = clock + 1
    /\ UNCHANGED <<words, pass, phase, engineVars, reports, live, mergeVars>>

\* Every engine has reported.
Exhausted ==
    /\ phase = "searching"
    /\ \A e \in Engines : status[e] \in {"skipped", "reported"}
    /\ phase' = "fusing"
    /\ UNCHANGED <<words, pass, clock, engineVars, reports, live, mergeVars>>

\* Deadline that grants the engines the whole time anew (mutant).
DeadlineRenewed ==
    /\ phase = "searching"
    /\ clock >= Timeout
    /\ clock' = 0
    /\ since' = [e \in Engines |-> 0]
    /\ UNCHANGED <<words, pass, phase, status, attempt, reports, live, mergeVars>>

\* Engines that have not reported by the deadline are dropped.
Deadline ==
    /\ phase = "searching"
    /\ clock >= Timeout
    /\ phase' = "fusing"
    /\ UNCHANGED <<words, pass, clock, engineVars, reports, live, mergeVars>>

-----------------------------------------------------------------------------
(* Fusion, and the next pass *)

\* Reliability in proportion to the hits (mutant).
ReliabilityByVolume(n, latency) == (IF n < 4 THEN n ELSE 4) * (100 - latency)

\* What an answer of n hits at this time is worth, in 800ths: the fewer hits and
\* the later, the less, but never less than half.
Reliability(n, latency) ==
    LET volume == 4 + IF n < 4 THEN n ELSE 4
        speed == IF latency > 30 THEN 70 ELSE 100 - latency
    IN  IF volume * speed < 400 THEN 400 ELSE volume * speed

Answers(reps) == At({i \in 1..Len(reps) : reps[i].ok}, reps)

Weighted(reps) ==
    LET ok == Answers(reps) IN
    [i \in 1..Len(ok) |-> [hits |-> ok[i].hits, engine |-> ok[i].engine,
                           weight |-> Reliability(Len(ok[i].hits), ok[i].latency)]]

\* The requests still under way are dropped with the pass.
FuseAnswers ==
    /\ phase = "fusing"
    /\ live' \in Aggregations(Fuse(Weighted(reports)))
    /\ phase' = "fused"
    /\ clock' = 0
    /\ status' = [e \in Engines |-> "skipped"]
    /\ attempt' = [e \in Engines |-> 1]
    /\ since' = [e \in Engines |-> 0]
    /\ UNCHANGED <<words, pass, reports, mergeVars>>

\* A pass without hits is repeated without the last word, if that leaves any,
\* and then with the first three words, if that is not the query itself.
NextPass ==
    /\ phase = "fused" /\ live = <<>>
    /\ (pass = 1 /\ words > 1) \/ (pass = 2 /\ words > 3)
    /\ pass' = pass + 1
    /\ \E engines \in Selections : Ask(engines)
    /\ UNCHANGED <<words, live, mergeVars>>

-----------------------------------------------------------------------------
(* merge_live_results() *)

\* The store's hit of a page; of several the last.
InStore(hits, u) == {i \in 1..Len(hits) : Canon[hits[i]] = Canon[u]}

Result(q, u) ==
    IF InStore(q.store, u) = {} THEN [url |-> u, from |-> "live"]
    ELSE [url |-> q.store[Max(InStore(q.store, u))], from |-> "store"]

\* The URL, and text, that fusion keeps for a page: the store's first hit of it, if any.
Candidate(q, u) ==
    IF InStore(q.store, u) = {} THEN u ELSE q.store[Min(InStore(q.store, u))]

\* What the gates looked at before they let a result in.
Judged(q, r) == IF r.from = "fill" THEN r.url ELSE Candidate(q, r.url)

\* A hit without any keyword scores zero.
Scores(q, u, shown) == q.keywords => Matches[u] > 0 \/ Matches[shown] > 0

\* The gates a fused hit passes before it counts as seen.
Passes(q, u) == u \notin Noisy /\ (q.quotes => u \in Quoted)

\* Each fused hit, best first, until there are enough results.
TakeFused(q, acc, u) ==
    IF Len(acc.results) >= Wanted \/ ~Passes(q, u) THEN acc
    ELSE [seen |-> acc.seen \cup {Canon[u]},
          results |-> IF Scores(q, u, Result(q, u).url)
                      THEN Append(acc.results, Result(q, u)) ELSE acc.results]

FusedPart(q, hits) ==
    LET taken[i \in 0..Len(hits)] ==
            IF i = 0 THEN [seen |-> {}, results |-> <<>>]
            ELSE TakeFused(q, taken[i - 1], hits[i].url)
    IN  taken[Len(hits)]

\* Fills that looks at URLs where it should at pages (mutant).
FillsUrl(q, seen, u) ==
    /\ u \notin seen
    /\ IF q.quotes THEN u \in Quoted ELSE q.keywords => Matches[u] > 0

\* A store hit that fills up a short list, unless it was seen.
Fills(q, seen, u) ==
    /\ Canon[u] \notin seen
    /\ IF q.quotes THEN u \in Quoted ELSE q.keywords => Matches[u] > 0

Merged(q) ==
    LET acc == FusedPart(q, FuseIndexAndLive(q.store, First(4 * Wanted, live)))
        fill == At({i \in 1..Len(q.store) : Fills(q, acc.seen, q.store[i])}, q.store)
    IN  First(Wanted, acc.results \o [i \in 1..Len(fill) |-> [url |-> fill[i], from |-> "fill"]])

\* Without any live hit the store's hits are returned as they are.
Fallback(q) ==
    [i \in 1..Len(First(Wanted, q.store)) |-> [url |-> q.store[i], from |-> "fallback"]]

Merge ==
    /\ phase = "fused"
    /\ live = <<>> => ~((pass = 1 /\ words > 1) \/ (pass = 2 /\ words > 3))
    /\ \E hits \in StoreLists, quotes, keywords \in BOOLEAN :
         query' = [store |-> hits, quotes |-> quotes, keywords |-> keywords]
    /\ results' = IF live = <<>> THEN Fallback(query') ELSE Merged(query')
    /\ phase' = "done"
    /\ UNCHANGED <<words, pass, clock, engineVars, reports, live>>

Phases == {"searching", "fusing", "fused", "done"}

Finished == phase = "done" /\ UNCHANGED vars

Engine(e) ==
    \/ \E hits \in HitLists : Answered(e, hits)
    \/ Fails(e) \/ Blocked(e) \/ Retry(e)

SearchStep == FuseAnswers \/ NextPass \/ Merge

Next ==
    \/ \E e \in Engines : Engine(e)
    \/ Tick \/ Exhausted \/ Deadline \/ SearchStep \/ Finished

\* Time passes, and the search goes on when its timers fire; engines may never
\* answer, except that their requests time out.
Fairness ==
    /\ WF_vars(Tick) /\ WF_vars(Exhausted) /\ WF_vars(Deadline)
    /\ WF_phase(phase \in {"fusing", "fused"} /\ phase' \in Phases)
    /\ \A e \in Engines : WF_vars(Retry(e) \/ (clock - since[e] >= Timeout /\ Fails(e)))

Spec == Init /\ [][Next]_vars /\ Fairness

-----------------------------------------------------------------------------
(* Properties *)

TypeOK ==
    /\ words \in Lengths /\ pass \in 1..3
    /\ phase \in Phases
    /\ clock \in 0..Timeout
    /\ status \in [Engines -> {"skipped", "asking", "backoff", "reported"}]
    /\ attempt \in [Engines -> 1..MaxAttempts]
    /\ since \in [Engines -> 0..Timeout]
    /\ Len(reports) <= Cardinality(Engines)
    /\ results = NoHits \/ Len(results) <= Wanted

\* Nothing that an engine which answered has found is lost by fusion: the
\* groups' scores and hit counts add up to those of the answers, however the
\* homepages join their hosts' sections (rrf.rs, absorb()).
EvidenceConserved ==
    phase \in {"fused", "done"} =>
        LET fused == ToSet(live)
            hits == Hits(Weighted(reports))
        IN  /\ SumFunction([f \in fused |-> f.count]) = Cardinality(hits)
            /\ SumFunction([f \in fused |-> f.score]) = SumFunction([h \in hits |-> h.score])

\* The fused page's hits in what the engines answered.
HitsAt(page) == {h \in Hits(Weighted(reports)) : Canon[h.url] = Canon[page.url]}

\* The hits of a page that engines ranked no lower than any hit of another.
Ahead(a, b) == {h \in HitsAt(a) : \A g \in HitsAt(b) : h.at[2] <= g.at[2]}

\* How reliable engines are only tilts what their lists say: a page that has twice as many
\* hits as another has at all, each ranked no lower than any of the other's, scores no less,
\* however few hits or however late the answers that list it (web_index.rs:275-281).
ConsensusWins ==
    phase \in {"fusing", "fused"} =>
        \A a, b \in Fuse(Weighted(reports)) :
            Cardinality(Ahead(a, b)) >= 2 * b.count => a.score >= b.score

\* Reliability "never overrides multi-engine agreement" (web_index.rs:279-281): no page of
\* one engine beats one of several.
AgreementWins ==
    phase \in {"fusing", "fused"} =>
        \A a, b \in Fuse(Weighted(reports)) :
            Cardinality(a.engines) > 1 /\ Cardinality(b.engines) = 1 => a.score >= b.score

\* With live hits, the merged list holds together.  A page is returned once, unless its
\* candidate did not pass the gates and the store's copies of it fill up the list.  What
\* each result was judged by has the query's quoted phrases, and it or the result has one
\* of the keywords, except that the fill is only asked for the phrases when there are any
\* (search.rs:631-652, 663-669, 681-698).
Distinct ==
    \A i, j \in 1..Len(results) :
        i # j /\ Canon[results[i].url] = Canon[results[j].url]
            => /\ results[i].from = "fill" /\ results[j].from = "fill"
               /\ ~Passes(query, Candidate(query, results[i].url))

Precise ==
    \A i \in 1..Len(results) :
        LET r == results[i] IN
        /\ query.quotes => Judged(query, r) \in Quoted
        /\ query.keywords /\ ~(query.quotes /\ r.from = "fill")
               => Matches[r.url] > 0 \/ Matches[Judged(query, r)] > 0

ResultsFit == results # NoHits /\ live # <<>> => Distinct /\ Precise

\* The hard quarantine gate of search.rs:631-642: no noisy page is returned
\* along with live hits.
NothingNoisy ==
    results # NoHits /\ live # <<>> => \A i \in 1..Len(results) : results[i].url \notin Noisy

\* Exact phrase invariant: a candidate MUST contain the phrase (search.rs:644-645), so what
\* is returned has it.
PhraseShown ==
    results # NoHits /\ live # <<>> /\ query.quotes
        => \A i \in 1..Len(results) : results[i].url \in Quoted

\* FusedHit.engine_count: the number of engines that returned the URL
\* (rrf.rs:25-26).
CountsEngines == \A f \in ToSet(live) : f.count = Cardinality(f.engines)

\* The search returns, whatever the engines do.
SearchReturns == <>(phase = "done")
=============================================================================
