----------------------------- MODULE BulkCrawler -----------------------------
(***************************************************************************)
(* The crawl of a research request: execute_research() of                  *)
(* engine/research_service.rs, which crawls its seeds one after the other  *)
(* within one page budget, and crawl_with_limit() of                       *)
(* engine/bulk_crawler.rs, which crawls from one seed.                     *)
(*                                                                         *)
(* The crawler is one task.  Its frontier is kept per domain and outlives  *)
(* a seed; what it has discovered and crawled goes into the graph store,   *)
(* which outlives the process.  One action is one step of the loop, and    *)
(* discovering a URL (record it, queue it, link it) is one action.  The    *)
(* background worker (PersistWorker) runs beside it on the same store and  *)
(* on the same connection, so that rolling its transaction back undoes     *)
(* what the crawl wrote since it began.                                    *)
(*                                                                         *)
(* Sessions, proxies and waiting for a slot change when a page is fetched  *)
(* and not which; they are left out.                                       *)
(***************************************************************************)
EXTENDS Integers, FiniteSets, Sequences

CONSTANTS
    Urls, Domains,
    DomainOf,       \* util::extract_domain(url), a function of the URL
    Normal,         \* normalize_url(url): equal for the spellings of a page
    PathDepth,      \* path_depth(url)
    Rel,            \* score_relevance(url), in tenths
    Webs,           \* the webs to crawl, each a record of WebType
    Graphs,         \* what earlier requests left of the graph
    Seeds,          \* the request's seeds, a sequence of URLs
    MaxPages,       \* the request's page budget
    MinDepth, MaxDepth,
    AutoDepth, RespectRobots,   \* the request's switches
    Flaky,          \* URLs whose fetch may fail
    SetupMayFail,   \* whether building a session or fetcher may fail
    Frail,          \* URLs whose node may fail to be read or written
    WorkerMayFail,  \* whether the worker's transaction may fail
    NoEntry, NoTx

\* links: the pages a page links to.  lands: the domain a fetch of it ends on,
\* after redirects.  sitemap, llms: what a site maps.  forbids: what the
\* robots.txt of a domain disallows when it is asked about a URL.  down: domains
\* whose robots.txt and maps cannot be fetched.  follow: whether this request follows
\* external links, a switch of the crawler.
WebType == [links: [Urls -> SUBSET Urls], lands: [Urls -> Domains],
            sitemap: [Domains -> SUBSET Urls], llms: [Domains -> SUBSET Urls],
            forbids: [Domains -> SUBSET Urls], down: SUBSET Domains,
            follow: BOOLEAN]

ASSUME BulkCrawlerAssumption ==
    /\ IsFiniteSet(Urls)
    /\ DomainOf \in [Urls -> Domains]
    /\ PathDepth \in [Urls -> Nat]
    /\ Rel \in [Urls -> 0..10]
    /\ Webs \subseteq WebType
    /\ Seeds \in Seq(Urls)
    /\ MaxPages \in Nat /\ MinDepth \in Nat /\ MaxDepth \in Nat
    /\ {AutoDepth, RespectRobots, SetupMayFail, WorkerMayFail} \subseteq BOOLEAN
    /\ Flaky \subseteq Urls /\ Frail \subseteq Urls
    /\ Graphs \subseteq [Urls -> {"absent", "known", "crawled"}]

VARIABLES
    web,        \* the web, which does not change during the crawl
    store,      \* url_nodes: what the graph store knows of each URL
    saved,      \* what it knew when the worker's open transaction began, or NoTx
    lost,       \* URLs that are no node since their write failed or was undone
    queue,      \* the frontier of each domain, a set of entries
    seen,       \* URLs that ever entered the frontier of each domain
    policy,     \* what the crawler knows of each domain's robots.txt
    phase,      \* where the loop stands
    seedIdx,    \* how many seeds were started
    todo,       \* discoveries still to be made in this phase
    scope,      \* normalized URLs link-following is bounded to
    depthLimit, \* the effective maximum depth
    cur,        \* the selected entry
    count,      \* results.len() of this seed's crawl, up to CountBound
    got,        \* the URLs among these results
    contents,   \* the URLs among the results of the request
    remaining,  \* what is left of the page budget
    fetches     \* how often each URL was fetched, up to FetchBound

crawlVars == <<seedIdx, scope, depthLimit, contents, remaining>>
txVars == <<saved, lost>>
vars == <<web, store, saved, lost, queue, seen, policy, phase, seedIdx, todo, scope,
          depthLimit, cur, count, got, contents, remaining, fetches>>

\* A third fetch of a page shows nothing that the second did not, and any number
\* of results from MaxPages on is as good as MaxPages (CountBound).
FetchBound == 2
CountBound == MaxPages

MinOf(a, b) == IF a <= b THEN a ELSE b

Entry == [url: Urls, depth: Nat, rel: Nat]
Kinds == {"sitemap", "llms", "seed", "internal", "external"}
Item == [url: Urls, kind: Kinds]

Seed == Seeds[seedIdx]
NodeState == {"absent", "known", "crawled"}
Normals == {Normal[u] : u \in Urls}

Init ==
    /\ web \in Webs
    /\ store \in Graphs
    /\ saved = NoTx
    /\ lost = {}
    /\ queue = [d \in Domains |-> {}]
    /\ seen = [d \in Domains |-> {}]
    /\ policy = [d \in Domains |-> "unknown"]
    /\ phase = "nextSeed"
    /\ seedIdx = 0
    /\ todo = {}
    /\ scope = Normals
    /\ depthLimit = MaxDepth
    /\ cur = NoEntry
    /\ count = 0
    /\ got = {}
    /\ contents = {}
    /\ remaining = MaxPages
    /\ fetches = [u \in Urls |-> 0]

-----------------------------------------------------------------------------
(* The graph store *)

Nodes == {u \in Urls : store[u] # "absent"}

\* get_url() takes a failure for a node that is missing.
ReadsCrawled(u) ==
    {store[u] = "crawled"} \cup (IF u \in Frail THEN {FALSE} ELSE {})

\* Which of the nodes to write are written: a write that fails is logged only.
Outcomes(nodes) == {nodes \ failed : failed \in SUBSET (nodes \cap Frail)}

\* The nodes that are missing though writing them was tried.
StillMissing(nodes) == {u \in lost \cup nodes : store'[u] = "absent"}

-----------------------------------------------------------------------------
(* Starting a seed *)

\* What exploring a site yields: its rules, its sitemap, its llms.txt.
Explored(d) == RespectRobots /\ d \notin web.down
SitemapOf(d) == IF Explored(d) THEN web.sitemap[d] ELSE {}
LlmsOf(d) == IF Explored(d) THEN web.llms[d] ELSE {}

\* The deepest mapped path, clamped to 1..20.
MappedDepth(map) ==
    1 + Cardinality({n \in 2..20 : \E u \in map : PathDepth[u] >= n})

\* in_scope compares normalized URLs.
ScopeOf(map) == {Normal[u] : u \in map}

\* Explore the site, derive depth and scope from its map, note its robots.txt,
\* record the seed unless it is a crawled page, and list what is to be queued.
StartSeed ==
    /\ phase = "nextSeed"
    /\ seedIdx < Len(Seeds)
    /\ remaining > 0
    /\ LET s == Seeds[seedIdx + 1]
           d == DomainOf[s]
           map == SitemapOf(d) \cup LlmsOf(d)
           mapped == AutoDepth /\ map # {}
       IN /\ policy' = [policy EXCEPT ![d] = IF Explored(d) THEN "rules" ELSE "open"]
          /\ scope' = IF mapped THEN ScopeOf(map) ELSE Normals
          /\ depthLimit' = IF mapped THEN MappedDepth(map) ELSE MaxDepth
          /\ \E crawled \in ReadsCrawled(s) :
             \E put \in Outcomes(IF crawled THEN {} ELSE {s}) :
                /\ store' = [store EXCEPT ![s] = IF s \in put THEN "known" ELSE @]
                /\ todo' = [url: SitemapOf(d), kind: {"sitemap"}]
                           \cup [url: LlmsOf(d), kind: {"llms"}]
                           \cup (IF crawled THEN {}
                                 ELSE {[url |-> s, kind |-> "seed"]})
          /\ lost' = StillMissing({s})
    /\ seedIdx' = seedIdx + 1
    /\ phase' = "map"
    /\ count' = 0
    /\ got' = {}
    /\ UNCHANGED <<web, saved, queue, seen, cur, contents, remaining, fetches>>

-----------------------------------------------------------------------------
(* Discovering URLs *)

\* Whose frontier a discovered URL goes to: map entries go to the seed's,
\* whatever their own domain is.
Key(item) ==
    CASE item.kind \in {"sitemap", "llms", "seed"} -> DomainOf[Seed]
      [] item.kind = "internal" -> DomainOf[cur.url]
      [] item.kind = "external" -> DomainOf[item.url]

DepthOf(item) ==
    CASE item.kind \in {"sitemap", "llms"} -> IF AutoDepth THEN PathDepth[item.url] ELSE 1
      [] item.kind = "seed" -> 0
      [] item.kind \in {"internal", "external"} -> cur.depth + 1

\* In hundredths: llms.txt entries are raised to 0.9, external links scaled by
\* 0.3.
RelOf(item) ==
    CASE item.kind = "llms" -> IF Rel[item.url] > 9 THEN 100 ELSE 90
      [] item.kind = "external" -> 3 * Rel[item.url]
      [] OTHER -> 10 * Rel[item.url]

IsLink(item) == item.kind \in {"internal", "external"}

\* Eligible without the scope (mutant).
EligibleAnywhere(item) ==
    IsLink(item) =>
        /\ DepthOf(item) <= depthLimit
        /\ item.kind = "external" => DomainOf[item.url] # DomainOf[cur.url]

\* Links are followed within the scope and the depth; map entries and the seed
\* are queued whatever their depth.
Eligible(item) ==
    IsLink(item) =>
        /\ Normal[item.url] \in scope
        /\ DepthOf(item) <= depthLimit
        /\ item.kind = "external" => DomainOf[item.url] # DomainOf[cur.url]

\* robots.txt as far as the crawler knows it: that of the frontier's domain.
Allowed(d, u) == policy[d] = "rules" => u \notin web.forbids[d]

\* Enqueues without robots.txt, and with what is queued in place of what was ever
\* queued (mutants).
EnqueuesUnasked(item) ==
    /\ Eligible(item)
    /\ item.url \notin seen[Key(item)]
    /\ Cardinality(seen[Key(item)]) < MaxPages

EnqueuesAgain(item) ==
    /\ Eligible(item)
    /\ Allowed(Key(item), item.url)
    /\ \A e \in queue[Key(item)] : e.url # item.url
    /\ Cardinality(seen[Key(item)]) < MaxPages

\* enqueue_url() accepts a URL once, while the domain has room.
Enqueues(item) ==
    /\ Eligible(item)
    /\ Allowed(Key(item), item.url)
    /\ item.url \notin seen[Key(item)]
    /\ Cardinality(seen[Key(item)]) < MaxPages

\* What is left to discover is taken in the order of the code: the sitemap,
\* then llms.txt, then the seed; internal links, then external ones.
Before(kind) ==
    CASE kind = "llms" -> {"sitemap"}
      [] kind = "seed" -> {"sitemap", "llms"}
      [] kind = "external" -> {"internal"}
      [] OTHER -> {}

\* Nodes of the links only (mutant).
RewritesLinks(item) == IF IsLink(item) /\ Enqueues(item) THEN {item.url} ELSE {}

\* The node record_url() writes, as not crawled, whatever it was: that of a map
\* entry, and that of a link that was queued.  The seed's was written already.
Rewrites(item) ==
    IF item.kind \in {"sitemap", "llms"} \/ (IsLink(item) /\ Enqueues(item))
    THEN {item.url} ELSE {}

\* The nodes record_link() adds if they are missing.
Endpoints(item) == IF IsLink(item) THEN {cur.url, item.url} ELSE {}

Discover(item) ==
    /\ phase \in {"map", "links"}
    /\ item \in todo
    /\ \A other \in todo : other.kind \notin Before(item.kind)
    /\ todo' = todo \ {item}
    /\ IF Enqueues(item)
       THEN /\ queue' = [queue EXCEPT ![Key(item)] = @ \cup
                   {[url |-> item.url, depth |-> DepthOf(item), rel |-> RelOf(item)]}]
            /\ seen' = [seen EXCEPT ![Key(item)] = @ \cup {item.url}]
       ELSE UNCHANGED <<queue, seen>>
    /\ \E put \in Outcomes(Rewrites(item)), added \in Outcomes(Endpoints(item)) :
          store' = [u \in Urls |->
              IF u \in put \/ (u \in added /\ store[u] = "absent") THEN "known"
              ELSE store[u]]
    /\ lost' = StillMissing(Rewrites(item) \cup Endpoints(item))
    /\ UNCHANGED <<web, saved, policy, phase, cur, count, got, crawlVars, fetches>>

\* The map is in the frontier; the fetch loop begins.
MapDone ==
    /\ phase = "map"
    /\ todo = {}
    /\ phase' = "loop"
    /\ UNCHANGED <<web, store, txVars, queue, seen, policy, todo, cur, count, got,
                   crawlVars, fetches>>

-----------------------------------------------------------------------------
(* The fetch loop *)

Frontier == UNION {queue[d] : d \in Domains}

\* The budget of this seed, which shallow URLs do not count against.
MayFetch ==
    \/ count < remaining
    \/ \E e \in Frontier : e.depth <= MinDepth

\* max_by() with its arguments reversed: the least relevant entry, and of
\* these the shallowest.
Best ==
    {e \in Frontier : \A f \in Frontier :
        e.rel < f.rel \/ (e.rel = f.rel /\ e.depth <= f.depth)}

Select ==
    /\ phase = "loop"
    /\ MayFetch
    /\ cur' \in Best
    /\ phase' = "selected"
    /\ UNCHANGED <<web, store, txVars, queue, seen, policy, todo, count, got, crawlVars,
                   fetches>>

\* What the crawl of a seed leaves of the budget: a saturating subtraction.
Left(used) == IF used > remaining THEN 0 ELSE remaining - used

\* The crawl of this seed is over; its new results count against the budget.
EndSeed ==
    /\ phase = "loop"
    /\ ~MayFetch \/ Frontier = {}
    /\ contents' = contents \cup got
    /\ remaining' = Left(Cardinality(got \ contents))
    /\ phase' = "nextSeed"
    /\ cur' = NoEntry
    /\ UNCHANGED <<web, store, txVars, queue, seen, policy, todo, count, got, seedIdx,
                   scope, depthLimit, fetches>>

\* The entry is looked for in the frontier of its own domain.
Dequeued(u) ==
    [queue EXCEPT ![DomainOf[u]] = {e \in @ : e.url # u}]

\* Skip that leaves the page in the frontier (mutant).
SkipInPlace ==
    /\ phase = "selected"
    /\ store[cur.url] = "crawled"
    /\ phase' = "loop"
    /\ UNCHANGED <<web, store, txVars, queue, seen, policy, todo, cur, count, got,
                   crawlVars, fetches>>

\* A page the graph knows as crawled is not fetched again.
Skip ==
    /\ phase = "selected"
    /\ store[cur.url] = "crawled"
    /\ queue' = Dequeued(cur.url)
    /\ phase' = "loop"
    /\ UNCHANGED <<web, store, txVars, seen, policy, todo, cur, count, got, crawlVars,
                   fetches>>

\* The links of a fetched page that will be looked at.
LinkItems(u) ==
    [url: {l \in web.links[u] : DomainOf[l] = web.lands[u]}, kind: {"internal"}]
    \cup IF web.follow
         THEN [url: {l \in web.links[u] : DomainOf[l] # web.lands[u]},
               kind: {"external"}]
         ELSE {}

\* Dequeue and fetch: a page and its links, or an error that is only logged.
Fetch ==
    /\ phase = "selected"
    /\ FALSE \in ReadsCrawled(cur.url)
    /\ queue' = Dequeued(cur.url)
    /\ fetches' = [fetches EXCEPT ![cur.url] = MinOf(@ + 1, FetchBound)]
    /\ \/ /\ todo' = LinkItems(cur.url)
          /\ phase' = "links"
       \/ /\ cur.url \in Flaky
          /\ phase' = "loop"
          /\ UNCHANGED todo
    /\ UNCHANGED <<web, store, txVars, seen, policy, cur, count, got, crawlVars>>

\* The session or the fetcher cannot be built: the whole request fails.
Abort ==
    /\ phase = "selected"
    /\ FALSE \in ReadsCrawled(cur.url)
    /\ SetupMayFail
    /\ phase' = "failed"
    /\ UNCHANGED <<web, store, txVars, queue, seen, policy, todo, cur, count, got,
                   crawlVars, fetches>>

\* All links are discovered: mark_url_crawled(), which reads the node and writes
\* it, hand the page to the background worker and add it to the results.
Finish ==
    /\ phase = "links"
    /\ todo = {}
    /\ \E put \in Outcomes({cur.url} \cap Nodes) :
          store' = [store EXCEPT ![cur.url] = IF cur.url \in put THEN "crawled" ELSE @]
    /\ count' = MinOf(count + 1, CountBound)
    /\ got' = got \cup {cur.url}
    /\ phase' = "loop"
    /\ UNCHANGED <<web, txVars, queue, seen, policy, todo, cur, crawlVars, fetches>>

\* No seed or no budget is left.
EndRequest ==
    /\ phase = "nextSeed"
    /\ seedIdx = Len(Seeds) \/ remaining = 0
    /\ phase' = "done"
    /\ UNCHANGED <<web, store, txVars, queue, seen, policy, todo, cur, count, got,
                   crawlVars, fetches>>

-----------------------------------------------------------------------------
(* Beside the crawl *)

crawlerVars == <<web, queue, seen, policy, phase, todo, cur, count, got, crawlVars,
                 fetches>>

\* The background worker opens a transaction on the crawl's own connection.
Begin ==
    /\ WorkerMayFail
    /\ saved = NoTx
    /\ saved' = store
    /\ UNCHANGED <<store, lost, crawlerVars>>

\* A page's node is marked crawled: by the worker, which stores a page it was
\* handed, or by another crawl on the same store.
Promote(u) ==
    /\ store[u] = "known"
    /\ store' = [store EXCEPT ![u] = "crawled"]
    /\ UNCHANGED <<txVars, crawlerVars>>

Commit ==
    /\ saved # NoTx
    /\ saved' = NoTx
    /\ UNCHANGED <<store, lost, crawlerVars>>

\* The transaction fails: what the crawl wrote since it began is undone with it.
Rollback ==
    /\ saved # NoTx
    /\ store' = saved
    /\ saved' = NoTx
    /\ lost' = StillMissing(Nodes)
    /\ UNCHANGED crawlerVars

Terminated == phase \in {"done", "failed"} /\ UNCHANGED vars

Crawl ==
    \/ StartSeed
    \/ \E item \in todo : Discover(item)
    \/ MapDone \/ Select \/ EndSeed \/ Skip \/ Fetch \/ Abort \/ Finish
    \/ EndRequest

Next ==
    \/ Crawl
    \/ Begin \/ Commit \/ Rollback
    \/ \E u \in Urls : Promote(u)
    \/ Terminated

Spec == Init /\ [][Next]_vars

\* The runtime runs the tasks on: every fetch ends, with a page or an error.
FairSpec == Spec /\ WF_vars(Crawl)

-----------------------------------------------------------------------------
(* Properties *)

TypeOK ==
    /\ web \in Webs
    /\ store \in [Urls -> NodeState]
    /\ saved \in [Urls -> NodeState] \cup {NoTx}
    /\ lost \subseteq Urls
    /\ queue \in [Domains -> SUBSET Entry]
    /\ seen \in [Domains -> SUBSET Urls]
    /\ policy \in [Domains -> {"unknown", "open", "rules"}]
    /\ phase \in {"nextSeed", "map", "loop", "selected", "links", "done", "failed"}
    /\ seedIdx \in 0..Len(Seeds)
    /\ todo \subseteq Item
    /\ scope \subseteq Normals
    /\ depthLimit \in Nat
    /\ cur \in Entry \cup {NoEntry}
    /\ count \in 0..CountBound
    /\ got \subseteq Urls
    /\ contents \subseteq Urls
    /\ remaining \in 0..MaxPages
    /\ fetches \in [Urls -> 0..FetchBound]

\* Every site maps its own pages only, and its pages land on itself.
OwnHosts ==
    /\ \A d \in Domains : \A u \in web.sitemap[d] \cup web.llms[d] : DomainOf[u] = d
    /\ web.lands = DomainOf

\* max_pages bounds what the frontier of a domain ever takes in, over all the
\* seeds and whatever the pages link to (bulk_crawler.rs enqueue_url()).
SeenBounded == \A d \in Domains : Cardinality(seen[d]) <= MaxPages

\* If sites map their own hosts, no page is fetched twice in a request, though
\* a page may be mapped, linked from many pages and be a seed, and though
\* recording a URL again forgets that it is crawled.
FetchedOnce == OwnHosts => \A u \in Urls : fetches[u] <= 1

\* If sites map their own hosts and external links are not followed, nothing is
\* fetched that the robots.txt of its own domain disallows.
RobotsObeyed ==
    OwnHosts /\ RespectRobots /\ ~web.follow =>
        \A u \in Urls : fetches[u] > 0 /\ DomainOf[u] \notin web.down =>
            u \notin web.forbids[DomainOf[u]]

\* What the map of a seed's site lists, and that the request takes its scope
\* from such a map whatever the seed.
MapOf(s) == web.sitemap[DomainOf[s]] \cup web.llms[DomainOf[s]]
AllMapped ==
    /\ AutoDepth /\ RespectRobots
    /\ \A i \in 1..Len(Seeds) : MapOf(Seeds[i]) # {} /\ DomainOf[Seeds[i]] \notin web.down

\* A seed, or the same page as one that the map of a seed's site lists.
OnSurface(u) ==
    \E i \in 1..Len(Seeds) :
        u = Seeds[i] \/ \E v \in MapOf(Seeds[i]) : Normal[u] = Normal[v]

\* With auto depth, link-following never leaves the maps of the seeds' sites
\* (bulk_crawler.rs:578 "link-following stays inside the declared content
\* surface"), unless some seed's site has no map: what is fetched is a seed or,
\* once normalized, the same as a mapped page.
ScopeKept == AllMapped => \A u \in Urls : fetches[u] > 0 => OnSurface(u)

\* A page of the results is a node of the graph, unless the graph failed: the
\* last write of the node did, or it was undone with the worker's transaction.
\* So the crawl itself forgets no page, however it came by it.
ResultsRecorded ==
    \A u \in got \cup contents : store[u] = "absent" => u \in lost

\* If sites map their own hosts, the request comes to an end.
Terminates == OwnHosts => <>(phase \in {"done", "failed"})

-----------------------------------------------------------------------------
(* What the documentation says and the code does not do *)

\* bulk_crawler.rs:894 "instead of re-selecting the top entry forever": the
\* crawl ends whatever the sites' maps list.
AlwaysTerminates == <>(phase \in {"done", "failed"})

\* bulk_crawler.rs:578 "link-following stays inside the declared content
\* surface": what is fetched is a seed or listed.  normalize_url() takes another
\* spelling of a listed URL for the same page, paths in another case included.
ListedOnly ==
    AllMapped => \A u \in Urls : fetches[u] > 0 =>
        \E i \in 1..Len(Seeds) : u \in {Seeds[i]} \cup MapOf(Seeds[i])

\* bulk_crawler.rs:463: the highest-relevance URL is picked.
HighestRelevanceFirst ==
    [][cur' # cur /\ cur' # NoEntry => \A e \in Frontier : e.rel <= cur'.rel]_vars

\* research_service.rs:217 "`--max-pages N` means N pages total".
BudgetKept == Cardinality(contents) <= MaxPages
=============================================================================
