# webfind: specifications, model checks and proofs

TLA+ models of the concurrent and stateful core of webfind (`src/src/`): what
crawls pages, what persists them, what happens to them in the graph database
afterwards, the indexes and searches that read it, and the commands around
them. The modules are translated from the code; line numbers below and in
`PROJECT.json` are those of the repository. Paths are relative to `src/src/`.

- [The system](#the-system): components, state, interactions, what is hard
- [The modules](#the-modules): how each corresponds to the code
- [The runs](#the-runs): what each checks, its bounds, the fairness assumed
- [The proofs](#the-proofs): what holds for all values of the constants
- [What the models show of the code](#what-the-models-show-of-the-code)
- [Not modelled](#not-modelled) and [the plan](#the-plan)

## The system

| Component | State it keeps | Operations | What makes it correct |
|---|---|---|---|
| Research service (`engine/research_service.rs`) | results of a request, remaining page budget | validate and crawl each seed in turn, close the worker, filter | the budget holds for the request; every crawled page is persisted before it answers |
| Bulk domain crawler (`engine/bulk_crawler.rs`) | per domain: frontier, URLs ever queued, robots.txt, session, back-off; active requests | explore, queue map entries, select, fetch, discover links, record | it ends; no page twice; nothing disallowed, out of scope or over the frontier's cap |
| Site policy (`engine/site_policy.rs`) | none beyond what it returns | fetch and parse robots.txt, sitemap, llms.txt | rules of a host govern URLs of that host |
| Background worker (`engine/bg_worker.rs`) | bounded channel, its sender, the consumer task | `persist`, `close`, `process_job` | what is let in is processed exactly once and in order; `close` drains; job rows tell the truth |
| Graph store (`storage/turso_store/`) | `url_nodes`, `link_edges`, `page_content`, `crawl_jobs`, `graph_meta` | `record_url`, `record_link`, `record_page_content`, `record_embedding`, queue operations, eviction | content never changes without its version; transactions are atomic on a shared connection |
| Derived indexes (`turso_store/search.rs`, `graph.rs`) | `urls_fts`, `pagerank`, the versions they claim | `rebuild_fts`, `compute_pagerank` | an index that claims the graph's version is current |
| Search of the store (`commands/search.rs`, `turso_store/search.rs`) | the lists each query has read | bring indexes up to date, match, compare embeddings, boost, fuse queries | what matches is found; every page comes once |
| Graph algorithms (`engine/crawl_graph.rs`) | none | PageRank, incremental PageRank, traversal | incremental agrees with full; traversal is breadth-first and bounded |
| Live search (`engine/web_index.rs`) | engines, breaker and cache state | query engines in parallel with a deadline, fuse ranks | answers at quorum or deadline; fusion keeps the best |
| Live ingestion (`engine/live_ingest.rs`) | none | record hits as nodes, queue jobs | never loses what the worker recorded |
| Curation daemon (`engine/curation_daemon.rs`) | stop flag, interval | sweep stale sources, re-crawl | stops when told, sweeps forever otherwise |
| Rotating client (`engine/human_client.rs`, `proxy_pool.rs`, `device_profile.rs`, `fingerprint.rs`) | health of proxies and of generated identities, session of each domain | pick, send, report, cool down, check | what was refused stays out; who is reported is who was used |
| Migration (`storage/migrate.rs`) | source and target databases | copy rows in batches, verify | repeating it changes nothing; interrupting it loses nothing |

The rest (extraction, ranking, rendering, command line) converts data and keeps
no state that outlives a call; `PROJECT.json` lists every part.

**How they interact.** `execute_research()` runs one `BulkDomainCrawler` over
all its seeds. The crawler writes URLs and links to the store itself and, for
each fetched page, spawns a task that calls `BackgroundWorker::persist()`. One
consumer task takes pages off the channel and stores text, embedding and job
status. Crawl loop and consumer share one store and so one SQLite connection:
a statement of the loop that runs while the consumer's transaction is open
belongs to that transaction. A search is another process with its own
connection; it compares `graph_version` with the versions its two indexes claim
and rebuilds those that differ.

**What is hard.** Tasks that nobody joins race `close()`. The frontier is keyed
by domains, and maps and redirects cross them. `record_url()` overwrites the
flag that keeps a page from being fetched again, and a live search does so from
a copy that may be stale. Two connections, statements outside transactions, and
version tokens read apart from what they describe make stale indexes possible.
Each operation of `process_job()` can fail alone. A crash falls between the mark
of a page and its text, between an index and the cache that remembers it, and
between the writes of an import. The engines of a live search answer in any
order, or not at all, and the waits of one domain are the delays of another.
`PROJECT.json` lists each hazard at its line, with the properties about it.

## The modules

```
PersistService      what the worker promises      <-- implemented by
PersistWorker       channel, spawned tasks, consumer, close()
BulkCrawler         the seed loop of a request and the crawl of each seed
DomainSessions      when the crawler asks a domain, and under which identity
DerivedIndex        graph rows and version, crawl connection, searches
PageLifecycle       requests, daemon, workers, live searches over one database
RankedLists         sort, filter and take (operators)
RankFusion          fusion of ranked lists (operators)   <-- extends RankedLists
HitGroups           aggregation of fused hits (operators) <-- extends RankFusion
LiveSearch          engines, passes, deadline, merge     <-- extends HitGroups
SeedDiscovery       seeds of a request that has none     <-- extends LiveSearch
HybridSearch        queries of a request over the store  <-- extends RankFusion
HumanClient         proxies, sessions and identities of the client
CachedCrawl         `webfind crawl`: spider, channel, batches, cache file
Migration           `webfind migrate`: import, abort, repeat
GraphWalks          traversal, recursive query, paths
MC*                 values of the constants for TLC
*Proofs             theorems of each module; SessionsProofs is about
                    DomainSessions and HumanClient, StoreProofs about
                    DerivedIndex and Migration, SearchProofs about
                    LiveSearch, SeedDiscovery and HybridSearch
```

The models meet where the components do. `BulkCrawler`'s `Promote` is the
effect on a node of `PersistWorker`'s `RecordContent`. `PersistWorker`'s `Spawn`
is what `BulkCrawler`'s `Finish` does with its page, and its `RecordContent` is
the transaction `DerivedIndex` splits into `Begin`, `WriteText` and `Commit`.
`PageLifecycle` composes all of them with the daemon and live ingestion, each in
fewer steps, for questions about several processes and their restarts.
`HybridSearch` goes on where `DerivedIndex` stops: what a search reads from the
indexes it has refreshed. It takes the crawl's writes one row at a time, for
how they interleave within the worker's transaction is `DerivedIndex`'s matter.

### PersistWorker (`engine/bg_worker.rs`, `bulk_crawler.rs:644-657`)

| State | Code |
|---|---|
| `task` | each spawned `persist()`: not yet run, holding a clone of the sender and awaiting a slot, refused, in the channel, in process, handled |
| `senderOpen` | the `Mutex<Option<Sender>>` still holds the sender |
| `queue` | the mpsc buffer, at most `Capacity` long |
| `pc`, `current`, `knownId` | the consumer between two awaits of `process_job()` |
| `jobs`, `owner`, `embedded` | status of each `crawl_jobs` row; URL of each `page_content` row, keyed by the hash of the text; nodes with an embedding |
| `closer` | the crawl, then `close()` |

Each await of `process_job()` is an action, with one disjunct per outcome:
`EnqueueJob`, `MarkProcessing`, `Gate` (duplicate and quality gates),
`RecordContent`, `Embed`, `Finish`, `Fail`. `Faults` says for each URL which of
its operations may fail, so that the properties can say that the failures of one
page are not felt by another. `FindDuplicate` is the trait's default, which
returns nothing, because the worker calls the store through the trait. `Exit` is
`recv()` returning `None`: an empty buffer and no sender left, clones included.

`PersistService` states the promise without channel, job steps or faults: pages
let in wait, get in line, are processed one at a time, and `close()` returns
when nobody waits and the line is empty. The mapping takes the calls that hold
a clone as `waiting`, and the page in process followed by the buffer as `line`.

### BulkCrawler (`engine/bulk_crawler.rs:317-694`, `research_service.rs:216-249`)

The crawler is one task, so its model is sequential but for what shares its
store. The web (links, redirects, maps, robots.txt, the sites that are down, and
whether external links are followed) is a record chosen initially.
`queue` and `seen` are the frontier and the dedup set of each domain and outlive
a seed; `store` is `url_nodes`, which outlives the request and may initially
hold anything. `StartSeed` explores the site and derives depth and scope;
`Discover` takes one URL through `record_url`, robots and scope gates,
`enqueue_url` and `record_link`; `Select`, `Skip`, `Fetch`, `Abort`, `Finish`
are the fetch loop; `EndSeed` and `EndRequest` do the budget.

The scope holds normalized URLs (`Normal`, which is `normalize_url()`: no
fragment, no trailing slash, all in lower case), while the dedup set compares
URLs as they are, so that another spelling of a mapped page is in scope and is a
page of its own. Writes are best-effort: `record_url()` and `record_link()` log a
failure and go on, and `get_url()` takes one for a node that is missing; `Frail`
are the URLs for which they may fail (`Outcomes`, `ReadsCrawled`), and the URL is
queued all the same. The worker's transaction is on the crawl's connection:
`Begin`, `Commit`, and `Rollback`, which undoes what the loop wrote since
(`saved` is the store before). `lost` is history: the nodes that are missing
though writing them was tried, by a failure or a rollback. `Finish` takes the read
and the write of `mark_url_crawled()` as one step.

`Key` and `Dequeued` keep the two domains an entry goes by apart: it is queued
under the domain of the seed or of the linking page, and dequeued from its own.
`Best` keeps the reversed comparison of `max_by()`. Relevance is a constant of
a URL in tenths, for only the order of scores matters. Waiting for a slot,
sessions and back-off decide when a page is fetched and not which.

### DerivedIndex (`storage/turso_store/`, `commands/search.rs:862-876`)

| State | Code |
|---|---|
| `graph` | committed rows: URL of each text, and whether it is still in full; nodes, links, `graph_version` |
| `tx` | the same rows as the crawl connection's open transaction sees them |
| `crawler`, `worker` | where `record_url`/`record_link` and the worker's transaction stand |
| `fts`, `ftsVersion` | how often `urls_fts` has each (text, URL); `fts_version` |
| `ranks`, `rankVersion` | scores, as the links each counts; `pagerank_version` |
| `pc`, `mem` | each search process and what it has read |
| `suspect`, `intact` | history, see `ClaimHolds` |

`Put` is a statement on the shared connection: it goes into the open
transaction if there is one. `Rollback` undoes what the crawl loop wrote in the
meantime, as SQLite does. A search goes through `ReadVersion`, `CheckFts`, the
statements of `rebuild_fts()` (`ClearFts`, `SelectTexts`, `InsertRow`...,
`ReadStamp`, `StampFts`, each committing by itself), then `CheckRank`, the three
reads of `compute_pagerank()` and its one write transaction. Reads that fail are
not errors in this code: a version becomes 1 or 0 (`Misread`), a list of rows
ends early (`Read`). `Affected` and `Recompute` are the algorithms of
`engine/crawl_graph.rs`, up to five links upstream; a score stands for the links
it counts, since damping and iteration change numbers and not which links count.
`Evict` strips a text and keeps its row, as `evict_full_content()` does, and leaves the
index to the next rebuild. The process may be killed at any point (`Crash`, `Fail`).

### PageLifecycle (`research_service.rs`, `curation_daemon.rs`, `bg_worker.rs`, `live_ingest.rs`, `crud.rs`)

`node`, `text`, `owner` and `job` are `url_nodes`, `page_content` and
`crawl_jobs`: the database, the one thing a restart leaves. A text has one row,
keyed by its hash; a page with the same text takes the row over (`Store`, and
`owner` is then the later page). `phase`, `todo`, `queue`, `seen`, `page` are the
crawl of each process, `waiting`, `at`, `stored` its worker, `due` the daemon's
table of sources, `hit` and `snap` what a live search has read of a node before it
writes it back. `Record` writes a node anew, as `record_url()` does, or fails to;
`Choose` removes an entry from the frontier of the URL's own host only, so that one
queued under another host stays; `Finish` is `mark_url_crawled()` and `HandOver`
the spawned task, so a crash between the two, or between the hand-over and
`Store`, is possible (`Exit`). `Refuse` is a `persist()` after `close()`. `Abort`
is the early return on an error, after which a request does not close its worker
and the daemon still marks the source (`Swept`). `dropped` records what a fault
took; `CrawledAccounted` says that nothing else may.

What is left out or open: a page has one text for good (`TextOf`); whether the
frontier accepts a URL is up to robots.txt, scope, depth and cap, which
`BulkCrawler` has, and open here; there are no redirects; a text may be stored
for a node that is missing, as foreign keys may be off. `Store` is one step:
`DerivedIndex` splits the transaction, and `BulkCrawler` has what its rollback does
to the crawl. The gate against near-duplicates never rejects a page
(`PersistWorker!FindDuplicate`), so `Reject` is the quality gate.

### DomainSessions (`bulk_crawler.rs:88-138, 504-568, 696-819`)

One task asks one domain at a time. `Pick` is `wait_for_slot()`: a back-off that
still runs is slept out *in place of* the delay. `Request` takes the session of
the domain or builds one, `Answer` counts it and retires the session when it
failed or is spent (`rotate_session`), `Fail` sets the back-off
(`apply_backoff`). A session has an id of its own, an age, a count and a device
fingerprint; the fingerprint is that of the domain (`FingerprintFor`), for the
`SessionManager` the crawler asks is sticky and hands a rotated session the
profile of the first. The proxy is drawn anew with each session and left out, for
the same one may be drawn. Time is an integer, and between any two steps any time
may pass. `used`, `burned` and `exposed` are history: which session made each
request, which of them failed one, and which fingerprints those showed.

### CachedCrawl (`crawler.rs`, `storage/cache_store.rs`)

The spider, an external crate, publishes into a broadcast channel that
overwrites its oldest page; the loop takes pages, filters them, indexes a full
batch and then inserts an entry into the cache for each. An insertion rewrites
the whole file: `Truncate`, one `WriteLine` per entry, `Written`. `Crash` keeps
the lines that are out; `WriteFails` may leave half of one, after which `Open`
fails for good. `indexed` and `lost` are history.

### RankFusion, HitGroups, LiveSearch and SeedDiscovery (`engine/web_index.rs`, `web_index/client.rs`, `web_index/rrf.rs`, `commands/search.rs:383-720`, `engine/discovery.rs`)

The pure part is in three modules: `RankedLists` (`InOrder` for every sort,
`At` for every filter), `RankFusion` (`Fuse`, reciprocal ranks in exact
integers, and `FuseIndexAndLive`) and `HitGroups` (`Aggregations`, groups by host
and section; a set, for which section a homepage joins is up to a map's order).
`LiveSearch` has the
fan-out: each engine asks, pauses after a refusal and asks again, or reports;
`Report` is the only place where the early exit is looked at, as in the code,
and `Deadline` drops the rest. A pass without hits is repeated with a shorter
query (`NextPass`). `Merge` is `merge_live_results()` with its gates, `Fallback`
the branch without live hits, which has none of them. A gate judges the hit that
fusion keeps for a page, the first the store has (`Candidate`); the row that is
returned is the store's last of that page (`Result`). `SeedDiscovery` is the
other caller of the fan-out: `DiscoverLive` takes seeds from the first pass, or
`DiscoveryTimesOut` none, and `DiscoverOffline` fills up with what catalog, index
and graph have, in whatever order their maps give equals. `discovery` holds the
seeds and what they were chosen from.

### HybridSearch (`commands/search.rs:775-880, 1035-1160`, `turso_store/search.rs`)

| State | Code |
|---|---|
| `content`, `embedded`, `version` | `page_content`, nodes with an embedding, `graph_version` |
| `fts`, `ftsVersion`, `ranked`, `rankVersion` | the two derived indexes and their stamps |
| `asked` | the queries of the request, as `AllQueries` leaves them |
| `pc`, `seen`, `rows`, `lists`, `answer` | where each query's search stands and what it has read |
| `response` | the results of the request, or its failure |
| `kept`, `disturbed`, `intact` | history, see `MatchesFound` |

The searches of a request run side by side on connections of their own, and begin
with whatever index an earlier search left: whole, in part, stamped or not. A
version that cannot be read is taken for 1 or 0 (`Misread`). The graph is at version
2 or later, as a graph of which something was recorded is. `disturbed` are the
searches that misread the version, trusted an index that was not right or being
rebuilt, or were cleared under after they began to insert; `intact` says that the
index, or what is being made of it, is right: it was when the request began or has
been cleared since, and no text was stored while a search had read the texts and
not yet the version to stamp.
`ReadVersion` to `CheckRank` bring the indexes up to date; `MatchTexts`,
`CompareEmbeddings`, `ReadCentral` and `Answer` are the four statements of
`hybrid_search()`, between any two of which the crawl may write (`StoreText`,
`Embed`, `Touch`) and another search may rebuild. `Score` is the sum of
reciprocal ranks and boosts in exact integers (exact up to a `Limit` of 4); equals
come in any order, as from a hash map. Lists that SQL or `sort_by()` orders have
their equals in the order of the tables, which `Rowid` and `Before` stand for.
`Respond` fuses the answers of several queries with the operators of
`RankFusion` under `canonical_url()`, and shows each page as the first response
has it (`Shown`); `Fail` is `try_join_all()`, which drops the other searches. Its
names avoid those of `LiveSearch` and `SeedDiscovery`, for `SearchProofs` is about
all three (`HybridInit`, `HybridNext`, `HybridSpec`, and `HitLists`, `Wanted`,
`SeedCandidates` in the others).

### HumanClient (`engine/human_client.rs`, `proxy_pool.rs`, `device_profile.rs`, `fingerprint.rs`)

| State | Code |
|---|---|
| `pool`, `strategy`, `health`, `turn` | the endpoints, how they rotate, the health of each, the round-robin counter |
| `siteSessions` | the sticky session of each domain |
| `usedIps`, `record` | `used_ips` of the generator and the `FingerprintHealth` of each address |
| `request` | where the `get()` of each task stands and what it holds |
| `refused`, `shuns` | history: what had been reported as refused, now and when a request began |

Each lock region of `get()` is an action: `Begin` selects a proxy, `LookUpSession`
and `InsertSession` are the two halves of `session_for()`, `ReadWorking` and
`Reuse`, or `Generate`, are `generate_for_tool()`, `GetAnswer` judges the proxy and
`ReportIdentity` the identity. `SendFails` is the early return that reports
neither. `Id` and `Reported` keep apart the id an endpoint has and the URL it is
reported by. Cooldowns end at any time (`CoolDown`), for the clock only decides
when. Its names avoid those of `DomainSessions`, for `SessionsProofs` is about both
(`ClientInit`, `ClientNext`, `ClientSpec`, `Sites`).

### Migration (`storage/migrate.rs`)

The tables of the destination, the position in the export, and what the last
import reported. `MigrateBatch` is one transaction; each `ImportContent`,
`EnqueueJob` and `MarkJob` commits by itself; `Verify` compares counts. `Abort`
is a failed write or a kill between any two of them; `BeginImport` may then run
the same export or another over what is there. Its names avoid those of
`DerivedIndex`, for `StoreProofs` is about both.

### GraphWalks (`engine/crawl_graph.rs`, `turso_store/crawl_graph.rs`, `engine/dep_graph.rs`)

The in-memory store enters a link in two maps, one after the other
(`RecordFrom`, `RecordTo`), while a walk reads them URL by URL (`Expand`, or
`ReadFrom` and `ExpandBoth` in direction both). `Query` is the recursive SQL
query on one state of the links, given by a function on depths, and is what the
walk is compared with. `StepBack` follows scores back from the goal as
`shortest_path()` does, and `StepPanics` is its lookup of a score that is not
there.

## The runs

| Run | Question | Bounds |
|---|---|---|
| `persist` | whatever fails, is anything lost, doubled, reordered or wrongly done, does one page's failure touch another, and does `close()` return? | 4 calls over 3 URLs (one URL twice, one text under two URLs, a thin page), 2 slots, another set of faults for each URL |
| `crawl` | dedup, robots, scope and graph, and does it end? | a site of 2 pages, one under two spellings, and a site of 1; 60 webs (external links followed or not, a site reachable or not, maps and redirects that cross hosts), 4 graphs, 3 seeds (one twice), 2 pages; reads and writes of 2 URLs may fail |
| `index_claims` | can an index pass for current that is not? | 2 searches, 2 texts (which may be evicted), a page with a link to itself, 3 versions, everything may fail |
| `page_writers` | do the writers of a page undo one another's work? | 2 pages with one text, a request, a daemon and a live search at once; statements may fail, for one page also those of the crawl |
| `page_restarts` | does every marked page settle, and every source get its sweep? | a daemon, a source and a thin page of another site, which the source's map may list; 1 further sweep, 1 crash |
| `live_search` | fusion, merge, seeds and termination, whatever the engines do | 3 engines, 3 answers of up to 3 hits (one lists a page under two spellings), 3 orders of the store's hits, 4 URLs in 3 pages, queries of 1 and 4 words, a deadline of 2 ticks, 2 results; 1 seed, 4 and 6 keywords, each offline layer empty or not |
| `cached_crawl` | do cache and index agree past crashes, failed writes and a lagging receiver? | 3 spellings of 2 pages, batches of 2, channel of 1, 2 runs, 1 crash, 3 days |
| `domain_sessions` | is a domain's pace kept, and does no session outlive its use? | 2 domains, 2 fingerprints, sessions of 2 requests or 5 ticks, back-off up to 3, 5 requests, 9 ticks |
| `migration` | what does a reported success mean, after aborted imports too? | 5 exports with collisions, strays, or none; 3 imports |
| `graph_walks` | do traversal, recursive query and paths agree, beside a crawl? | 4 URLs, 3 links, depth 3, 3 directions |
| `hybrid_search` | does a search find what matches, beside a crawl and the other queries of its request, and is every page found in the answer, once? | 2 queries (one alone, or both with a repeated and a blank one), 3 URLs in 2 pages, 2 results; with 1 text any index to begin with, 1 write, failed statements and misread versions; with 2 texts no write, an index that was right, and failed statements (`Focus`) |
| `human_client` | does what was refused stay out, and is the right proxy judged? | 2 tasks, 2 domains, 3 proxies (2 on one host, listed or generated), 2 addresses, 3 strategies, 3 requests, 1 health check of a proxy |

**Why the bounds suffice.** Two slots and four calls give a full channel with
two senders waiting for it, and order within the buffer. A site of two pages and
a site of one give internal and external links in both directions, maps of one
page, of all and of another host's; a second spelling of a page is in the scope of
the first and not in its dedup set; the repeated seed meets a frontier, a dedup
set and nodes left by an earlier one. Two
searches are what a race between rebuilds takes, and two texts give an index
that holds one and lacks the other; a third version lets a rebuild, the crawl
and a second rebuild follow one another. Three writers of one node are what an
overwrite between another's read and write takes, two pages with one text what a
row takes to change hands, and one crash is what a page in memory takes to be lost. Three engines leave one outstanding at the quorum of
two; the 4-word query makes all three passes. With room for one seed, live seeds above
and below the bar meet better and worse ones of each offline layer. Two runs over one file with a
crash in the first, and a page under two spellings, are what the cache's key and
its rewrite can get wrong. Sessions of two requests are retired by use, by age
and by failure within five requests. Three links join a cycle with a way out of
it. One write beside two searches leaves a page stored after one has rebuilt and
before the other has, and every index that a killed search may have left is one to
begin with. Two texts are for the fusion: three URLs for a limit of two make the
limit bite, and two spellings of a page make the fusion meet one page twice. Three requests of two
tasks are what a report that comes late, after a refusal and before a reuse,
takes; two proxies of one host share an id. The bounds themselves are `FetchBound` (a third fetch of a page), `CopyBound`
(a third copy of an index row), `MaxVersion`, `MaxStarts`, `MaxSweeps`,
`MaxCrashes`, `MaxRuns`, `MaxDay`, `GetBound`, `CheckBound`, `TimeBound` and
`MaxLinks`: each only keeps something new from beginning. In `index_claims`
searches and texts are symmetric, in `human_client` tasks; no liveness is
checked there.

**Fairness.** `PersistWorker!FairSpec` assumes weak fairness of the consumer,
of each spawned task and of the end of `close()`: tokio polls every task that is
woken, and a free slot wakes a waiting sender. Nothing obliges the crawl to find
pages or to end. `BulkCrawler!FairSpec` assumes that the crawl goes on, which
holds because every await of the loop ends: fetches have timeouts.
`PageLifecycle` assumes the same of each crawl, worker and daemon, not of
searches, and that a page that is offered a place in the channel again and again
gets it, for senders wait in line (strong fairness of `Take`). `LiveSearch` assumes that time passes and that timers fire; an engine
need never answer, but its request times out. `CachedCrawl` assumes that spider
and loop are scheduled. `DomainSessions`, `Migration`, `GraphWalks`,
`DerivedIndex`, `HybridSearch` and `HumanClient` assume none: whether they
continue is up to their user.

**Deadlock** is checked where the only state that may stop is named (`Terminated`,
`Finished`), and in `index_claims`, whose processes never stop. The other
configurations say `CHECK_DEADLOCK FALSE`: their processes really end, or the
bounds on runs, requests, versions, links and crashes are reached.

**Properties.** Each is explained where it is defined, and each has a mutant of
a mapped definition in `PROJECT.json` that breaks it. `FetchedOnce`,
`FetchedOnce`, `RobotsObeyed`, `Terminates` and `SourcesSwept` assume `OwnHosts`, that no site maps
another host's pages: without it they are false.

## The proofs

Checked by TLAPS for all values of the constants under the `ASSUME` of each
module, which says no more than that constants have their types, that frontiers
draw on finitely many URLs, that a graph, a store and what is offered for seeds
have finitely many, that orders are total, and that null values are not values.

**PersistWorker.** `TypeCorrect`, `AccountedAlways` and `CloseAlwaysDrains` come
from `ChannelInv`, which adds `Shutdown` to the two: the sender is open exactly
while the crawl runs, and the consumer has ended only when the buffer is empty
and no clone is out. Without it `CloseDrains` is not inductive, as nothing ties
`close()`'s return to the clones. `DoneAlwaysJustified` and `NoJobEverLeftOpen`
come from `IInv`, which adds what the job in process has established so far
(`FinishJustified`, `IdKnown`). `HandledAlwaysStored` needs to know where the text
of a page in process is (`StoredInv`), for between `RecordContent` and its end a
later step of the same page may still fail (`FailStored`). `WorkerImplementsService` shows that every step
is a step of `PersistService` or changes nothing its callers see.

**BulkCrawler.** `TypeCorrect` rests on what each phase knows of the selected
entry and the list of discoveries (`Phased`). `SeenAlwaysBounded` adds the
cardinality of one insertion. `NeverFetchedTwice` rests on `FetchInv`: if sites
map their own hosts, every entry and every discovery is under its own domain, a
fetched URL has left the frontier and stays in the dedup set of its domain, so
it cannot come back. `RobotsAlwaysObeyed` strengthens this with the rules known
when an entry was queued. `ResultsAlwaysRecorded` needs that the entries of the
frontier have been tried to be written (`Tried`, `InGraph`): each is a node or is in
`lost`, and stays so whatever a rollback undoes. `ScopeIsKept` rests on `ScopeInv`:
whatever is in a frontier, still to be discovered from a map or in the scope of the
seed is a seed, on a map, or another spelling of such a URL (`OnSurface`), as pages of
all seeds share the frontiers.

**DerivedIndex.** `NeverFutureClaims` and `ContentAlwaysBumpsVersion` come from
`VersionInv`: whatever is remembered of versions is at most the committed one,
and an open transaction with other content is at a later version than the graph.
`ClaimAlwaysSound` comes from `RebuildInv`: searches that index side by side
know of one another (`Beside`); a search alone finds a stamp below the version
it read (`Alone`), so that clearing the index cannot leave a false claim; and a
rebuild that began alone holds, at each of its steps, exactly the rows it should
(`Rebuilding`), those of the texts that are kept in full. The crawl enters these proofs only through `Grows`: versions
grow, and only a commit changes texts.

**PageLifecycle.** `CrawledPagesAccounted` rests on `AccountInv`: what a search
has read as crawled is accounted for still when it is written back
(`ReadsAccounted`), for the row of a text is never removed and passes on only to a
page that has the same text, and what a process loses with its memory is in
`dropped`. `JobsStayTruthful` needs that a
page a worker marks as stored is stored (`InHand`). Both hold for any number of
requests, daemons and searches.

**CachedCrawl.** `CachedWasIndexed` rests on the entries still to be written
being those of the map, and the pages still to be remembered being indexed today.
`NoEarlyRefetch` adds that an indexed page is, until lost, in the file or about
to be, with the day it was indexed on, so that a later run finds it.

**DomainSessions.** `PaceKept` needs that `wake` was the slot when it was
computed and that nothing but this request moves it; `SessionSpared` needs that
the session in hand is as old, as used and as blameless as the history says, and
that no two domains share an id.

**Migration.** `NoDanglingEdges` is inductive once every URL has one row.
`SuccessIsExact` rests on the tables being, at each position of an import that
began clean, images of the part of the export already read; equal cardinalities
then leave no room for a collision.

**HybridSearch.** `MatchesAlwaysFound` holds from any initial index and rests on
`SearchInv`, which follows what a search counts on (`kept`) from its start to its
answer. Until it has matched, all of it is stored (`KeptStored`), for a text that
moves to another URL is no longer counted on. Why a search may trust an index that
others have rebuilt is `IntactIndex`. Once the index has been cleared, what is in it
and what the searches under way still have to insert (`Coming`) are the texts of the
graph if the index claims their version or is about to, and all that a search that
read this version counts on; a text stored while texts are copied ends this
(`intact`), until the next search clears the index. A search that is not excepted
then finds what it counts on in the index, whether it trusted it or rebuilt it
(`OwnIndex`), as nobody clears it, whatever the crawl writes in between. The rest is about
lists: a URL is in the full-text list if the matches fit (`Bm25Matches`), and in the
answer if the candidates do (`HybridsFit`). `FusionAlwaysComplete` rests on
`FusionInv`: by the time there is a response every query has answered, and none
answers anew. That the response leaves no page out is a count: the fused pages are
those of the answers, each once, the limit takes the first of them, and each of
these has a hit to be shown by.

**Lists and sums.** Every proof about a search needs the same few facts about its
operators. `Ranks`: in a strict order of a finite set the elements are told apart by
how many precede them, so that `InOrder` lists each once (`Ordered`), and `At` keeps
the places it is given, in their order (`AtKeeps`). A fold over a set becomes a
function on its subsets that grows by one element at a time (`SumOf`), from which
sums over the union of disjoint groups follow. A list built step by step is a
recursive function, and enters a proof by the equation it solves (`Unfolds`).

**LiveSearch.** `EvidenceAlwaysConserved` and `ResultsAlwaysFit` come from `LiveInv`:
what has been reported, fused and merged so far is well-formed. The first is a sum
over groups: a fused page has the scores of its hits, a group those of its pages,
and each hit is in one group whichever sections homepages join. The second follows
the merge hit by hit: a page is taken once, and what is taken has earned its place
(`Earned`, `Once`); the fill takes only what stands beside it (`Stands`).
What a result was judged by is the page's last hit, or for the fill the row itself
(`Judged`), which is not always what is shown.
`ConsensusAlwaysWins` compares weights (`Agreement`). The weakest engine has half the
weight of the strongest, so of two hits the better ranked is worth at least half as
much as the other (`Worth`): a page with twice as many hits as another has, each ranked
no lower than any of the other's, scores no less, however long the lists are and
however slow the engines. Nothing is said of a page that fewer hits, or worse ranked
ones, speak for: two engines of weight 0.7 that agree on a page at rank 26 are
outweighed by the first hit of a fast one (`AgreementWins` below).

**SeedDiscovery.** `BestSeedAlwaysOffered` rests on `SeedInv` and on `Filling`, which
says at each step of the fill which offers are in, and that the others are no
better: seeds come in falling relevance, so what was left out when the list was
full was below all that was taken. The candidates are those the layers return: the
search of the index cuts its list before it is sorted (`discovery.rs:303-304`), and a
page lost there is none.

**HumanClient.** `BansHold` comes from `BanInv`: in a generated pool a report finds
the endpoint it is about, so what a request was refused through is banned, and
only available endpoints are selected; nothing lifts a ban. `RefusedStayOut` and
`FreshAreDistinct` come from `IdentitiesInv`. `ShunInv`: while a refusal stands, for
new requests or one under way, the record says that the address is discarded,
not working and known, so that both lists a request chooses from leave it out.
`FreshInv`: an address that is shown has worked or is in `usedIps`, and an address that
is drawn is not yet. What a successful report takes back it takes back from all
requests at once, which is why `shuns` is in the invariant and not in the code.

**GraphWalks.** `QueryIsLeast` describes the recursive query by ways in the graph:
its table after `k` rounds holds a URL with a depth exactly if a way of that many
links leads there. A walk is compared with the links at two other times, and
`WalkInv` has one part per side: a URL that has been read leads on to all that it
had links to when the walk began (`ReadComplete`), and each visited URL is a hop
from one of the level before, by the links there are now (`LevelsLinked`).
`LinkedIsWalked` and `WalkedIsLinked` state both of the finished walk hop by hop;
`NothingMissed` and `NothingInvented` follow by induction over the depth, along
the way that the query's row stands for. `NeighborhoodIsQuery` is an induction over the levels of
`neighborhood()`: after `k` of them, visited is what at most `k` links lead to, and
last what no fewer do. `PathsAreShortest` rests on `PathInv`, in which the path so
far leads over links to the goal and its length makes up for how much nearer its
head is to the start; that a distance is below the number of URLs, which the query's
depth must reach, is the pigeonhole of `DistanceShort`.

The induction theorem of the library takes an operator, which the provers cannot
instantiate. These proofs use `Counting` (`ByCounting`) instead: a *set* of numbers that has 0
and each successor has every number, by the least number outside it. A recursive
function over an interval exists by the same induction (`Iterates`).

**Only model-checked.** What lies beyond the prover:
`SentIsHandled`, `CloseTerminates`, `Terminates`, `CrawledSettles`, `SourcesSwept`,
`RunsEnd`, `SearchReturns` (liveness under fairness needs `ENABLED`). No module with
a theorem uses a `RECURSIVE` operator. The type invariants of most modules, and
`SeenBounded`, are proved and not among the checked properties: they only serve the
others.

## What the models show of the code

Claims of a doc, a comment or a test that the code does not keep. Those with a
predicate are stated in the module named; adding the predicate to a
configuration of that module makes TLC show how it fails.

| Claim | Predicate | What happens |
|---|---|---|
| crawled pages are persisted when `close()` returns | `PersistWorker!EveryPagePersisted` | a spawned `persist()` that runs after `close()` took the sender drops its page |
| near-identical pages are rejected | `PersistWorker!DuplicateRejected` | the trait's default finds no duplicate; the later page takes over the row |
| the loop does not select one entry forever | `BulkCrawler!AlwaysTerminates` | an entry queued under another host's frontier is never removed |
| the most relevant URL is fetched first | `BulkCrawler!HighestRelevanceFirst` | the comparison is reversed |
| `--max-pages` bounds a request | `BulkCrawler!BudgetKept` | shallow pages of every seed bypass it |
| "link-following stays inside the declared content surface" (`bulk_crawler.rs:578`) | `BulkCrawler!ListedOnly` | the scope is compared normalized and the fetches are not, so other spellings of a mapped URL, those of its path included, are fetched as well |
| a page's text is promoted onto "the owning node" (`turso_store/crawl_graph.rs:485`) | `PageLifecycle!OwnTextKept` | a page with the same text takes the row over, and the earlier page, done, has none |
| an evicted page keeps its searchable core, the FTS entry included (`crud.rs:49-51`) | `DerivedIndex!EvictedStaysSearchable` | the next rebuild of the index leaves texts out that are not in full (`turso_store/search.rs:58`) |
| the index is as of the version it records | `DerivedIndex!ClaimAlwaysHolds` | a text committed between the two reads is claimed and missing |
| nodes with new incoming links are recomputed | `DerivedIndex!RanksCountLinks` | new pages linked from old ones are not |
| `Crawl-delay` is respected (`bulk_crawler.rs:149`) | `DomainSessions!CrawlDelayKept` | a shorter back-off is waited for in its place |
| the destination is overwritten (`migrate.rs:147`) | `Migration!OverwritesExisting` | a second import appends the edges and reports a mismatch, having changed everything |
| a rotated session does not burn out one identity (`bulk_crawler.rs:88-89`) | `DomainSessions!FingerprintSpared` | the `SessionManager` is sticky and gives the new session the fingerprint that was refused (`device_profile.rs:529-537`) |
| reliability never overrides the agreement of engines (`web_index.rs:279-281`) | `LiveSearch!AgreementWins` | one fast engine's first hit outweighs slow ones that agree on a page further down |
| a result must contain the exact phrase (`commands/search.rs:644-645`) | `LiveSearch!PhraseShown` | what was judged may be another spelling of the page than the row of the store that is returned |
| no noisy page is returned (`search.rs:631-642`) | `LiveSearch!NothingNoisy` | the fill of a short list does not pass the gate |
| a search returns full signals (`commands/search.rs:862`) | `HybridSearch!EveryMatchFound` | queries of one request that rebuild a stale index side by side clear what the others are about to read |
| authority and freshness are "*tie-breakers and mild boosts*" (`turso_store/search.rs:361`) | `HybridSearch!BestMatchFirst` | being among the newest adds 0.03, far more than ranks differ by, and nearly as much as two first ranks are worth |
| refused identities are discarded (`fingerprint.rs:887-889`) | `HumanClient!DiscardedForGood` | a success of an older request, reported later, makes the identity work again |
| a ban is permanent (`proxy_pool.rs:392`) | `HumanClient!BanHoldsForListed` | listed proxies have `scheme://host` for an id and are reported by their URL, so no report of a listed proxy with a port is ever found |
| available is "not banned or in cooldown" (`proxy_pool.rs:134`) | `HumanClient!CooledIsAvailable` | three failures keep a proxy out when its cooldown is over, and nothing but a success resets them |
| a domain keeps its session (`device_profile.rs:502`) | `HumanClient!SessionShared` | two tasks that find none each make one, and the later insertion wins |
| a ceiling of seeds (`discovery.rs:35`) | `SeedDiscovery!SeedsCapped` | the cap is looked at when a seed has been taken, so full live seeds are followed by one more |
| "Returns an error if no seed reaches the relevance threshold" (`discovery.rs:53`) | `SeedDiscovery!BelowThresholdIsError` | the best of the rest are returned |
| a seed is taken once (`seen`, `discovery.rs:59`) | `SeedDiscovery!SeedsDistinct` | URLs are compared before `sanitize_url()` makes two spellings equal, so one may be two seeds of a request |
| `engine_count` counts engines (`rrf.rs:25-26`) | `LiveSearch!CountsEngines` | aggregation adds the counts of members that one engine returned |

`ClaimHolds` is the strongest claim of its kind that holds, and its comment
names its exceptions: searches side by side, a failed read of a version, and a text
committed between two reads. `MatchesFound` is likewise: it excepts answers and
matches that are more than the limit, and a search that misread the version, trusted
an index that was wrong from the start, stamped too late or just being rebuilt, or
had the index cleared under it.

Reading the code for the models showed more, which no property states:

- One torn line of the cache file makes every later `webfind crawl` with that
  cache fail to open it. The adaptive interval never grows, for `fetch_count` is
  always written as 1.
- `crawler.rs:211` ends its loop when the receiver lags, and reports nothing.
- A live search whose every proxy is unavailable asks directly
  (`human_client.rs`), and `health_check_all` is never called.
- A page with several texts that match takes several places of the limit of the
  full-text list. One failing query fails the whole request. A fused result keeps
  the fields of the first response, though the comment (`commands/search.rs:1120`)
  says of the highest-scoring one.
- The manifest fast path and the reddit engine do not go through the rotating
  client; a session's profile is overridden by the headers of the fingerprint;
  and the sticky strategy counts modulo the proxies available just then, so a
  domain changes its proxy when another proxy fails.
- `discovery.rs:429-432` multiplies a score that is normalized already, so that
  agreement between engines, which it means to reward, changes nothing; and a
  failed search of the index loses the live seeds too. The index it searches as
  "the existing WebFind index" (`discovery.rs:4`) is, in `webfind research`, an
  engine created for the request (`commands/research.rs:98-101`), and empty.
- `bm25_search()` shifts scores so that the best is 0, and all become 1.
- `crawl --proxies` and `--rps` build a pool and a client that the spider does
  not use; `webfind fetch` of several URLs is sequential, drops failures before
  it counts them, and ignores `--proxies`.
- `query_log.rs` empties its buffer also when its upserts fail.
- `engine/pipeline.rs` `fetch_all()` waits for itself when it has more URLs than
  permits.

## Not modelled

Parsing, extraction, scoring, rendering and configuration convert data without
shared state. Embeddings are numbers in `HybridSearch` and a flag elsewhere; the
approximate vector index is in no model. `PageRankCache`
is used by its own tests only; `enforce_storage_budget()` too, though the
transaction it runs is `Evict`. The store's own duplicate policy (`dedup.rs`) is
not reached by the worker. SQLite's journal and locks are taken as atomic
statements and transactions on one connection, one writer at a time, committed
state for the others. The spider of `webfind crawl` is an external crate, and
modelled by what the loop sees of it. `PROJECT.json` lists every part.

## The plan

Done: `PersistWorker` and `PersistService`, `BulkCrawler`, `DerivedIndex`,
`PageLifecycle`, `DomainSessions`, `CachedCrawl`, `LiveSearch`, `Migration`,
`GraphWalks`, `HybridSearch`, `HumanClient`, `SeedDiscovery`, in the order of what a loss would cost.

Next: an index as a function of the graph at the version it claims, which
`DerivedIndex` would implement once rebuilds are transactions.
