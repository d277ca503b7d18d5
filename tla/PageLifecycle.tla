----------------------------- MODULE PageLifecycle -----------------------------
(***************************************************************************)
(* What becomes of a page in the graph database, over all the processes    *)
(* that write it: research requests, the curation daemon                   *)
(* (engine/curation_daemon.rs), live searches, which record their hits     *)
(* (engine/live_ingest.rs), and eviction (turso_store/crud.rs).  Processes *)
(* are killed and started again; only the database outlives them.          *)
(*                                                                         *)
(* A crawl marks a page as crawled, which keeps it from being fetched      *)
(* again, and leaves its text to the worker of its process (PersistWorker  *)
(* has its steps).  BulkCrawler has the frontier in detail; here a site is *)
(* a map and the links of its pages, and whether a URL that is discovered  *)
(* is accepted (by robots.txt, scope, depth and cap) is left open.         *)
(*                                                                         *)
(* A stored text is keyed by its hash.  Pages with the same text share its *)
(* row, which belongs to the one that stored it last.                      *)
(***************************************************************************)
EXTENDS Naturals, FiniteSets

CONSTANTS
    Urls,
    Requests,       \* research requests, each with its worker
    Daemons,        \* curation daemons, each with its worker
    Searches,       \* live searches
    Sources,        \* what requests and daemons crawl from
    Hits,           \* the hits of searches
    HostOf,         \* util::extract_domain(url)
    Maps,           \* what the sites of the sources may map
    LinksOf,        \* the links of each page
    TextOf,         \* the text of each page, as its hash tells texts apart
    Thin,           \* pages whose text check_quality() rejects
    MayFail,        \* whether statements of the worker may fail, and building a session
    Frail,          \* URLs whose node may fail to be read or written
    MaxStarts, MaxSweeps, MaxCrashes,   \* bounds
    NoUrl

VARIABLES
    map,            \* the URLs each source's map lists, which do not change
    node,           \* url_nodes: absent, known, or with the crawled flag
    text,           \* page_content of each text: none, full, or stripped
    owner,          \* the URL its row belongs to
    job,            \* crawl_jobs: the status of each URL's row
    phase, source,  \* what each crawling process is doing, and from where
    todo, queue, seen, page,    \* its crawl: URLs to record, frontier by host, page in hand
    waiting,        \* pages handed to its worker
    at, stored,     \* the page its worker has in hand, and whether it is stored
    due,            \* sources each daemon is to crawl
    hit, snap,      \* the hit each search is recording, and the node it has read
    dropped,        \* history: pages lost between the crawl and the database
    starts, sweeps, crashes     \* for the bounds

database == <<map, node, text, owner, job>>
crawlVars == <<phase, source, todo, queue, seen, page>>
workerVars == <<waiting, at, stored>>
searchVars == <<hit, snap>>
counters == <<starts, sweeps, crashes>>
vars == <<database, crawlVars, workerVars, due, searchVars, dropped, counters>>

Crawls == Requests \cup Daemons
Hosts == {HostOf[u] : u \in Urls}
Texts == {TextOf[u] : u \in Urls}
Queued == [host: Hosts, url: Urls]

ASSUME PageLifecycleAssumption ==
    /\ Daemons \cap Requests = {}
    /\ Sources \subseteq Urls
    /\ Hits \subseteq Urls
    /\ HostOf = [u \in Urls |-> HostOf[u]] /\ TextOf = [u \in Urls |-> TextOf[u]]
    /\ Maps \subseteq [Sources -> SUBSET Urls]
    /\ LinksOf \in [Urls -> SUBSET Urls]
    /\ Thin \subseteq Urls
    /\ MayFail \in BOOLEAN /\ Frail \subseteq Urls
    /\ MaxStarts \in Nat /\ MaxSweeps \in Nat /\ MaxCrashes \in Nat
    /\ NoUrl \notin Urls

\* An empty database, no process yet; to a new daemon every source is due.
Init ==
    /\ map \in Maps
    /\ node = [u \in Urls |-> "absent"]
    /\ text = [t \in Texts |-> "none"]
    /\ owner = [t \in Texts |-> NoUrl]
    /\ job = [u \in Urls |-> "none"]
    /\ phase = [c \in Crawls |-> "off"]
    /\ source = [c \in Crawls |-> NoUrl]
    /\ todo = [c \in Crawls |-> {}]
    /\ queue = [c \in Crawls |-> {}]
    /\ seen = [c \in Crawls |-> {}]
    /\ page = [c \in Crawls |-> NoUrl]
    /\ waiting = [c \in Crawls |-> {}]
    /\ at = [c \in Crawls |-> NoUrl]
    /\ stored = [c \in Crawls |-> FALSE]
    /\ due = [d \in Daemons |-> Sources]
    /\ hit = [s \in Searches |-> NoUrl]
    /\ snap = [s \in Searches |-> "none"]
    /\ dropped = {}
    /\ starts = 0
    /\ sweeps = 0
    /\ crashes = 0

-----------------------------------------------------------------------------
(* Crawls *)

\* get_url() takes a failure for a node that is missing.
ReadsCrawled(u) == {node[u] = "crawled"} \cup (IF u \in Frail THEN {FALSE} ELSE {})

\* record_url(): the row is written, or the failure is only logged.
Written(u, status) ==
    \/ node' = [node EXCEPT ![u] = status]
    \/ u \in Frail /\ UNCHANGED node

\* Which of the nodes to write are written.
Outcomes(nodes) == {nodes \ failed : failed \in SUBSET (nodes \cap Frail)}

\* crawl_with_limit(): the site's map is recorded and queued, and the seed too
\* unless the graph has it as crawled.
Begin(c, s) ==
    /\ phase[c] = "off"
    /\ phase' = [phase EXCEPT ![c] = "loop"]
    /\ source' = [source EXCEPT ![c] = s]
    /\ \E crawled \in ReadsCrawled(s) :
          todo' = [todo EXCEPT ![c] = map[s] \cup IF crawled THEN {} ELSE {s}]
    /\ UNCHANGED <<database, queue, seen, page, workerVars, searchVars, dropped>>

\* A research request has a crawler and a worker of its own.
Request(r, s) ==
    /\ starts < MaxStarts
    /\ Begin(r, s)
    /\ starts' = starts + 1
    /\ UNCHANGED <<due, sweeps, crashes>>

\* The daemon's sweep takes the sources that are due, one after the other, each
\* with a crawler of its own and all with one worker.
Sweep(d, s) ==
    /\ s \in due[d]
    /\ Begin(d, s)
    /\ UNCHANGED <<due, counters>>

\* The interval of a source has elapsed since its last crawl.
Elapse(d, s) ==
    /\ s \notin due[d]
    /\ sweeps < MaxSweeps
    /\ due' = [due EXCEPT ![d] = @ \cup {s}]
    /\ sweeps' = sweeps + 1
    /\ UNCHANGED <<database, crawlVars, workerVars, searchVars, dropped, starts, crashes>>

\* Whose frontier takes a discovered URL: that of the source for its map, that
\* of the URL for a link.
HostFor(c, u) == HostOf[IF page[c] = NoUrl THEN source[c] ELSE u]

\* record_url() writes the node of a mapped URL, of the seed and of a link that
\* is accepted anew; record_link() adds the nodes of a link that are missing.
Record(c, u) ==
    /\ phase[c] = "loop"
    /\ u \in todo[c]
    /\ todo' = [todo EXCEPT ![c] = @ \ {u}]
    /\ \E accepted \in {FALSE, [host |-> HostFor(c, u), url |-> u] \notin seen[c]} :
        /\ \E put \in Outcomes(IF accepted \/ page[c] = NoUrl THEN {u} ELSE {}),
              added \in Outcomes(IF page[c] = NoUrl THEN {} ELSE {page[c], u}) :
                node' = [v \in Urls |->
                    IF v \in put \/ (v \in added /\ node[v] = "absent") THEN "known"
                    ELSE node[v]]
        /\ LET new == IF accepted THEN {[host |-> HostFor(c, u), url |-> u]} ELSE {}
           IN /\ queue' = [queue EXCEPT ![c] = @ \cup new]
              /\ seen' = [seen EXCEPT ![c] = @ \cup new]
    /\ UNCHANGED <<map, text, owner, job, phase, source, page, workerVars, due,
                   searchVars, dropped, counters>>

\* Any entry of the frontier may be the next.  A page the graph has as crawled is
\* skipped; for another the crawl waits for its slot, and fetches it with what it
\* knew of the node before.  Either way the entry is removed from the frontier of
\* the page's own host, so that one queued under another host stays.
Choose(c, e) ==
    /\ phase[c] = "loop" /\ todo[c] = {} /\ page[c] = NoUrl
    /\ e \in queue[c]
    /\ queue' = [queue EXCEPT ![c] = @ \ {[e EXCEPT !.host = HostOf[e.url]]}]
    /\ \E crawled \in ReadsCrawled(e.url) :
        IF crawled
        THEN UNCHANGED <<page, phase>>
        ELSE /\ page' = [page EXCEPT ![c] = e.url]
             /\ phase' = [phase EXCEPT ![c] = "fetching"]
    /\ UNCHANGED <<database, source, todo, seen, workerVars, due, searchVars, dropped, counters>>

\* The page and its links, or an error, which is only logged.
Fetch(c) ==
    /\ phase[c] = "fetching"
    /\ phase' = [phase EXCEPT ![c] = "loop"]
    /\ \/ /\ todo' = [todo EXCEPT ![c] = LinksOf[page[c]]]
          /\ UNCHANGED page
       \/ /\ page' = [page EXCEPT ![c] = NoUrl]
          /\ UNCHANGED todo
    /\ UNCHANGED <<database, source, queue, seen, workerVars, due, searchVars, dropped, counters>>

\* mark_url_crawled(), which reads the node and writes nothing where there is none.
Finish(c) ==
    /\ phase[c] = "loop" /\ todo[c] = {} /\ page[c] # NoUrl
    /\ IF node[page[c]] = "absent" THEN UNCHANGED node ELSE Written(page[c], "crawled")
    /\ phase' = [phase EXCEPT ![c] = "marked"]
    /\ UNCHANGED <<map, text, owner, job, source, todo, queue, seen, page, workerVars, due, searchVars,
                   dropped, counters>>

\* HandOver without the task that hands the page over (mutant).
HandOverNothing(c) ==
    /\ phase[c] = "marked"
    /\ page' = [page EXCEPT ![c] = NoUrl]
    /\ phase' = [phase EXCEPT ![c] = "loop"]
    /\ UNCHANGED <<database, source, todo, queue, seen, workerVars, due, searchVars, dropped,
                   counters>>

\* A task of its own hands the page to the worker.
HandOver(c) ==
    /\ phase[c] = "marked"
    /\ waiting' = [waiting EXCEPT ![c] = @ \cup {page[c]}]
    /\ page' = [page EXCEPT ![c] = NoUrl]
    /\ phase' = [phase EXCEPT ![c] = "loop"]
    /\ UNCHANGED <<database, source, todo, queue, seen, at, stored, due, searchVars, dropped,
                   counters>>

\* What a crawl leaves when it ends: its crawler is dropped.
Forget(c) ==
    /\ source' = [source EXCEPT ![c] = NoUrl]
    /\ todo' = [todo EXCEPT ![c] = {}]
    /\ queue' = [queue EXCEPT ![c] = {}]
    /\ seen' = [seen EXCEPT ![c] = {}]
    /\ page' = [page EXCEPT ![c] = NoUrl]

\* Swept for a crawl that returned pages only (mutant).
SweptIfAny(c) ==
    due' = IF c \in Daemons /\ phase[c] # "fetching" THEN [due EXCEPT ![c] = @ \ {source[c]}] ELSE due

\* mark_crawled() of the daemon, after a crawl and after an error alike.
Swept(c) == due' = IF c \in Daemons THEN [due EXCEPT ![c] = @ \ {source[c]}] ELSE due

\* The frontier is empty or the budget spent.  A request closes its worker; the
\* daemon notes when it crawled the source and goes on.
EndCrawl(c) ==
    /\ phase[c] = "loop" /\ todo[c] = {} /\ page[c] = NoUrl
    /\ phase' = [phase EXCEPT ![c] = IF c \in Daemons THEN "off" ELSE "closing"]
    /\ Swept(c)
    /\ Forget(c)
    /\ UNCHANGED <<database, workerVars, searchVars, dropped, counters>>

\* A session or a fetcher cannot be built.  The request returns the error and
\* does not close its worker; the daemon counts an error and goes on.
Abort(c) ==
    /\ phase[c] = "fetching"
    /\ MayFail
    /\ phase' = [phase EXCEPT ![c] = IF c \in Daemons THEN "off" ELSE "aborted"]
    /\ Swept(c)
    /\ Forget(c)
    /\ UNCHANGED <<database, workerVars, searchVars, dropped, counters>>

\* A persist() task that runs once close() has taken the sender is refused.
Refuse(c, u) ==
    /\ phase[c] = "closing"
    /\ u \in waiting[c]
    /\ waiting' = [waiting EXCEPT ![c] = @ \ {u}]
    /\ dropped' = dropped \cup {u}
    /\ UNCHANGED <<database, crawlVars, at, stored, due, searchVars, counters>>

\* The worker has drained: close() returns, or, behind an error, the worker
\* ends by itself.
Closed(c) ==
    /\ phase[c] \in {"closing", "aborted"}
    /\ waiting[c] = {} /\ at[c] = NoUrl
    /\ phase' = [phase EXCEPT ![c] = "off"]
    /\ UNCHANGED <<database, source, todo, queue, seen, page, workerVars, due, searchVars,
                   dropped, counters>>

\* Pages the process has marked, or is to store, and has in memory only.
InMemory(c) ==
    waiting[c]
        \cup (IF stored[c] THEN {} ELSE {at[c]} \ {NoUrl})
        \cup (IF phase[c] = "marked" THEN {page[c]} ELSE {})

\* The process ends with what it has in memory: it is killed, or a request
\* that returned an error ends its program.
Exit(c) ==
    /\ \/ phase[c] = "aborted" /\ UNCHANGED crashes
       \/ /\ c \in Daemons \/ phase[c] # "off"
          /\ crashes < MaxCrashes
          /\ crashes' = crashes + 1
    /\ phase' = [phase EXCEPT ![c] = "off"]
    /\ Forget(c)
    /\ waiting' = [waiting EXCEPT ![c] = {}]
    /\ at' = [at EXCEPT ![c] = NoUrl]
    /\ stored' = [stored EXCEPT ![c] = FALSE]
    /\ due' = IF c \in Daemons THEN [due EXCEPT ![c] = Sources] ELSE due
    /\ dropped' = dropped \cup InMemory(c)
    /\ UNCHANGED <<database, searchVars, starts, sweeps>>

-----------------------------------------------------------------------------
(* The worker of a crawling process *)

\* Any statement about a job may fail and is then ignored.
Marked(u, status) ==
    \/ job' = [job EXCEPT ![u] = status]
    \/ MayFail /\ UNCHANGED job

\* enqueue_crawl_job() leaves the status of a row that is there.
Enqueued(u) ==
    \/ job' = [job EXCEPT ![u] = IF @ = "none" THEN "pending" ELSE @]
    \/ MayFail /\ UNCHANGED job

\* The worker receives a page, enqueues its job and marks it as processing;
\* without an id there is no row to mark.
Take(c, u) ==
    /\ at[c] = NoUrl
    /\ u \in waiting[c]
    /\ waiting' = [waiting EXCEPT ![c] = @ \ {u}]
    /\ at' = [at EXCEPT ![c] = u]
    /\ \/ job' = [job EXCEPT ![u] = "processing"]
       \/ MayFail /\ Enqueued(u)
    /\ UNCHANGED <<map, node, text, owner, crawlVars, stored, due, searchVars, dropped, counters>>

\* The worker is done with a page.
Release(c) ==
    /\ at' = [at EXCEPT ![c] = NoUrl]
    /\ stored' = [stored EXCEPT ![c] = FALSE]
    /\ UNCHANGED waiting

Holds(c, u) == at[c] = u /\ u \in Urls /\ ~stored[c]

\* check_quality() rejects the page.  The gate before it, find_duplicate(), is the
\* trait's default and never does (PersistWorker).
Reject(c, u) ==
    /\ Holds(c, u)
    /\ u \in Thin
    /\ Marked(u, "done")
    /\ Release(c)
    /\ UNCHANGED <<map, node, text, owner, crawlVars, due, searchVars, dropped,
                   counters>>

\* record_page_content(): in one transaction the row of the text, which another
\* page with the same text loses to this one, and its node, if there is one.
Store(c, u) ==
    /\ Holds(c, u)
    /\ u \notin Thin
    /\ text' = [text EXCEPT ![TextOf[u]] = "full"]
    /\ owner' = [owner EXCEPT ![TextOf[u]] = u]
    /\ node' = IF node[u] = "absent" THEN node ELSE [node EXCEPT ![u] = "crawled"]
    /\ stored' = [stored EXCEPT ![c] = TRUE]
    /\ UNCHANGED <<map, job, crawlVars, waiting, at, due, searchVars, dropped, counters>>

\* StoreFails that marks the job as it would after a success (mutant).
StoreFailsDone(c, u) ==
    /\ Holds(c, u)
    /\ MayFail
    /\ u \notin Thin
    /\ Marked(u, "done")
    /\ dropped' = dropped \cup {u}
    /\ Release(c)
    /\ UNCHANGED <<map, node, text, owner, crawlVars, due, searchVars, counters>>

StoreFails(c, u) ==
    /\ Holds(c, u)
    /\ MayFail
    /\ u \notin Thin
    /\ Marked(u, "failed")
    /\ dropped' = dropped \cup {u}
    /\ Release(c)
    /\ UNCHANGED <<map, node, text, owner, crawlVars, due, searchVars, counters>>

\* After the text comes its embedding, whose failure fails the job.
MarkStored(c, u) ==
    /\ at[c] = u /\ stored[c]
    /\ \/ Marked(u, "done")
       \/ MayFail /\ Marked(u, "failed")
    /\ Release(c)
    /\ UNCHANGED <<map, node, text, owner, crawlVars, due, searchVars, dropped, counters>>

-----------------------------------------------------------------------------
(* Live searches, which record their hits, and eviction *)

Look(s, u) ==
    /\ hit[s] = NoUrl
    /\ hit' = [hit EXCEPT ![s] = u]
    /\ snap' \in {[snap EXCEPT ![s] = read] :
                    read \in {node[u]} \cup (IF u \in Frail THEN {"absent"} ELSE {})}
    /\ UNCHANGED <<database, crawlVars, workerVars, due, dropped, counters>>

\* The next hit.
NextHit(s) ==
    /\ hit' = [hit EXCEPT ![s] = NoUrl]
    /\ snap' = [snap EXCEPT ![s] = "none"]

\* A node that was there is written back, as it was read, with its priority
\* raised.
Refresh(s, u) ==
    /\ hit[s] = u /\ snap[s] \in {"known", "crawled"}
    /\ Written(u, snap[s])
    /\ NextHit(s)
    /\ UNCHANGED <<map, text, owner, job, crawlVars, workerVars, due, dropped, counters>>

\* A node that was missing is recorded; an error of record_url() is only logged.
Ingest(s, u) ==
    /\ hit[s] = u /\ snap[s] = "absent"
    /\ Written(u, "known")
    /\ snap' = [snap EXCEPT ![s] = "ingested"]
    /\ UNCHANGED <<map, text, owner, job, crawlVars, workerVars, due, hit, dropped, counters>>

EnqueueHit(s, u) ==
    /\ hit[s] = u /\ snap[s] = "ingested"
    /\ Enqueued(u)
    /\ NextHit(s)
    /\ UNCHANGED <<map, node, text, owner, crawlVars, workerVars, due, dropped, counters>>

\* evict_full_content() strips a text and keeps its row.
Evict(t) ==
    /\ text[t] = "full"
    /\ text' = [text EXCEPT ![t] = "stripped"]
    /\ UNCHANGED <<map, node, owner, job, crawlVars, workerVars, due, searchVars,
                   dropped, counters>>

-----------------------------------------------------------------------------
CrawlStep(c) ==
    \/ \E u \in Urls : Record(c, u)
    \/ \E e \in queue[c] : Choose(c, e)
    \/ Fetch(c) \/ Finish(c) \/ HandOver(c) \/ Closed(c)

WorkerStep(c) ==
    \E u \in Urls :
        Take(c, u) \/ Reject(c, u) \/ Store(c, u) \/ StoreFails(c, u) \/ MarkStored(c, u)

SearchStep(s) ==
    \E u \in Hits : Look(s, u) \/ Refresh(s, u) \/ Ingest(s, u) \/ EnqueueHit(s, u)

Next ==
    \/ \E r \in Requests, s \in Sources : Request(r, s)
    \/ \E d \in Daemons, s \in Sources : Sweep(d, s) \/ Elapse(d, s)
    \/ \E c \in Crawls :
        \/ CrawlStep(c) \/ EndCrawl(c) \/ WorkerStep(c) \/ Abort(c) \/ Exit(c)
        \/ \E u \in Urls : Refuse(c, u)
    \/ \E s \in Searches : SearchStep(s)
    \/ \E t \in Texts : Evict(t)

\* Every task of a process that runs is scheduled, fetches return, and a page that
\* was handed over gets its turn: the channel is first in, first out.
Fairness ==
    /\ \A c \in Crawls :
        /\ WF_vars(CrawlStep(c) \/ EndCrawl(c))
        /\ WF_vars(WorkerStep(c))
        /\ \A u \in Urls : SF_vars(Take(c, u))
    /\ \A d \in Daemons : WF_vars(\E s \in Sources : Sweep(d, s))

Spec == Init /\ [][Next]_vars /\ Fairness

-----------------------------------------------------------------------------
(* Properties *)

TypeOK ==
    /\ node \in [Urls -> {"absent", "known", "crawled"}]
    /\ map \in Maps
    /\ text \in [Texts -> {"none", "full", "stripped"}]
    /\ owner \in [Texts -> Urls \cup {NoUrl}]
    /\ job \in [Urls -> {"none", "pending", "processing", "done", "failed"}]
    /\ phase \in [Crawls -> {"off", "loop", "fetching", "marked", "closing", "aborted"}]
    /\ source \in [Crawls -> Sources \cup {NoUrl}]
    /\ todo \in [Crawls -> SUBSET Urls]
    /\ queue \in [Crawls -> SUBSET Queued]
    /\ seen \in [Crawls -> SUBSET Queued]
    /\ page \in [Crawls -> Urls \cup {NoUrl}]
    /\ waiting \in [Crawls -> SUBSET Urls]
    /\ at \in [Crawls -> Urls \cup {NoUrl}]
    /\ stored \in [Crawls -> BOOLEAN]
    /\ due \in [Daemons -> SUBSET Sources]
    /\ hit \in [Searches -> Hits \cup {NoUrl}]
    /\ snap \in [Searches -> {"none", "absent", "known", "crawled", "ingested"}]
    /\ dropped \subseteq Urls
    /\ starts \in 0..MaxStarts /\ sweeps \in 0..MaxSweeps /\ crashes \in 0..MaxCrashes

\* The text of a page is in the database, with its content or evicted, under
\* this page or under another with the same text.
Stored(u) == text[TextOf[u]] # "none"

\* A crawled page has its text in the store, or it is still on its way there, or
\* the quality gate or a fault has taken it: what keeps a page from being fetched again
\* (bulk_crawler.rs:486) is written by the crawl, by the worker and by searches,
\* the last from a copy of the node that may be stale.
Accounted(u) ==
    \/ Stored(u)
    \/ u \in Thin \cup dropped
    \/ \E c \in Crawls : u \in InMemory(c)

CrawledAccounted == \A u \in Urls : node[u] = "crawled" => Accounted(u)

\* A job that is done has a stored text behind it, then or since evicted, or a
\* page the quality gate rejects, whichever process wrote the row last.
JobsTruthful == \A u \in Urls : job[u] = "done" => Stored(u) \/ u \in Thin

\* Each page a crawl marks gets its text stored, unless the quality gate or
\* a fault takes it: close() and the worker drain what was handed over.
CrawledSettles ==
    \A u \in Urls : node[u] = "crawled" ~> (Stored(u) \/ u \in Thin \cup dropped)

\* Sites that map pages of their own only.
OwnHosts == \A s \in Sources : \A u \in map[s] : HostOf[u] = HostOf[s]

\* If sites map their own hosts, the daemon gets to every source that is due,
\* past failed crawls and restarts.
SourcesSwept ==
    \A d \in Daemons, s \in Sources : (OwnHosts /\ s \in due[d]) ~> s \notin due[d]

-----------------------------------------------------------------------------
(* What a comment says and the code does not do *)

\* turso_store/crawl_graph.rs:485 "promote the enriched content fields onto the
\* owning node": a page whose job is done has its text under its own URL.
OwnTextKept ==
    \A u \in Urls : job[u] = "done" /\ u \notin Thin => owner[TextOf[u]] = u
=============================================================================
