----------------------------- MODULE DerivedIndex -----------------------------
(***************************************************************************)
(* The graph database (storage/turso_store/) and the indexes derived from  *)
(* it, which a search brings up to date (turso_search() of                 *)
(* commands/search.rs) while a crawl writes.                               *)
(*                                                                         *)
(* The crawl process has one connection, which its tasks share: the crawl  *)
(* loop records URLs and links statement by statement, and the background  *)
(* worker stores texts in transactions.  What the loop writes while a      *)
(* transaction is open is written in that transaction.  Every search is a  *)
(* process with a connection of its own.  A version token, which writers   *)
(* increment, tells a search whether an index is up to date.               *)
(*                                                                         *)
(* One action is one statement, or one transaction no statement can come   *)
(* in between.  A text stands for its page_content row, and the score of a *)
(* URL for the links it counts.                                            *)
(***************************************************************************)
EXTENDS Integers, FiniteSets

CONSTANTS
    Urls, Texts, Searches,
    Links,          \* the links the crawl may record, pairs of URLs
    MayFail,        \* whether statements may fail and processes be killed
    MaxVersion,     \* bound: the crawl stops at this version
    NoRow, NoLink, NoTx

VARIABLES
    graph,          \* the committed rows the crawl writes
    tx,             \* the same rows as its open transaction sees them
    crawler,        \* where the crawl loop stands in record_url(), record_link()
    worker,         \* where the background worker stands in its transaction
    fts,            \* how many rows of urls_fts each text has for each URL
    ftsVersion,     \* graph_meta: fts_version
    ranks,          \* the pagerank table
    rankVersion,    \* graph_meta: pagerank_version
    pc,             \* where each search stands
    mem,            \* what each search has read and still needs
    suspect,        \* history: searches beside another, or that misread a version
    intact          \* history: nothing disturbed the last rebuild of urls_fts

crawlVars == <<graph, tx, crawler, worker>>
ftsVars == <<fts, ftsVersion>>
rankVars == <<ranks, rankVersion>>
searchVars == <<ftsVars, rankVars, pc, mem>>
history == <<suspect, intact>>
vars == <<crawlVars, searchVars, history>>

\* The row of each text: the URL it belongs to, and whether its text is still in
\* full or has been evicted.
Stored == [url: Urls, full: BOOLEAN]

Graph == [content: [Texts -> Stored \cup {NoRow}], nodes: SUBSET Urls,
          edges: SUBSET Links, version: Nat]

ASSUME DerivedIndexAssumption ==
    /\ Links \subseteq Urls \X Urls
    /\ MayFail \in BOOLEAN
    /\ MaxVersion \in Nat
    /\ NoRow \notin Stored
    /\ NoLink \notin Links
    /\ NoTx \notin Graph

Rows == Texts \X Urls
Ranks == UNION {[scored -> SUBSET Links] : scored \in SUBSET Urls}

\* A third copy of an index row shows nothing that the second did not.
CopyBound == 2

NoRanks == [u \in {} |-> {}]
NoMem == [seen |-> 0, rows |-> {}, ranks |-> NoRanks, nodes |-> {}, stamp |-> 0]

\* init_schema() of a new database: both the graph and the full-text index
\* start at version 1, and fts_version says so.
Init ==
    /\ graph = [content |-> [t \in Texts |-> NoRow], nodes |-> {}, edges |-> {},
                version |-> 1]
    /\ tx = NoTx
    /\ crawler = [step |-> "idle", link |-> NoLink]
    /\ worker = "idle"
    /\ fts = [r \in Rows |-> 0]
    /\ ftsVersion = 1
    /\ ranks = NoRanks
    /\ rankVersion = 0
    /\ pc = [s \in Searches |-> "idle"]
    /\ mem = [s \in Searches |-> NoMem]
    /\ suspect = {}
    /\ intact = TRUE

-----------------------------------------------------------------------------
(* The crawl loop: single statements on the shared connection *)

View == IF tx = NoTx THEN graph ELSE tx

\* A statement runs in the open transaction, or commits by itself.
Put(g) ==
    IF tx = NoTx THEN graph' = g /\ UNCHANGED tx
                 ELSE tx' = g /\ UNCHANGED graph

\* record_url(): the node is upserted, and the version bumped after that.
RecordUrl(u) ==
    /\ crawler.step = "idle"
    /\ View.version < MaxVersion
    /\ Put([View EXCEPT !.nodes = @ \cup {u}])
    /\ crawler' = [crawler EXCEPT !.step = "bump"]
    /\ UNCHANGED <<worker, searchVars, history>>

\* record_link(): first one end of the link, then the other, then the edge.
RecordLink(l) ==
    /\ crawler.step = "idle"
    /\ View.version < MaxVersion
    /\ crawler' = [step |-> "from", link |-> l]
    /\ UNCHANGED <<graph, tx, worker, searchVars, history>>

\* A missing end becomes a placeholder node; an error is only logged.
Placeholder(step, end, next) ==
    /\ crawler.step = step
    /\ \/ Put([View EXCEPT !.nodes = @ \cup {crawler.link[end]}])
       \/ MayFail /\ UNCHANGED <<graph, tx>>
    /\ crawler' = [crawler EXCEPT !.step = next]
    /\ UNCHANGED <<worker, searchVars, history>>

\* The edge needs both its nodes; on an error the version is not bumped.
RecordEdge ==
    /\ crawler.step = "edge"
    /\ \/ /\ {crawler.link[1], crawler.link[2]} \subseteq View.nodes
          /\ Put([View EXCEPT !.edges = @ \cup {crawler.link}])
          /\ crawler' = [step |-> "bump", link |-> NoLink]
       \/ /\ MayFail
          /\ crawler' = [step |-> "idle", link |-> NoLink]
          /\ UNCHANGED <<graph, tx>>
    /\ UNCHANGED <<worker, searchVars, history>>

\* bump_graph_version(), best-effort.
Bump ==
    /\ crawler.step = "bump"
    /\ \/ Put([View EXCEPT !.version = @ + 1])
       \/ MayFail /\ UNCHANGED <<graph, tx>>
    /\ crawler' = [crawler EXCEPT !.step = "idle"]
    /\ UNCHANGED <<worker, searchVars, history>>

-----------------------------------------------------------------------------
(* The background worker, and eviction: transactions on the same connection *)

Begin ==
    /\ worker = "idle"
    /\ graph.version < MaxVersion
    /\ worker' = "begun"
    /\ tx' = graph
    /\ UNCHANGED <<graph, crawler, searchVars, history>>

FullText(u) == [url |-> u, full |-> TRUE]
Stripped(u) == [url |-> u, full |-> FALSE]

\* WriteText that does not bump the version in its transaction (mutant).
WriteTextUnbumped(t, u) ==
    /\ worker = "begun"
    /\ u \in tx.nodes
    /\ worker' = "written"
    /\ tx' = [tx EXCEPT !.content = [@ EXCEPT ![t] = FullText(u)]]
    /\ UNCHANGED <<graph, crawler, searchVars, history>>

\* record_page_content(): the row of a text is inserted or taken over, its node
\* is promoted, and the version is bumped in the same transaction.
WriteText(t, u) ==
    /\ worker = "begun"
    /\ u \in tx.nodes
    /\ worker' = "written"
    /\ tx' = [tx EXCEPT !.content = [@ EXCEPT ![t] = FullText(u)], !.version = @ + 1]
    /\ UNCHANGED <<graph, crawler, searchVars, history>>

\* evict_full_content() strips the rows of the oldest texts, if there are any.
Evict(old) ==
    /\ worker = "begun"
    /\ \A t \in old : tx.content[t] \in {FullText(u) : u \in Urls}
    /\ worker' = "written"
    /\ tx' = [tx EXCEPT !.content = [t \in Texts |-> IF t \in old THEN Stripped(@[t].url)
                                                    ELSE @[t]],
                        !.version = @ + 1]
    /\ UNCHANGED <<graph, crawler, searchVars, history>>

\* A search that has read the texts and not yet the version to stamp.
Copying(s) == pc[s] \in {"insert", "version"}

Commit ==
    /\ worker = "written"
    /\ worker' = "idle"
    /\ graph' = tx
    /\ tx' = NoTx
    /\ intact' = (intact /\ (tx.content = graph.content \/ \A s \in Searches : ~Copying(s)))
    /\ UNCHANGED <<crawler, searchVars, suspect>>

\* A statement of the transaction fails, as one for a page without a node does:
\* what the crawl loop wrote in the meantime is undone with it.
Rollback ==
    /\ worker # "idle"
    /\ MayFail
    /\ worker' = "idle"
    /\ tx' = NoTx
    /\ UNCHANGED <<graph, crawler, searchVars, history>>

\* record_embedding(), between two transactions: the embedding is in neither
\* index; the version is bumped.
RecordEmbedding ==
    /\ worker = "idle"
    /\ graph.version < MaxVersion
    /\ graph' = [graph EXCEPT !.version = @ + 1]
    /\ UNCHANGED <<tx, crawler, worker, searchVars, history>>

\* The crawl process is killed.
Crash ==
    /\ MayFail
    /\ tx' = NoTx
    /\ crawler' = [step |-> "idle", link |-> NoLink]
    /\ worker' = "idle"
    /\ UNCHANGED <<graph, searchVars, history>>

-----------------------------------------------------------------------------
(* A search *)

\* Until its index is up to date.
Indexing(s) ==
    pc[s] \in {"check", "clear", "select", "insert", "version", "stamp"}

\* A version that cannot be read is reported as a default.
Misread(default) == IF MayFail THEN {default} ELSE {}
GraphVersions == {graph.version} \cup Misread(1)

\* The version is read once, for both indexes.
ReadVersion(s) ==
    LET others == {o \in Searches : Indexing(o)} IN
    /\ pc[s] = "idle"
    /\ pc' = [pc EXCEPT ![s] = "check"]
    /\ \E version \in GraphVersions :
        /\ mem' = [mem EXCEPT ![s].seen = version]
        /\ suspect' = IF others = {} /\ version = graph.version THEN suspect
                      ELSE suspect \cup others \cup {s}
    /\ UNCHANGED <<crawlVars, ftsVars, rankVars, intact>>

\* fts_version(): an index of the same version is not rebuilt.
CheckFts(s) ==
    /\ pc[s] = "check"
    /\ \E stamp \in {ftsVersion} \cup Misread(0) :
        \/ /\ stamp = mem[s].seen
           /\ pc' = [pc EXCEPT ![s] = "checkRank"]
           /\ suspect' = suspect \ {s}
        \/ /\ stamp # mem[s].seen
           /\ pc' = [pc EXCEPT ![s] = "clear"]
           /\ suspect' = IF stamp = ftsVersion THEN suspect ELSE suspect \cup {s}
    /\ UNCHANGED <<crawlVars, ftsVars, rankVars, mem, intact>>

\* ClearFts that stamps the version right away (mutant).
ClearFtsStamped(s) ==
    /\ pc[s] = "clear"
    /\ tx = NoTx
    /\ fts' = [r \in Rows |-> 0]
    /\ ftsVersion' = graph.version
    /\ intact' = (s \notin suspect)
    /\ pc' = [pc EXCEPT ![s] = "select"]
    /\ UNCHANGED <<crawlVars, rankVars, mem, suspect>>

\* rebuild_fts(), statement by statement; a write needs the lock that an open
\* transaction holds, and else waits or fails.
ClearFts(s) ==
    /\ pc[s] = "clear"
    /\ tx = NoTx
    /\ fts' = [r \in Rows |-> 0]
    /\ intact' = (s \notin suspect)
    /\ pc' = [pc EXCEPT ![s] = "select"]
    /\ UNCHANGED <<crawlVars, ftsVersion, rankVars, mem, suspect>>

\* What a rebuild enters of some texts: the rows whose text is not empty.
Indexed(content) == {r \in Rows : content[r[1]] = FullText(r[2])}

SelectTexts(s) ==
    /\ pc[s] = "select"
    /\ mem' = [mem EXCEPT ![s].rows = Indexed(graph.content)]
    /\ pc' = [pc EXCEPT ![s] = "insert"]
    /\ UNCHANGED <<crawlVars, ftsVars, rankVars, history>>

InsertRow(s, r) ==
    /\ pc[s] = "insert"
    /\ r \in mem[s].rows
    /\ tx = NoTx
    /\ fts' = [fts EXCEPT ![r] = IF @ < CopyBound THEN @ + 1 ELSE @]
    /\ mem' = [mem EXCEPT ![s].rows = @ \ {r}]
    /\ UNCHANGED <<crawlVars, ftsVersion, rankVars, pc, history>>

\* All rows are inserted.
Inserted(s) ==
    /\ pc[s] = "insert"
    /\ mem[s].rows = {}
    /\ pc' = [pc EXCEPT ![s] = "version"]
    /\ UNCHANGED <<crawlVars, ftsVars, rankVars, mem, history>>

\* ReadStamp on the crawl's connection (mutant).
ReadStampShared(s) ==
    /\ pc[s] = "version"
    /\ mem' = [mem EXCEPT ![s].stamp = View.version]
    /\ pc' = [pc EXCEPT ![s] = "stamp"]
    /\ UNCHANGED <<crawlVars, ftsVars, rankVars, history>>

ReadStamp(s) ==
    /\ pc[s] = "version"
    /\ \E version \in GraphVersions : mem' = [mem EXCEPT ![s].stamp = version]
    /\ pc' = [pc EXCEPT ![s] = "stamp"]
    /\ UNCHANGED <<crawlVars, ftsVars, rankVars, history>>

StampFts(s) ==
    /\ pc[s] = "stamp"
    /\ tx = NoTx
    /\ ftsVersion' = mem[s].stamp
    /\ mem' = [mem EXCEPT ![s].stamp = 0]
    /\ pc' = [pc EXCEPT ![s] = "checkRank"]
    /\ suspect' = suspect \ {s}
    /\ UNCHANGED <<crawlVars, fts, rankVars, intact>>

\* The process is over: it has searched, was killed, or a statement failed.
End(s) ==
    /\ pc' = [pc EXCEPT ![s] = "idle"]
    /\ mem' = [mem EXCEPT ![s] = NoMem]
    /\ suspect' = suspect \ {s}
    /\ UNCHANGED <<crawlVars, ftsVars, rankVars, intact>>

CheckRank(s) ==
    /\ pc[s] = "checkRank"
    /\ \E version \in {rankVersion} \cup Misread(0) : version # mem[s].seen
    /\ pc' = [pc EXCEPT ![s] = "ranks"]
    /\ mem' = [mem EXCEPT ![s].seen = 0]
    /\ UNCHANGED <<crawlVars, ftsVars, rankVars, history>>

\* The scores are up to date, or have been computed: the search answers.
Answer(s) ==
    /\ \/ pc[s] = "checkRank" /\ rankVersion = mem[s].seen
       \/ pc[s] = "answer"
    /\ End(s)

Fail(s) ==
    /\ MayFail
    /\ pc[s] # "idle"
    /\ End(s)

\* compute_pagerank() reads the old scores, then the nodes, then the links; what
\* cannot be read is missing.
ReadRanks(s) ==
    /\ pc[s] = "ranks"
    /\ \E old \in {ranks} \cup Misread(NoRanks) : mem' = [mem EXCEPT ![s].ranks = old]
    /\ pc' = [pc EXCEPT ![s] = "nodes"]
    /\ UNCHANGED <<crawlVars, ftsVars, rankVars, history>>

Read(rows) == IF MayFail THEN SUBSET rows ELSE {rows}

ReadNodes(s) ==
    /\ pc[s] = "nodes"
    /\ \E nodes \in Read(graph.nodes) : mem' = [mem EXCEPT ![s].nodes = nodes]
    /\ pc' = [pc EXCEPT ![s] = "edges"]
    /\ UNCHANGED <<crawlVars, ftsVars, rankVars, history>>

\* The affected URLs: those whose scores are stored and all that are up to five
\* links upstream of them.
Hop(urls, edges) == urls \cup {l[1] : l \in {e \in edges : e[2] \in urls}}
Affected(known, edges) ==
    Hop(Hop(Hop(Hop(Hop(known, edges), edges), edges), edges), edges)

\* compute_pagerank_incremental(), or compute_pagerank() if no scores are
\* stored: what it recomputes counts all links, a new node that it does not
\* gets the base score.
Recompute(old, nodes, edges) ==
    LET known == DOMAIN old
        affected == IF known = {} THEN nodes ELSE Affected(known, edges)
        scored == known \cup nodes \cup affected
        counted(u) == {l \in edges : l[2] = u /\ l[1] \in scored}
    IN IF nodes = {} THEN NoRanks
       ELSE [u \in scored |-> IF u \in affected THEN counted(u) ELSE {}]

Compute(s) ==
    /\ pc[s] = "edges"
    /\ \E edges \in Read(graph.edges) :
        mem' = [mem EXCEPT ![s].ranks = Recompute(@, mem[s].nodes, edges),
                           ![s].nodes = {}]
    /\ pc' = [pc EXCEPT ![s] = "write"]
    /\ UNCHANGED <<crawlVars, ftsVars, rankVars, history>>

\* One transaction, which reads the version to stamp as well.
WriteRanks(s) ==
    /\ pc[s] = "write"
    /\ tx = NoTx
    /\ ranks' = mem[s].ranks
    /\ rankVersion' \in GraphVersions
    /\ pc' = [pc EXCEPT ![s] = "answer"]
    /\ mem' = [mem EXCEPT ![s] = NoMem]
    /\ UNCHANGED <<crawlVars, ftsVars, history>>

-----------------------------------------------------------------------------

Crawl ==
    \/ \E u \in Urls : RecordUrl(u)
    \/ \E l \in Links : RecordLink(l)
    \/ Placeholder("from", 1, "to") \/ Placeholder("to", 2, "edge")
    \/ RecordEdge \/ Bump
    \/ Begin \/ Commit \/ Rollback \/ RecordEmbedding \/ Crash
    \/ \E t \in Texts, u \in Urls : WriteText(t, u)
    \/ \E old \in SUBSET Texts : Evict(old)

Rebuild(s) ==
    \/ ReadVersion(s) \/ CheckFts(s) \/ ClearFts(s) \/ SelectTexts(s)
    \/ \E r \in Rows : InsertRow(s, r)
    \/ Inserted(s) \/ ReadStamp(s) \/ StampFts(s)

Rank(s) ==
    \/ CheckRank(s) \/ ReadRanks(s) \/ ReadNodes(s) \/ Compute(s) \/ WriteRanks(s)

Search(s) == Rebuild(s) \/ Rank(s) \/ Answer(s) \/ Fail(s)

Next == Crawl \/ \E s \in Searches : Search(s)

Spec == Init /\ [][Next]_vars

-----------------------------------------------------------------------------
(* Properties *)

Steps == {"idle", "check", "clear", "select", "insert", "version", "stamp",
          "checkRank", "ranks", "nodes", "edges", "write", "answer"}

TypeOK ==
    /\ graph \in Graph
    /\ tx \in Graph \cup {NoTx}
    /\ crawler \in [step: {"idle", "from", "to", "edge", "bump"},
                    link: Links \cup {NoLink}]
    /\ crawler.step \in {"from", "to", "edge"} => crawler.link \in Links
    /\ worker \in {"idle", "begun", "written"}
    /\ tx = NoTx <=> worker = "idle"
    /\ fts \in [Rows -> 0..CopyBound]
    /\ {ftsVersion, rankVersion} \subseteq Nat
    /\ ranks \in Ranks
    /\ pc \in [Searches -> Steps]
    /\ mem \in [Searches -> [seen: Nat, rows: SUBSET Rows, ranks: Ranks,
                             nodes: SUBSET Urls, stamp: Nat]]
    /\ suspect \subseteq Searches
    /\ intact \in BOOLEAN

\* What urls_fts may hold: an entry of a text that has since been evicted may stay.
Evicted(r) == graph.content[r[1]] = Stripped(r[2])

\* urls_fts holds every text that is stored in full once, under its URL, and
\* nothing else but texts that have been evicted.
Current ==
    \A r \in Rows :
        ~Evicted(r) => fts[r] = IF r \in Indexed(graph.content) THEN 1 ELSE 0

Claimed == ftsVersion = graph.version

\* Whatever is killed and wherever, an index that claims the version of the
\* graph holds what is stored in full, unless searches ran side by side, a version could
\* not be read, or a text was stored between a rebuild's reading the texts and
\* reading the version: a half-built index never passes for a current one.
ClaimHolds == intact /\ Claimed => Current

\* crawl_graph.rs:500 "a reader never observes new content with a stale version
\* token": whenever other content is committed, so is a later version.
ContentBumpsVersion ==
    [][graph'.content # graph.content => graph'.version > graph.version]_vars

\* No index ever claims a version that the graph has yet to reach, at which it
\* would pass for current; and no rolled back version is ever claimed.
NoFutureClaims == ftsVersion <= graph.version /\ rankVersion <= graph.version

-----------------------------------------------------------------------------
(* What the documentation says and the code does not do *)

\* search.rs:95: the version recorded is the "graph version this FTS index was
\* built from", so that an index that claims it need not be rebuilt.
ClaimAlwaysHolds ==
    Claimed /\ (\A s \in Searches : ~Indexing(s)) => Current

\* crud.rs:49-51: eviction strips a text "keeping the searchable core: embedding,
\* excerpt, link edges, and FTS entry", so that an evicted page is still found.
EvictedStaysSearchable ==
    intact /\ Claimed => \A r \in Rows : Evicted(r) => fts[r] > 0

\* engine/crawl_graph.rs:368: the "nodes whose incoming edges changed" get new
\* scores, which count the links that full recomputation would count.
RanksCountLinks ==
    [][\A s \in Searches : pc[s] = "edges" /\ pc'[s] = "write" =>
        LET full == Recompute(NoRanks, mem[s].nodes, graph.edges)
        IN \A u \in mem[s].nodes : mem'[s].ranks[u] = full[u]]_vars
=============================================================================
