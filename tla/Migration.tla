------------------------------- MODULE Migration -------------------------------
(***************************************************************************)
(* `webfind migrate` (storage/migrate.rs): a JSON export of a graph is     *)
(* imported into a database, the nodes and edges in one transaction, then  *)
(* every content record and every crawl job in writes of their own, and    *)
(* success is reported when the four tables count as many rows as the      *)
(* export has.                                                             *)
(*                                                                         *)
(* An import may fail or be killed between any two writes, and be run      *)
(* again, with the same export or another, over what the last one left.    *)
(* The PageRank cache that an import computes is a subject of DerivedIndex.*)
(***************************************************************************)
EXTENDS Naturals, Sequences, FiniteSets

CONSTANTS
    NodeUrls, Hashes, Statuses,
    NoStatus,       \* a job of the export without a status
    Exports,        \* the files that may be imported
    ForeignKeys,    \* whether the SQLite underneath was built to enforce REFERENCES
    MaxRuns         \* bound

VARIABLES
    phase,          \* idle, graph, contents, jobs, mark, index or verify
    export,         \* the file being imported, or imported last
    next,           \* position in page_content or crawl_jobs
    nodes, edges, contents, jobs,   \* the tables; edges in the order of their row ids
    indexed,        \* urls_fts: the content rows it was filled from
    outcome,        \* of the last import: none, success, mismatch or failed
    clean,          \* history: whether the last import began on empty tables
    runs

tables == <<nodes, edges, contents, jobs>>
migrateVars == <<phase, export, next, tables, indexed, outcome, clean, runs>>

Exported ==
    [valid : BOOLEAN,   \* version 1 and embeddings of one dimension
     nodes : Seq([url : NodeUrls, crawled : BOOLEAN]),
     edges : Seq([from : NodeUrls, to : NodeUrls]),
     contents : Seq([hash : Hashes, url : NodeUrls, text : BOOLEAN]),
     jobs : Seq([url : NodeUrls, status : Statuses \cup {NoStatus}])]

ASSUME MigrationAssumption ==
    /\ Exports \subseteq Exported /\ Exports # {}
    /\ "pending" \in Statuses /\ NoStatus \notin Statuses
    /\ ForeignKeys \in BOOLEAN
    /\ MaxRuns \in Nat

Items(s) == {s[i] : i \in DOMAIN s}

MigrateInit ==
    /\ phase = "idle" /\ export \in Exports /\ next = 1
    /\ nodes = {} /\ edges = <<>> /\ contents = {} /\ jobs = {}
    /\ indexed = {}
    /\ outcome = "none" /\ clean = TRUE /\ runs = 0

-----------------------------------------------------------------------------
(* What the export asks for *)

Declared(e) == {n.url : n \in Items(e.nodes)}

\* The endpoints of edges that the export has no node for.
Stubs(e) == (UNION {{l.from, l.to} : l \in Items(e.edges)}) \ Declared(e)

\* Of several records of one URL the last stays.
LastOf(s, u) ==
    s[CHOOSE i \in DOMAIN s : s[i].url = u /\ \A j \in DOMAIN s : s[j].url = u => j <= i]

\* The mutant imports what the export declares.
BatchWithoutStubs(e) == {LastOf(e.nodes, u) : u \in Declared(e)}

Batch(e) ==
    {LastOf(e.nodes, u) : u \in Declared(e)}
        \cup {[url |-> u, crawled |-> FALSE] : u \in Stubs(e)}

Known == {n.url : n \in nodes}

-----------------------------------------------------------------------------
(* The import *)

\* Parsed, of the right version, of one dimension: else nothing is touched.
BeginImport(e) ==
    /\ phase = "idle" /\ runs < MaxRuns
    /\ runs' = runs + 1
    /\ export' = e /\ next' = 1
    /\ clean' = (nodes = {} /\ edges = <<>> /\ contents = {} /\ jobs = {})
    /\ IF e.valid
         THEN phase' = "graph" /\ outcome' = "none"
         ELSE phase' = "idle" /\ outcome' = "failed"
    /\ UNCHANGED <<tables, indexed>>

\* migrate_batch: nodes are inserted or overwritten, edges are always inserted.
MigrateBatch ==
    /\ phase = "graph"
    /\ nodes' = {n \in nodes : \A m \in Batch(export) : m.url # n.url} \cup Batch(export)
    /\ edges' = edges \o export.edges
    /\ ForeignKeys => \A l \in Items(edges') : {l.from, l.to} \subseteq {n.url : n \in nodes'}
    /\ phase' = "contents"
    /\ UNCHANGED <<export, next, contents, jobs, indexed, outcome, clean, runs>>

\* record_page_content: the row of the same hash is overwritten, and the node of the
\* page, if there is one, is crawled from now on.
ImportContent ==
    /\ phase = "contents" /\ next <= Len(export.contents)
    /\ LET c == export.contents[next] IN
       /\ ForeignKeys => c.url \in Known
       /\ contents' = {d \in contents : d.hash # c.hash} \cup {c}
       /\ nodes' = {n \in nodes : n.url # c.url}
                       \cup {[url |-> u, crawled |-> TRUE] : u \in Known \cap {c.url}}
    /\ next' = next + 1
    /\ UNCHANGED <<phase, export, edges, jobs, indexed, outcome, clean, runs>>

ContentsDone ==
    /\ phase = "contents" /\ next > Len(export.contents)
    /\ phase' = "jobs" /\ next' = 1
    /\ UNCHANGED <<export, tables, indexed, outcome, clean, runs>>

\* enqueue_crawl_job: a job of the URL that is there stays as it is.
EnqueueJob ==
    /\ phase = "jobs" /\ next <= Len(export.jobs)
    /\ LET u == export.jobs[next].url IN
       jobs' = IF \E j \in jobs : j.url = u THEN jobs
               ELSE jobs \cup {[url |-> u, status |-> "pending"]}
    /\ phase' = "mark"
    /\ UNCHANGED <<export, next, nodes, edges, contents, indexed, outcome, clean, runs>>

MarkJob ==
    /\ phase = "mark"
    /\ LET j == export.jobs[next] IN
       jobs' = IF j.status = NoStatus THEN jobs
               ELSE {k \in jobs : k.url # j.url} \cup {j}
    /\ phase' = "jobs" /\ next' = next + 1
    /\ UNCHANGED <<export, nodes, edges, contents, indexed, outcome, clean, runs>>

JobsDone ==
    /\ phase = "jobs" /\ next > Len(export.jobs)
    /\ phase' = "index"
    /\ UNCHANGED <<export, next, tables, indexed, outcome, clean, runs>>

\* rebuild_fts: rows with a text whose node exists.
RebuildFts ==
    /\ phase = "index"
    /\ indexed' = {c \in contents : c.text /\ c.url \in Known}
    /\ phase' = "verify"
    /\ UNCHANGED <<export, next, tables, outcome, clean, runs>>

\* verify_row_counts.  The mutant takes the contents on trust.
CountsMatchButContents ==
    /\ Cardinality(nodes) = Len(export.nodes) + Cardinality(Stubs(export))
    /\ Len(edges) = Len(export.edges)
    /\ Cardinality(jobs) = Len(export.jobs)

CountsMatch ==
    /\ Cardinality(nodes) = Len(export.nodes) + Cardinality(Stubs(export))
    /\ Len(edges) = Len(export.edges)
    /\ Cardinality(contents) = Len(export.contents)
    /\ Cardinality(jobs) = Len(export.jobs)

Verify ==
    /\ phase = "verify"
    /\ outcome' = IF CountsMatch THEN "success" ELSE "mismatch"
    /\ phase' = "idle"
    /\ UNCHANGED <<export, next, tables, indexed, clean, runs>>

\* A write fails, or the process is killed: what was committed stays.  Killed in the
\* middle of rebuild_fts it leaves a part of the index.
Abort ==
    /\ phase # "idle"
    /\ outcome' = "failed" /\ phase' = "idle"
    /\ indexed' \in {indexed} \cup IF phase = "index" THEN SUBSET contents ELSE {}
    /\ UNCHANGED <<export, next, tables, clean, runs>>

MigrateNext ==
    \/ \E e \in Exports : BeginImport(e)
    \/ MigrateBatch
    \/ ImportContent \/ ContentsDone
    \/ EnqueueJob \/ MarkJob \/ JobsDone
    \/ RebuildFts \/ Verify
    \/ Abort

MigrateSpec == MigrateInit /\ [][MigrateNext]_migrateVars

-----------------------------------------------------------------------------
(* Properties *)

MigrateTypeOK ==
    /\ phase \in {"idle", "graph", "contents", "jobs", "mark", "index", "verify"}
    /\ export \in Exports /\ next \in Nat \ {0}
    /\ phase = "mark" => next <= Len(export.jobs)
    /\ nodes \subseteq [url : NodeUrls, crawled : BOOLEAN]
    /\ edges \in Seq([from : NodeUrls, to : NodeUrls])
    /\ contents \subseteq [hash : Hashes, url : NodeUrls, text : BOOLEAN]
    /\ jobs \subseteq [url : NodeUrls, status : Statuses]
    /\ indexed \subseteq [hash : Hashes, url : NodeUrls, text : BOOLEAN]
    /\ outcome \in {"none", "success", "mismatch", "failed"}
    /\ clean \in BOOLEAN /\ runs \in Nat

\* Every edge joins two nodes of the database, after any number of imports, aborted at
\* any point (migrate.rs:213: "so edges never dangle"), and there is one row per URL.
NoDanglingEdges ==
    /\ \A l \in Items(edges) : l.from \in Known /\ l.to \in Known
    /\ \A m, n \in nodes : m.url = n.url => m = n

\* The rows of the export's jobs: one without a status is pending.
Final(j) == IF j.status = NoStatus THEN [j EXCEPT !.status = "pending"] ELSE j

FinalJobs(e) == {Final(j) : j \in Items(e.jobs)}

\* A reported success is an exact one, when the import began on an empty database: equal
\* counts of rows imply equal tables, since of records that collide only one becomes a
\* row.  Every content with a text is in the full-text index, if its node exists, every
\* page with content is crawled and every job has its status (migrate.rs:282-291).
SuccessIsExact ==
    outcome = "success" /\ clean =>
        /\ Known = Declared(export) \cup Stubs(export)
        /\ edges = export.edges
        /\ contents = Items(export.contents)
        /\ \A c \in contents : \A n \in nodes : n.url = c.url => n.crawled
        /\ \A c \in contents : c.text /\ c.url \in Known => c \in indexed
        /\ jobs = FinalJobs(export)

\* What the doc says of a database that exists: "it is **overwritten** after a successful
\* import" (migrate.rs:147), and the report of the command line with it.  So an export
\* without colliding records is never refused for the rows that were there.
Collides(e) ==
    \/ \E i, j \in DOMAIN e.nodes : i # j /\ e.nodes[i].url = e.nodes[j].url
    \/ \E i, j \in DOMAIN e.contents : i # j /\ e.contents[i].hash = e.contents[j].hash
    \/ \E i, j \in DOMAIN e.jobs : i # j /\ e.jobs[i].url = e.jobs[j].url

OverwritesExisting == outcome = "mismatch" => Collides(export)
=============================================================================
