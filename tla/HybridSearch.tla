----------------------------- MODULE HybridSearch -----------------------------
(***************************************************************************)
(* `webfind search` over the stored graph (run() and turso_search() of     *)
(* commands/search.rs): several queries searched side by side, each with   *)
(* its own connection, and their answers fused.                            *)
(*                                                                         *)
(* Every query first brings the indexes up to date, then reads four ranked *)
(* lists, one statement after another: full-text matches, the nearest      *)
(* embeddings, the most central pages and the newest ones.  The first two  *)
(* retrieve, the others only boost (hybrid_search() of                     *)
(* storage/turso_store/search.rs).  A crawl writes meanwhile, a statement  *)
(* or transaction at a time; DerivedIndex has the steps of those.          *)
(***************************************************************************)
EXTENDS RankFusion

CONSTANTS
    Texts,
    Queries,
    Requests,       \* the argument lists, sequences of queries and of Blank
    Blank,
    Matching,       \* the texts that match each query
    Relevance,      \* how well
    Nearness,       \* of a URL's embedding to that of a query
    Authority,      \* PageRank of a URL in hundredths
    Recency,        \* when a URL was discovered
    Rowid,          \* the order of texts that are equally relevant; that of URLs is Before
    Limit,
    MayFail,        \* whether statements may fail
    MaxVersion,     \* bound: the crawl stops at this version
    NoUrl

VARIABLES
    content,        \* page_content: the URL of each text
    embedded,       \* nodes with an embedding
    version,        \* graph_version
    fts,            \* how many rows of urls_fts each text has for each URL
    ftsVersion,
    ranked,         \* URLs with a row of the pagerank table
    rankVersion,
    asked,          \* the queries of the request
    pc,             \* where the search of each query stands
    seen,           \* the version it has read
    rows,           \* the rows its rebuild has yet to insert
    lists,          \* the ranked lists it has read, the version it will stamp, and,
                    \* as history, how many rows matched
    answer,         \* its results, best first
    response,       \* the results of the request
    kept,           \* history: rows stored from a query's start to its match
    disturbed,      \* history: queries that misread the version, trusted an index that was
                    \* not intact, or whose index another cleared
    intact          \* history: urls_fts was right when the request began or has been
                    \* cleared since, and no text was stored while a search copied texts

graphVars == <<content, embedded, version>>
indexVars == <<fts, ftsVersion, ranked, rankVersion>>
queryVars == <<pc, seen, rows, lists, answer>>
history == <<kept, disturbed, intact>>
hybridVars == <<graphVars, indexVars, asked, queryVars, response, history>>

ASSUME HybridSearchAssumption ==
    /\ IsFiniteSet(Urls) /\ IsFiniteSet(Texts)
    /\ NoUrl \notin Urls
    /\ \A args \in Requests :
           args \in Seq(Queries \cup {Blank}) /\ args # <<>> /\ args[1] \in Queries
    /\ Matching \in [Queries -> SUBSET Texts]
    /\ Relevance \in [Queries -> [Texts -> Nat]] /\ Nearness \in [Queries -> [Urls -> Nat]]
    /\ Authority \in [Urls -> Nat] /\ Recency \in [Urls -> Nat]
    /\ Rowid \in [Texts -> Nat] /\ \A t, o \in Texts : Rowid[t] = Rowid[o] => t = o
    /\ Limit \in Nat \ {0}
    /\ MaxVersion \in Nat
    /\ MayFail \in BOOLEAN

Rows == Texts \X Urls
Stored(c) == {r \in Rows : c[r[1]] = r[2]}
NoLists == [bm25 |-> <<>>, vector |-> <<>>, central |-> <<>>, matched |-> 0, stamp |-> 0]

\* A third copy of an index row shows nothing that the second did not.
CopyBound == 2

\* A search has read the version, and has yet to match the index against its query.
Rebuilding(q) == pc[q] \in {"clear", "select", "insert", "version", "stamp"}
Pending(q) == pc[q] \in {"check", "checkRank", "bm25"} \/ Rebuilding(q)

\* It has found the index current, or has begun to insert into it.
Relying(q) == pc[q] \in {"insert", "version", "stamp", "checkRank", "bm25"}

-----------------------------------------------------------------------------
(* The queries of a request *)

\* The first query is taken as it is; of the others, blank and repeated ones
\* are dropped.
AllQueries(args) ==
    LET all[i \in 1..Len(args)] ==
            IF i = 1 THEN <<args[1]>>
            ELSE IF args[i] = Blank \/ args[i] \in ToSet(all[i - 1]) THEN all[i - 1]
            ELSE Append(all[i - 1], args[i])
    IN  all[Len(args)]

Asked == ToSet(asked)

\* An earlier search may have been killed at any place of its rebuild, and may have
\* left an index that claims the version of the graph and has not all of its texts.
HybridInit ==
    /\ content \in [Texts -> Urls \cup {NoUrl}]
    /\ embedded \in {{}, {u \in Urls : \E t \in Texts : content[t] = u}}
    /\ version = 2
    /\ \E had \in SUBSET Stored(content), stamped \in BOOLEAN :
        /\ fts = [r \in Rows |-> IF r \in had THEN 1 ELSE 0]
        /\ ftsVersion = IF stamped THEN version ELSE 1
        /\ intact = (stamped => had = Stored(content))
        /\ ranked = IF stamped THEN Urls ELSE {}
        /\ rankVersion = IF stamped THEN version ELSE 0
    /\ \E args \in Requests : asked = AllQueries(args)
    /\ pc = [q \in Queries |-> IF q \in Asked THEN "start" ELSE "idle"]
    /\ seen = [q \in Queries |-> 0]
    /\ rows = [q \in Queries |-> {}]
    /\ lists = [q \in Queries |-> NoLists]
    /\ answer = [q \in Queries |-> <<>>]
    /\ response = [status |-> "open", results |-> <<>>]
    /\ kept = [q \in Queries |-> {}]
    /\ disturbed = {}

-----------------------------------------------------------------------------
(* The crawl: every URL is a node already *)

CanWrite == response.status = "open" /\ version < MaxVersion

\* record_page_content(): the row of a text is inserted or taken over.
StoreText(t, u) ==
    /\ CanWrite
    /\ content' = [content EXCEPT ![t] = u]
    /\ version' = version + 1
    /\ kept' = [q \in Queries |->
                    IF Pending(q) THEN {r \in kept[q] : r[1] # t \/ r[2] = u} ELSE kept[q]]
    /\ intact' = (intact /\ \A q \in Asked : pc[q] \notin {"insert", "version"})
    /\ UNCHANGED <<embedded, indexVars, asked, queryVars, response, disturbed>>

\* record_embedding(), whose bump of the version is a Touch.
Embed(u) ==
    /\ CanWrite
    /\ \E t \in Texts : content[t] = u
    /\ embedded' = embedded \cup {u}
    /\ UNCHANGED <<content, version, indexVars, asked, queryVars, response, history>>

\* bump_graph_version(), of an embedding, a URL or a link.
Touch ==
    /\ CanWrite
    /\ version' = version + 1
    /\ UNCHANGED <<content, embedded, indexVars, asked, queryVars, response, history>>

-----------------------------------------------------------------------------
(* The search of one query: its indexes *)

\* A version that cannot be read is reported as a default.
Misread(default) == IF MayFail THEN {default} ELSE {}
GraphVersions == {version} \cup Misread(1)

ReadVersion(q) ==
    /\ pc[q] = "start"
    /\ pc' = [pc EXCEPT ![q] = "check"]
    /\ \E v \in GraphVersions :
        /\ seen' = [seen EXCEPT ![q] = v]
        /\ disturbed' = IF v = version THEN disturbed ELSE disturbed \cup {q}
    /\ kept' = [kept EXCEPT ![q] = Stored(content)]
    /\ UNCHANGED <<graphVars, indexVars, asked, rows, lists, answer, response, intact>>

\* CheckFts that looks at the stamp of the other index (mutant).
CheckFtsByRank(q) ==
    /\ pc[q] = "check"
    /\ \E stamp \in {rankVersion} \cup Misread(0) :
        \/ /\ stamp = seen[q]
           /\ pc' = [pc EXCEPT ![q] = "checkRank"]
           /\ disturbed' = IF intact /\ \A o \in Asked : ~Rebuilding(o) THEN disturbed
                           ELSE disturbed \cup {q}
        \/ /\ stamp # seen[q]
           /\ pc' = [pc EXCEPT ![q] = "clear"]
           /\ UNCHANGED disturbed
    /\ UNCHANGED <<graphVars, indexVars, asked, seen, rows, lists, answer, response, kept, intact>>

\* An index that has the version is trusted.
CheckFts(q) ==
    /\ pc[q] = "check"
    /\ \E stamp \in {ftsVersion} \cup Misread(0) :
        \/ /\ stamp = seen[q]
           /\ pc' = [pc EXCEPT ![q] = "checkRank"]
           /\ disturbed' = IF intact /\ \A o \in Asked : ~Rebuilding(o) THEN disturbed
                           ELSE disturbed \cup {q}
        \/ /\ stamp # seen[q]
           /\ pc' = [pc EXCEPT ![q] = "clear"]
           /\ UNCHANGED disturbed
    /\ UNCHANGED <<graphVars, indexVars, asked, seen, rows, lists, answer, response, kept, intact>>

ClearFts(q) ==
    /\ pc[q] = "clear"
    /\ fts' = [r \in Rows |-> 0]
    /\ intact' = TRUE
    /\ disturbed' = disturbed \cup {o \in Asked \ {q} : Relying(o)}
    /\ pc' = [pc EXCEPT ![q] = "select"]
    /\ UNCHANGED <<graphVars, ftsVersion, ranked, rankVersion, asked, seen, rows, lists, answer,
                   response, kept>>

SelectTexts(q) ==
    /\ pc[q] = "select"
    /\ rows' = [rows EXCEPT ![q] = Stored(content)]
    /\ pc' = [pc EXCEPT ![q] = "insert"]
    /\ UNCHANGED <<graphVars, indexVars, asked, seen, lists, answer, response, history>>

InsertRow(q) ==
    /\ pc[q] = "insert"
    /\ \/ \E r \in rows[q] :
            /\ fts' = [fts EXCEPT ![r] = LeastOf(CopyBound, @ + 1)]
            /\ rows' = [rows EXCEPT ![q] = @ \ {r}]
            /\ UNCHANGED pc
       \/ /\ rows[q] = {}
          /\ pc' = [pc EXCEPT ![q] = "version"]
          /\ UNCHANGED <<fts, rows>>
    /\ UNCHANGED <<graphVars, ftsVersion, ranked, rankVersion, asked, seen, lists, answer,
                   response, history>>

\* The version is read, and then stamped; what is next is decided by the version
\* read at the start, which seen keeps beside it.
StampFts(q) ==
    /\ \/ /\ pc[q] = "version"
          /\ \E v \in GraphVersions : lists' = [lists EXCEPT ![q].stamp = v]
          /\ pc' = [pc EXCEPT ![q] = "stamp"]
          /\ UNCHANGED ftsVersion
       \/ /\ pc[q] = "stamp"
          /\ ftsVersion' = lists[q].stamp
          /\ pc' = [pc EXCEPT ![q] = "checkRank"]
          /\ UNCHANGED lists
    /\ UNCHANGED <<graphVars, fts, ranked, rankVersion, asked, seen, rows, answer, response, history>>

\* compute_pagerank() writes the scores and their version in one transaction.
CheckRank(q) ==
    /\ pc[q] = "checkRank"
    /\ pc' = [pc EXCEPT ![q] = "bm25"]
    /\ \E stamp \in {rankVersion} \cup Misread(0) :
        \/ stamp = seen[q] /\ UNCHANGED <<ranked, rankVersion>>
        \/ stamp # seen[q] /\ ranked' = Urls /\ rankVersion' \in GraphVersions
    /\ UNCHANGED <<graphVars, fts, ftsVersion, asked, seen, rows, lists, answer, response, history>>

-----------------------------------------------------------------------------
(* hybrid_search() *)

\* Rows of the index that match, with a place for each copy.
MatchingRows(q) ==
    {r \in Matching[q] \X Urls \X (1..CopyBound) : r[3] <= fts[<<r[1], r[2]>>]}

\* bm25_search(): the best rows, so that a URL is there as often as it has texts.
Bm25Search(q) ==
    LET best == InOrder(MatchingRows(q), LAMBDA a, b :
                    \/ Relevance[q][a[1]] > Relevance[q][b[1]]
                    \/ /\ Relevance[q][a[1]] = Relevance[q][b[1]]
                       /\ \/ Rowid[a[1]] < Rowid[b[1]]
                          \/ a[1] = b[1] /\ a[3] < b[3]
                          \/ a[1] = b[1] /\ a[3] = b[3] /\ Before[a[2]] < Before[b[2]])
    IN  [i \in 1..LeastOf(Limit, Len(best)) |-> best[i][2]]

\* The first so many by a measure: pagerank_scores_top() for one.
ByMost(measure, urls) ==
    First(Limit, InOrder(urls, LAMBDA a, b :
        measure[a] > measure[b] \/ (measure[a] = measure[b] /\ Before[a] < Before[b])))

\* freshness_scores_top(), of which only the order is used.
Newest == ByMost(Recency, Urls)

\* vector_search() without an index: every embedding is compared.
VectorSearch(q) == ByMost(Nearness[q], embedded)

\* Reciprocal ranks of all the places a URL has in a list.
RankScore(list, u) ==
    MapThenSumSet(LAMBDA i : Share(i), {i \in 1..Len(list) : list[i] = u})

\* The query's own lists retrieve; being central or new adds no page.
Candidates(l) == ToSet(l.bm25) \cup ToSet(l.vector)

\* Authority adds up to 0.05, being new 0.03.
Boost(l, newest, u) ==
    (IF u \in ToSet(l.central) THEN (Unit * Authority[u]) \div 2000 ELSE 0)
    + (IF u \in ToSet(newest) THEN (3 * Unit) \div 100 ELSE 0)

Score(l, newest, u) == RankScore(l.bm25, u) + RankScore(l.vector, u) + Boost(l, newest, u)

\* Sorted by score; equals are in the order of a hash map.
Hybrids(l, newest) ==
    {First(Limit, s) : s \in {s \in SetToSeqs(Candidates(l)) :
        \A i, j \in 1..Len(s) : i < j => Score(l, newest, s[i]) >= Score(l, newest, s[j])}}

MatchTexts(q) ==
    /\ pc[q] = "bm25"
    /\ lists' = [lists EXCEPT ![q].bm25 = Bm25Search(q),
                              ![q].matched = Cardinality(MatchingRows(q))]
    /\ pc' = [pc EXCEPT ![q] = "vector"]
    /\ UNCHANGED <<graphVars, indexVars, asked, seen, rows, answer, response, history>>

CompareEmbeddings(q) ==
    /\ pc[q] = "vector"
    /\ lists' = [lists EXCEPT ![q].vector = VectorSearch(q)]
    /\ pc' = [pc EXCEPT ![q] = "central"]
    /\ UNCHANGED <<graphVars, indexVars, asked, seen, rows, answer, response, history>>

ReadCentral(q) ==
    /\ pc[q] = "central"
    /\ lists' = [lists EXCEPT ![q].central = ByMost(Authority, ranked)]
    /\ pc' = [pc EXCEPT ![q] = "newest"]
    /\ UNCHANGED <<graphVars, indexVars, asked, seen, rows, answer, response, history>>

\* The last list is read, and all are fused; search() adds what is shown of each hit.
Answer(q) ==
    /\ pc[q] = "newest"
    /\ \E hits \in Hybrids(lists[q], Newest) :
        answer' = [answer EXCEPT ![q] = hits]
    /\ pc' = [pc EXCEPT ![q] = "answered"]
    /\ UNCHANGED <<graphVars, indexVars, asked, seen, rows, lists, response, history>>

-----------------------------------------------------------------------------
(* run() *)

\* What is fused: a list for each response.
Responses ==
    [i \in 1..Len(asked) |-> [hits |-> answer[asked[i]], weight |-> 1, engine |-> asked[i]]]

\* A page is shown as the first response has it.
Shown(page) == Earliest({h \in Hits(Responses) : Canon[h.url] = page}).url

\* FusedResults of a map keyed by the URL as it is (mutant).
FusedResultsByUrl ==
    LET present == SelectSeq(First(Limit, ByScore(Fuse(Responses))),
                             LAMBDA hit : hit.url = Canon[hit.url])
    IN  [i \in 1..Len(present) |-> Shown(Canon[present[i].url])]

\* Reciprocal ranks over the queries' answers.
FusedResults ==
    LET best == First(Limit, ByScore(Fuse(Responses)))
    IN  [i \in 1..Len(best) |-> Shown(Canon[best[i].url])]

Respond ==
    /\ response.status = "open"
    /\ \A q \in Asked : pc[q] = "answered"
    /\ response' = [status |-> "done",
                    results |-> IF Len(asked) = 1 THEN answer[asked[1]] ELSE FusedResults]
    /\ UNCHANGED <<graphVars, indexVars, asked, queryVars, history>>

\* A statement of one query fails, as a write does that finds the database
\* locked: the request fails, and the searches beside it are dropped.
Fail(q) ==
    /\ MayFail
    /\ response.status = "open"
    /\ pc[q] \in {"clear", "select", "insert", "stamp", "checkRank",
                  "bm25", "vector", "central", "newest"}
    /\ response' = [status |-> "failed", results |-> <<>>]
    /\ pc' = [o \in Queries |-> "idle"]
    /\ seen' = [o \in Queries |-> 0]
    /\ rows' = [o \in Queries |-> {}]
    /\ lists' = [o \in Queries |-> NoLists]
    /\ answer' = [o \in Queries |-> <<>>]
    /\ UNCHANGED <<graphVars, indexVars, asked, history>>

Search(q) ==
    \/ ReadVersion(q) \/ CheckFts(q) \/ ClearFts(q) \/ SelectTexts(q) \/ InsertRow(q)
    \/ StampFts(q) \/ CheckRank(q) \/ MatchTexts(q) \/ CompareEmbeddings(q) \/ ReadCentral(q)
    \/ Answer(q) \/ Fail(q)

HybridNext ==
    \/ \E q \in Queries : Search(q)
    \/ Respond
    \/ \E t \in Texts, u \in Urls : StoreText(t, u)
    \/ \E u \in Urls : Embed(u)
    \/ Touch

HybridSpec == HybridInit /\ [][HybridNext]_hybridVars

-----------------------------------------------------------------------------

Stages == {"idle", "start", "check", "clear", "select", "insert", "version", "stamp",
           "checkRank", "bm25", "vector", "central", "newest", "answered"}

Lists == [bm25 : Seq(Urls), vector : Seq(Urls), central : Seq(Urls), matched : Nat, stamp : Nat]

HybridTypeOK ==
    /\ content \in [Texts -> Urls \cup {NoUrl}]
    /\ embedded \subseteq Urls /\ ranked \subseteq Urls
    /\ version \in Nat /\ ftsVersion \in Nat /\ rankVersion \in Nat
    /\ fts \in [Rows -> 0..CopyBound]
    /\ Asked \subseteq Queries
    /\ pc \in [Queries -> Stages]
    /\ \A q \in Queries \ Asked : pc[q] = "idle"
    /\ seen \in [Queries -> Nat]
    /\ rows \in [Queries -> SUBSET Rows]
    /\ lists \in [Queries -> Lists]
    /\ answer \in [Queries -> Seq(Urls)]
    /\ response.status \in {"open", "done", "failed"}
    /\ kept \in [Queries -> SUBSET Rows]
    /\ disturbed \subseteq Queries /\ intact \in BOOLEAN

\* A page whose text matches and was stored from the start of a query's search until
\* its match is among the answers (commands/search.rs:862 "Ensure the derived indexes are
\* current so search returns full signals"), whatever the crawl writes and the searches
\* beside it do, with four exceptions.  The answers, or the matching rows, are more than
\* the limit.  The search misread the version of the graph.  It trusted an index that
\* another search is rebuilding, that was wrong when the request began, or that was
\* stamped with a version later than its texts.  Or another search cleared the index
\* after this one had trusted it or begun to insert into it.
MatchesFound ==
    \A q \in Asked \ disturbed : pc[q] = "answered" =>
        \A r \in kept[q] :
            r[1] \in Matching[q] =>
                \/ r[2] \in ToSet(answer[q])
                \/ Len(answer[q]) = Limit
                \/ lists[q].matched > Limit

\* The claim without its exceptions.
EveryMatchFound ==
    \A q \in Asked : pc[q] = "answered" =>
        \A r \in kept[q] : r[1] \in Matching[q] => r[2] \in ToSet(answer[q]) \/ Len(answer[q]) = Limit

\* The boosts break ties only (storage/turso_store/search.rs:361 "only as
\* *tie-breakers and mild boosts*"): a page first in both of the query's lists comes first.  Being among the
\* newest is worth more than any difference of ranks.
BestMatchFirst ==
    \A q \in Asked :
        pc[q] = "answered" /\ lists[q].bm25 # <<>> /\ lists[q].vector # <<>>
            /\ Head(lists[q].bm25) = Head(lists[q].vector)
        => Head(answer[q]) = Head(lists[q].bm25)

\* The fused answer of several queries has every page that one of them found, once,
\* as far as the limit allows (commands/search.rs:1097 "canonical URL
\* deduplication"), in whichever spelling each found it.
FusionComplete ==
    response.status = "done" /\ Len(asked) > 1 =>
        LET found == {Canon[u] : u \in UNION {ToSet(answer[q]) : q \in Asked}}
            shown == {Canon[u] : u \in ToSet(response.results)}
        IN  /\ shown \subseteq found
            /\ Cardinality(shown) = Len(response.results)
            /\ Len(response.results) = LeastOf(Limit, Cardinality(found))

=============================================================================
