------------------------------ MODULE StoreProofs ------------------------------
(***************************************************************************)
(* What holds of a store: of its derived indexes (DerivedIndex), for any   *)
(* pages, texts, searches and faults; and of an import (Migration), for    *)
(* any exports, whether or not the database enforces its foreign keys, and *)
(* however often imports are aborted and run again.                        *)
(***************************************************************************)
EXTENDS DerivedIndex, Migration, FiniteSetTheorems, SequenceTheorems, TLAPS

USE DEF crawlVars, ftsVars, rankVars, searchVars, history

-----------------------------------------------------------------------------
(* Types *)

\* What a search remembers.
Mem == [seen: Nat, rows: SUBSET Rows, ranks: Ranks, nodes: SUBSET Urls,
        stamp: Nat]

LEMMA NoRanksTyped == NoRanks \in Ranks
<1>1. NoRanks \in [{} -> SUBSET Links]
  BY DEF NoRanks
<1>2. {} \in SUBSET Urls
  OBVIOUS
<1> QED BY <1>1, <1>2 DEF Ranks

LEMMA NoMemTyped == NoMem \in Mem
BY NoRanksTyped DEF NoMem, Mem

\* Looking upstream finds URLs.
LEMMA AffectedTyped ==
    ASSUME NEW known \in SUBSET Urls, NEW links \in SUBSET Links
    PROVE  Affected(known, links) \subseteq Urls
<1>1. ASSUME NEW urls \in SUBSET Urls
      PROVE  Hop(urls, links) \in SUBSET Urls
  <2>1. \A e \in links : e[1] \in Urls
    BY DerivedIndexAssumption
  <2> QED BY <1>1, <2>1 DEF Hop
<1>2. Hop(known, links) \in SUBSET Urls
  BY <1>1
<1>3. Hop(Hop(known, links), links) \in SUBSET Urls
  BY <1>1, <1>2
<1>4. Hop(Hop(Hop(known, links), links), links) \in SUBSET Urls
  BY <1>1, <1>3
<1>5. Hop(Hop(Hop(Hop(known, links), links), links), links) \in SUBSET Urls
  BY <1>1, <1>4
<1>6. Hop(Hop(Hop(Hop(Hop(known, links), links), links), links), links)
          \in SUBSET Urls
  BY <1>1, <1>5
<1> QED BY <1>6 DEF Affected

\* Scores are recomputed for URLs only, from recorded links.
LEMMA RecomputeTyped ==
    ASSUME NEW old \in Ranks, NEW pages \in SUBSET Urls,
           NEW links \in SUBSET Links
    PROVE  Recompute(old, pages, links) \in Ranks
<1>1. PICK known \in SUBSET Urls : old \in [known -> SUBSET Links]
  BY DEF Ranks
<1> DEFINE affected == IF DOMAIN old = {} THEN pages
                       ELSE Affected(DOMAIN old, links)
           scored == DOMAIN old \cup pages \cup affected
           counted(u) == {l \in links : l[2] = u /\ l[1] \in scored}
           new == [u \in scored |-> IF u \in affected THEN counted(u) ELSE {}]
<1>2. DOMAIN old \in SUBSET Urls
  BY <1>1
<1>3. affected \in SUBSET Urls
  BY <1>2, AffectedTyped
<1>4. scored \in SUBSET Urls
  BY <1>2, <1>3
<1>5. new \in [scored -> SUBSET Links]
  OBVIOUS
<1>6. new \in Ranks
  <2> HIDE DEF new, scored
  <2> QED BY <1>4, <1>5 DEF Ranks
<1>7. Recompute(old, pages, links) = IF pages = {} THEN NoRanks ELSE new
  BY DEF Recompute
<1> QED BY <1>6, <1>7, NoRanksTyped

-----------------------------------------------------------------------------
(* Type correctness *)

LEMMA ViewTyped == ASSUME TypeOK PROVE View \in Graph
BY DEF TypeOK, View

\* A statement of the crawl process changes the rows as its transaction, if it
\* has one, sees them, and otherwise the committed ones.
LEMMA PutTyped ==
    ASSUME TypeOK, NEW g \in Graph, Put(g), UNCHANGED worker
    PROVE  /\ graph' \in Graph
           /\ tx' \in Graph \cup {NoTx}
           /\ tx' = NoTx <=> worker' = "idle"
BY DerivedIndexAssumption DEF TypeOK, Put

LEMMA RowsTyped ==
    /\ \A u \in Urls : FullText(u) \in Stored
    /\ \A row \in {FullText(u) : u \in Urls} : Stripped(row.url) \in Stored
BY DEF FullText, Stripped, Stored

\* The worker's transaction changes the texts and raises the version by one.
LEMMA WriteTyped ==
    ASSUME NEW g \in Graph, NEW content \in [Texts -> Stored \cup {NoRow}],
           NEW h, h = [g EXCEPT !.content = content, !.version = @ + 1]
    PROVE  h \in Graph /\ h.version = g.version + 1
<1>1. g.version + 1 \in Nat
  BY DEF Graph
<1>2. /\ DOMAIN h = {"content", "nodes", "edges", "version"}
      /\ h.content = content
      /\ h.nodes = g.nodes
      /\ h.edges = g.edges
      /\ h.version = g.version + 1
  BY DEF Graph
<1>3. h = [content |-> content, nodes |-> g.nodes, edges |-> g.edges,
           version |-> g.version + 1]
  BY DEF Graph
<1> QED BY <1>1, <1>2, <1>3 DEF Graph

LEMMA InitType == Init => TypeOK
<1> SUFFICES ASSUME Init PROVE TypeOK
  OBVIOUS
<1>1. graph \in Graph
  BY DEF Init, Graph
<1>2. mem \in [Searches -> Mem] /\ ranks \in Ranks
  BY NoMemTyped, NoRanksTyped DEF Init
<1> QED BY <1>1, <1>2 DEF Init, TypeOK, Mem, Steps, CopyBound

LEMMA CrawlType == TypeOK /\ Crawl => TypeOK'
<1> SUFFICES ASSUME TypeOK, Crawl PROVE TypeOK'
  OBVIOUS
<1> USE DEF TypeOK
<1>1. View \in Graph
  BY ViewTyped
<1>2. /\ View.nodes \in SUBSET Urls
      /\ View.edges \in SUBSET Links
      /\ View.version \in Nat
  BY <1>1 DEF Graph
<1>3. ASSUME NEW u \in Urls, RecordUrl(u) PROVE TypeOK'
  <2>1. [View EXCEPT !.nodes = @ \cup {u}] \in Graph
    BY <1>1, <1>2 DEF Graph
  <2> QED BY <1>3, <2>1, PutTyped DEF RecordUrl
<1>4. ASSUME NEW l \in Links, RecordLink(l) PROVE TypeOK'
  BY <1>4 DEF RecordLink
<1>5. ASSUME NEW step \in {"from", "to"}, NEW end \in {1, 2},
             NEW following \in {"to", "edge"}, Placeholder(step, end, following)
      PROVE  TypeOK'
  <2>1. crawler.link \in Links
    BY <1>5 DEF Placeholder
  <2>2. crawler.link[end] \in Urls
    BY <2>1, DerivedIndexAssumption
  <2>3. [View EXCEPT !.nodes = @ \cup {crawler.link[end]}] \in Graph
    BY <1>1, <1>2, <2>2 DEF Graph
  <2>4. CASE Put([View EXCEPT !.nodes = @ \cup {crawler.link[end]}])
    BY <1>5, <2>1, <2>3, <2>4, PutTyped DEF Placeholder
  <2>5. CASE UNCHANGED <<graph, tx>>
    BY <1>5, <2>1, <2>5 DEF Placeholder
  <2> QED BY <1>5, <2>4, <2>5 DEF Placeholder
<1>6. CASE RecordEdge
  <2>1. crawler.link \in Links
    BY <1>6 DEF RecordEdge
  <2>2. [View EXCEPT !.edges = @ \cup {crawler.link}] \in Graph
    BY <1>1, <1>2, <2>1 DEF Graph
  <2>3. CASE Put([View EXCEPT !.edges = @ \cup {crawler.link}])
             /\ crawler' = [step |-> "bump", link |-> NoLink]
    BY <1>6, <2>2, <2>3, PutTyped DEF RecordEdge
  <2>4. CASE UNCHANGED <<graph, tx>>
             /\ crawler' = [step |-> "idle", link |-> NoLink]
    BY <1>6, <2>4 DEF RecordEdge
  <2> QED BY <1>6, <2>3, <2>4 DEF RecordEdge
<1>7. [View EXCEPT !.version = @ + 1] \in Graph
  <2>1. View.version + 1 \in Nat
    BY ONLY <1>2
  <2>2. QED
    BY ONLY <1>1, <2>1 DEF Graph
<1>8. CASE Bump
  <2>1. CASE Put([View EXCEPT !.version = @ + 1])
    BY <1>7, <1>8, <2>1, PutTyped DEF Bump
  <2>2. CASE UNCHANGED <<graph, tx>>
    BY <1>8, <2>2 DEF Bump
  <2> QED BY <1>8, <2>1, <2>2 DEF Bump
<1>9. CASE RecordEmbedding
  <2>1. graph \in Graph
    OBVIOUS
  <2> HIDE DEF TypeOK
  <2>2. [graph EXCEPT !.version = @ + 1] \in Graph
    BY <2>1 DEF Graph
  <2> USE DEF TypeOK
  <2> QED BY <1>9, <2>2 DEF RecordEmbedding
<1>10. CASE Begin
  BY <1>10, DerivedIndexAssumption DEF Begin
<1>11. ASSUME NEW t \in Texts, NEW u \in Urls, WriteText(t, u) PROVE TypeOK'
  <2>1. tx \in Graph
    BY <1>11 DEF WriteText
  <2>2. [tx.content EXCEPT ![t] = FullText(u)]
            \in [Texts -> Stored \cup {NoRow}]
    BY <2>1, RowsTyped DEF Graph
  <2>3. tx' \in Graph
    BY <1>11, <2>1, <2>2, WriteTyped DEF WriteText
  <2>4. worker' = "written" /\ UNCHANGED <<graph, crawler, searchVars, history>>
    BY <1>11 DEF WriteText
  <2> QED BY <2>4, <2>3, DerivedIndexAssumption
<1>12. ASSUME NEW old \in SUBSET Texts, Evict(old) PROVE TypeOK'
  <2>1. tx \in Graph
    BY <1>12 DEF Evict
  <2>2. [t \in Texts |-> IF t \in old THEN Stripped(tx.content[t].url)
                            ELSE tx.content[t]]
            \in [Texts -> Stored \cup {NoRow}]
    BY <1>12, <2>1, RowsTyped DEF Evict, Graph
  <2>3. tx' \in Graph
    BY <1>12, <2>1, <2>2, WriteTyped DEF Evict
  <2>4. worker' = "written" /\ UNCHANGED <<graph, crawler, searchVars, history>>
    BY <1>12 DEF Evict
  <2> QED BY <2>4, <2>3, DerivedIndexAssumption
<1>13. CASE Commit
  BY <1>13 DEF Commit
<1>14. CASE Rollback
  BY <1>14 DEF Rollback
<1>15. CASE Crash
  BY <1>15 DEF Crash
<1>16. /\ {"from", "to"} = {"to", "from"}
       /\ Placeholder("from", 1, "to") => TypeOK'
       /\ Placeholder("to", 2, "edge") => TypeOK'
  BY <1>5
<1> HIDE DEF TypeOK
<1> QED BY <1>3, <1>4, <1>6, <1>8, <1>9, <1>10, <1>11, <1>12, <1>13, <1>14,
           <1>15, <1>16 DEF Crawl

\* What a search does to the types: it changes its own step and memory, and the
\* tables of the indexes.
LEMMA SearchType == ASSUME TypeOK, NEW s \in Searches, Search(s) PROVE TypeOK'
<1> USE DEF TypeOK, Steps, CopyBound
<1>1. /\ graph.nodes \in SUBSET Urls
      /\ graph.edges \in SUBSET Links
      /\ graph.version \in Nat
      /\ mem \in [Searches -> Mem]
      /\ mem[s] \in Mem
      /\ GraphVersions \subseteq Nat
  BY DEF Graph, Mem, GraphVersions, Misread
<1>2. CASE ReadVersion(s)
  <2>1. \A version \in Nat : [mem[s] EXCEPT !.seen = version] \in Mem
    BY <1>1 DEF Mem
  <2>2. mem' \in [Searches -> Mem]
    BY <1>1, <1>2, <2>1 DEF ReadVersion
  <2> QED BY <1>2, <2>2 DEF ReadVersion, Mem
<1>3. CASE CheckFts(s)
  BY <1>3 DEF CheckFts
<1>4. CASE ClearFts(s)
  BY <1>4 DEF ClearFts
<1>5. CASE SelectTexts(s)
  <2>1. [mem[s] EXCEPT !.rows = Indexed(graph.content)] \in Mem
    BY <1>1 DEF Mem, Indexed
  <2>2. mem' \in [Searches -> Mem]
    BY <1>1, <1>5, <2>1 DEF SelectTexts
  <2> QED BY <1>5, <2>2 DEF SelectTexts, Mem
<1>6. ASSUME NEW r \in Rows, InsertRow(s, r) PROVE TypeOK'
  <2>1. [mem[s] EXCEPT !.rows = @ \ {r}] \in Mem
    BY <1>1 DEF Mem
  <2>2. mem' \in [Searches -> Mem]
    BY <1>1, <1>6, <2>1 DEF InsertRow
  <2>3. fts' \in [Rows -> 0..2]
    BY <1>6 DEF InsertRow
  <2> QED BY <1>6, <2>2, <2>3 DEF InsertRow, Mem
<1>7. CASE Inserted(s)
  BY <1>7 DEF Inserted
<1>8. CASE ReadStamp(s)
  <2>1. \A version \in Nat : [mem[s] EXCEPT !.stamp = version] \in Mem
    BY <1>1 DEF Mem
  <2>2. mem' \in [Searches -> Mem]
    BY <1>1, <1>8, <2>1 DEF ReadStamp
  <2> QED BY <1>8, <2>2 DEF ReadStamp, Mem
<1>9. CASE StampFts(s)
  <2>1. [mem[s] EXCEPT !.stamp = 0] \in Mem /\ mem[s].stamp \in Nat
    BY <1>1 DEF Mem
  <2>2. mem' \in [Searches -> Mem]
    BY <1>1, <1>9, <2>1 DEF StampFts
  <2> QED BY <1>9, <2>1, <2>2 DEF StampFts, Mem
<1>10. CASE CheckRank(s)
  <2>1. [mem[s] EXCEPT !.seen = 0] \in Mem
    BY <1>1 DEF Mem
  <2>2. mem' \in [Searches -> Mem]
    BY <1>1, <1>10, <2>1 DEF CheckRank
  <2> QED BY <1>10, <2>2 DEF CheckRank, Mem
<1>11. CASE ReadRanks(s)
  <2>1. \A old \in {ranks} \cup Misread(NoRanks) :
            [mem[s] EXCEPT !.ranks = old] \in Mem
    BY <1>1, NoRanksTyped DEF Mem, Misread
  <2>2. mem' \in [Searches -> Mem]
    BY <1>1, <1>11, <2>1 DEF ReadRanks
  <2> QED BY <1>11, <2>2 DEF ReadRanks, Mem
<1>12. CASE ReadNodes(s)
  <2>1. \A pages \in Read(graph.nodes) : [mem[s] EXCEPT !.nodes = pages] \in Mem
    BY <1>1 DEF Mem, Read
  <2>2. mem' \in [Searches -> Mem]
    BY <1>1, <1>12, <2>1 DEF ReadNodes
  <2> QED BY <1>12, <2>2 DEF ReadNodes, Mem
<1>13. CASE Compute(s)
  <2>1. PICK links \in SUBSET Links :
            mem' = [mem EXCEPT ![s].ranks = Recompute(@, mem[s].nodes, links),
                               ![s].nodes = {}]
    BY <1>1, <1>13 DEF Compute, Read
  <2>2. Recompute(mem[s].ranks, mem[s].nodes, links) \in Ranks
    BY <1>1, RecomputeTyped DEF Mem
  <2>3. [mem[s] EXCEPT !.ranks = Recompute(@, mem[s].nodes, links), !.nodes = {}]
            \in Mem
    BY <1>1, <2>2 DEF Mem
  <2>4. mem' \in [Searches -> Mem]
    BY <1>1, <2>1, <2>3
  <2> QED BY <1>13, <2>4 DEF Compute, Mem
<1>14. CASE WriteRanks(s)
  <2>1. mem' \in [Searches -> Mem]
    BY <1>1, <1>14, NoMemTyped DEF WriteRanks
  <2>2. mem[s].ranks \in Ranks
    BY <1>1 DEF Mem
  <2> QED BY <1>1, <1>14, <2>1, <2>2 DEF WriteRanks, Mem
<1>15. CASE Answer(s) \/ Fail(s)
  <2>1. End(s)
    BY <1>15 DEF Answer, Fail
  <2>2. mem' \in [Searches -> Mem]
    BY <1>1, <2>1, NoMemTyped DEF End
  <2> QED BY <2>1, <2>2 DEF End, Mem
<1> HIDE DEF TypeOK
<1> QED BY <1>2, <1>3, <1>4, <1>5, <1>6, <1>7, <1>8, <1>9, <1>10, <1>11, <1>12,
           <1>13, <1>14, <1>15 DEF Search, Rebuild, Rank

LEMMA StepType == TypeOK /\ [Next]_vars => TypeOK'
<1>1. ASSUME TypeOK, UNCHANGED vars PROVE TypeOK'
  BY <1>1 DEF TypeOK, vars
<1> QED BY <1>1, CrawlType, SearchType DEF Next

\* The tables, the open transaction and what the searches remember are
\* well-formed whatever fails (all of storage/turso_store/).
THEOREM TypeCorrect == Spec => []TypeOK
BY InitType, StepType, PTL DEF Spec

-----------------------------------------------------------------------------
(* Versions *)

\* The version of the graph only grows, and a transaction that changes a text
\* raises it; nothing that a search has read of it lies ahead of it.
VersionInv ==
    /\ graph.version >= 1
    /\ NoFutureClaims
    /\ \A s \in Searches : /\ mem[s].seen <= graph.version
                           /\ mem[s].stamp <= graph.version
    /\ tx # NoTx =>
        /\ tx.version >= graph.version
        /\ tx.content # graph.content => /\ worker = "written"
                                         /\ tx.version > graph.version

\* What a step of the crawl process is to the searches: no step but a commit
\* changes a text, and none that changes a text keeps the version.
Grows ==
    /\ graph'.version >= graph.version
    /\ graph'.content # graph.content =>
        /\ graph'.version > graph.version
        /\ Commit
    /\ UNCHANGED <<searchVars, suspect>>
    /\ intact' # intact => Commit

LEMMA PutVersion ==
    ASSUME TypeOK, VersionInv, UNCHANGED <<worker, searchVars, history>>,
           NEW g \in Graph, Put(g),
           g.content = View.content, g.version >= View.version
    PROVE  VersionInv' /\ Grows
<1>1. graph.version \in Nat /\ g.version \in Nat
  BY DEF TypeOK, Graph
<1>2. CASE tx = NoTx
  <2>1. /\ graph' = g /\ tx' = NoTx
        /\ g.content = graph.content /\ g.version >= graph.version
    BY <1>2 DEF Put, View
  <2> QED BY <1>1, <2>1 DEF VersionInv, NoFutureClaims, Grows, TypeOK, Mem
<1>3. CASE tx # NoTx
  <2>1. /\ graph' = graph /\ tx' = g
        /\ g.content = tx.content /\ g.version >= tx.version
    BY <1>3 DEF Put, View
  <2>2. tx.version \in Nat
    BY <1>3 DEF TypeOK, Graph
  <2> QED BY <1>1, <1>3, <2>1, <2>2 DEF VersionInv, NoFutureClaims, Grows
<1> QED BY <1>2, <1>3

LEMMA InitVersion == Init => VersionInv
BY DEF Init, VersionInv, NoFutureClaims, NoMem

LEMMA CrawlGrows == TypeOK /\ VersionInv /\ Crawl => VersionInv' /\ Grows
<1> SUFFICES ASSUME TypeOK, VersionInv, Crawl PROVE VersionInv' /\ Grows
  OBVIOUS
<1>1. View \in Graph /\ View.version \in Nat /\ View.nodes \in SUBSET Urls
      /\ View.edges \in SUBSET Links
  BY ViewTyped DEF Graph
<1>2. graph \in Graph /\ graph.version \in Nat
  BY DEF TypeOK, Graph
<1>3. ASSUME UNCHANGED <<graph, worker, searchVars, history>>,
             tx' = tx
      PROVE  VersionInv' /\ Grows
  BY <1>2, <1>3 DEF VersionInv, NoFutureClaims, Grows
<1>4. ASSUME NEW u \in Urls, RecordUrl(u) PROVE VersionInv' /\ Grows
  <2> DEFINE g == [View EXCEPT !.nodes = @ \cup {u}]
  <2>1. g \in Graph /\ g.content = View.content /\ g.version = View.version
    BY <1>1, <1>4 DEF Graph
  <2>2. Put(g) /\ UNCHANGED <<worker, searchVars, history>>
    BY <1>4 DEF RecordUrl
  <2> HIDE DEF g
  <2> QED BY <1>1, <2>1, <2>2, PutVersion
<1>5. ASSUME NEW l \in Links, RecordLink(l) PROVE VersionInv' /\ Grows
  BY <1>3, <1>5 DEF RecordLink
<1>6. ASSUME NEW step \in {"from", "to"}, NEW end \in {1, 2}, NEW following,
             Placeholder(step, end, following)
      PROVE  VersionInv' /\ Grows
  <2> DEFINE g == [View EXCEPT !.nodes = @ \cup {crawler.link[end]}]
  <2>1. crawler.link \in Links
    BY <1>6 DEF Placeholder, TypeOK
  <2>2. crawler.link[end] \in Urls
    BY <2>1, DerivedIndexAssumption
  <2>3. g \in Graph /\ g.content = View.content /\ g.version = View.version
    BY <1>1, <2>2 DEF Graph
  <2>4. /\ Put(g) \/ UNCHANGED <<graph, tx>>
        /\ UNCHANGED <<worker, searchVars, history>>
    BY <1>6 DEF Placeholder
  <2> HIDE DEF g
  <2> QED BY <1>1, <1>3, <2>3, <2>4, PutVersion
<1>7. CASE RecordEdge
  <2> DEFINE g == [View EXCEPT !.edges = @ \cup {crawler.link}]
  <2>1. crawler.link \in Links
    BY <1>7 DEF RecordEdge, TypeOK
  <2>2. g \in Graph /\ g.content = View.content /\ g.version = View.version
    BY <1>1, <2>1 DEF Graph
  <2>3. /\ Put(g) \/ UNCHANGED <<graph, tx>>
        /\ UNCHANGED <<worker, searchVars, history>>
    BY <1>7 DEF RecordEdge
  <2> HIDE DEF g
  <2> QED BY <1>1, <1>3, <2>2, <2>3, PutVersion
<1>8. CASE Bump
  <2> DEFINE g == [View EXCEPT !.version = @ + 1]
  <2>1. g \in Graph /\ g.content = View.content /\ g.version >= View.version
    BY <1>1 DEF Graph
  <2>2. /\ Put(g) \/ UNCHANGED <<graph, tx>>
        /\ UNCHANGED <<worker, searchVars, history>>
    BY <1>8 DEF Bump
  <2> HIDE DEF g
  <2> QED BY <1>1, <1>3, <2>1, <2>2, PutVersion
<1>9. CASE RecordEmbedding
  <2> DEFINE g == [graph EXCEPT !.version = @ + 1]
  <2>1. g \in Graph /\ g.content = graph.content /\ g.version >= graph.version
    BY <1>2 DEF Graph
  <2>2. graph' = g /\ UNCHANGED <<tx, worker, searchVars, history>> /\ tx = NoTx
    BY <1>9 DEF RecordEmbedding, TypeOK
  <2> HIDE DEF g
  <2>3. Put(g) /\ View = graph
    BY <2>2 DEF Put, View
  <2> QED BY <2>1, <2>2, <2>3, PutVersion
<1>10. CASE Begin
  BY <1>2, <1>10 DEF Begin, VersionInv, NoFutureClaims, Grows
<1>11. ASSUME tx \in Graph, tx' \in Graph, worker = "begun", worker' = "written",
             tx'.version = tx.version + 1,
             UNCHANGED <<graph, crawler, searchVars, history>>
      PROVE  VersionInv' /\ Grows
  <2>1. tx # NoTx /\ tx.version \in Nat
    BY <1>11, DerivedIndexAssumption DEF Graph
  <2> QED BY <1>2, <1>11, <2>1 DEF VersionInv, NoFutureClaims, Grows
<1>12. ASSUME NEW t \in Texts, NEW u \in Urls, WriteText(t, u)
       PROVE  VersionInv' /\ Grows
  <2>1. tx \in Graph /\ worker = "begun"
    BY <1>12 DEF WriteText, TypeOK
  <2>2. [tx.content EXCEPT ![t] = FullText(u)]
            \in [Texts -> Stored \cup {NoRow}]
    BY <2>1, RowsTyped DEF Graph
  <2>3. tx' \in Graph /\ tx'.version = tx.version + 1
    BY <1>12, <2>1, <2>2, WriteTyped DEF WriteText
  <2>4. worker' = "written" /\ UNCHANGED <<graph, crawler, searchVars, history>>
    BY <1>12 DEF WriteText
  <2> QED BY <1>11, <2>1, <2>4, <2>3
<1>13. ASSUME NEW old \in SUBSET Texts, Evict(old) PROVE VersionInv' /\ Grows
  <2>1. tx \in Graph /\ worker = "begun"
    BY <1>13 DEF Evict, TypeOK
  <2>2. [t \in Texts |-> IF t \in old THEN Stripped(tx.content[t].url)
                            ELSE tx.content[t]]
            \in [Texts -> Stored \cup {NoRow}]
    BY <1>13, <2>1, RowsTyped DEF Evict, Graph
  <2>3. tx' \in Graph /\ tx'.version = tx.version + 1
    BY <1>13, <2>1, <2>2, WriteTyped DEF Evict
  <2>4. worker' = "written" /\ UNCHANGED <<graph, crawler, searchVars, history>>
    BY <1>13 DEF Evict
  <2> QED BY <1>11, <2>1, <2>4, <2>3
<1>14. CASE Commit
  <2>1. tx # NoTx /\ tx \in Graph /\ tx.version \in Nat
    BY <1>14 DEF Commit, TypeOK, Graph
  <2>2. /\ ftsVersion \in Nat /\ rankVersion \in Nat
        /\ \A s \in Searches : mem[s].seen \in Nat /\ mem[s].stamp \in Nat
    BY DEF TypeOK
  <2>3. graph' = tx /\ tx' = NoTx /\ UNCHANGED <<searchVars, suspect>>
    BY <1>14 DEF Commit
  <2>4. tx.version >= graph.version
        /\ (tx.content # graph.content => tx.version > graph.version)
    BY <2>1 DEF VersionInv
  <2>5. Grows
    BY <1>14, <2>3, <2>4 DEF Grows
  <2>6. VersionInv'
    BY <1>2, <2>1, <2>2, <2>3, <2>4 DEF VersionInv, NoFutureClaims
  <2> QED BY <2>5, <2>6
<1>15. CASE Rollback \/ Crash
  BY <1>2, <1>15 DEF Rollback, Crash, VersionInv, NoFutureClaims, Grows
<1> QED BY <1>4, <1>5, <1>6, <1>7, <1>8, <1>10, <1>12, <1>13, <1>14, <1>15, <1>9
        DEF Crawl

\* What a search remembers of versions is what it has read of the graph's.
LEMMA SearchVersion ==
    ASSUME TypeOK, VersionInv, NEW s \in Searches, Search(s)
    PROVE  VersionInv' /\ UNCHANGED <<graph, tx, worker>>
<1>1. graph.version \in Nat
  BY DEF TypeOK, Graph
<1>2. mem \in [Searches -> Mem] /\ mem[s].stamp \in Nat
  BY DEF TypeOK, Mem
<1>3. ASSUME NEW m \in Mem, m.seen <= graph.version, m.stamp <= graph.version,
             mem' = [mem EXCEPT ![s] = m], UNCHANGED <<crawlVars, ftsVersion>>,
             rankVersion' <= graph.version
      PROVE  VersionInv'
  <2>1. \A o \in Searches : mem'[o] = IF o = s THEN m ELSE mem[o]
    BY <1>2, <1>3
  <2> QED BY <1>3, <2>1 DEF VersionInv, NoFutureClaims
<1>4. ASSUME UNCHANGED <<crawlVars, ftsVersion, rankVersion, mem>>
      PROVE  VersionInv'
  BY <1>4 DEF VersionInv, NoFutureClaims
<1>5. /\ rankVersion <= graph.version /\ mem[s].seen <= graph.version
      /\ mem[s].stamp <= graph.version
      /\ \A version \in GraphVersions : version \in Nat /\ version <= graph.version
  BY <1>1 DEF VersionInv, NoFutureClaims, GraphVersions, Misread
<1>6. CASE CheckFts(s) \/ ClearFts(s) \/ Inserted(s)
  BY <1>4, <1>6 DEF CheckFts, ClearFts, Inserted
<1>7. CASE ReadVersion(s)
  <2>1. PICK version \in GraphVersions : mem' = [mem EXCEPT ![s].seen = version]
    BY <1>7 DEF ReadVersion
  <2> DEFINE m == [mem[s] EXCEPT !.seen = version]
  <2>2. m \in Mem /\ m.seen = version /\ m.stamp = mem[s].stamp
    BY <1>2, <1>5 DEF Mem
  <2>3. /\ mem' = [mem EXCEPT ![s] = m]
        /\ UNCHANGED <<crawlVars, ftsVersion, rankVersion>>
    BY <1>7, <2>1 DEF ReadVersion
  <2>4. m.seen <= graph.version /\ m.stamp <= graph.version
    BY <1>5, <2>2
  <2> HIDE DEF m
  <2> QED BY <1>3, <1>5, <2>2, <2>3, <2>4
<1>8. CASE SelectTexts(s)
  <2>1. [mem[s] EXCEPT !.rows = Indexed(graph.content)] \in Mem
    BY <1>2 DEF Mem, Indexed
  <2> QED BY <1>2, <1>3, <1>5, <1>8, <2>1 DEF SelectTexts, Mem
<1>9. ASSUME NEW r \in Rows, InsertRow(s, r) PROVE VersionInv'
  <2>1. [mem[s] EXCEPT !.rows = @ \ {r}] \in Mem
    BY <1>2 DEF Mem
  <2> QED BY <1>2, <1>3, <1>5, <1>9, <2>1 DEF InsertRow, Mem
<1>10. CASE ReadStamp(s)
  <2>1. PICK version \in GraphVersions : mem' = [mem EXCEPT ![s].stamp = version]
    BY <1>10 DEF ReadStamp
  <2> DEFINE m == [mem[s] EXCEPT !.stamp = version]
  <2>2. m \in Mem /\ m.stamp = version /\ m.seen = mem[s].seen
    BY <1>2, <1>5 DEF Mem
  <2>3. /\ mem' = [mem EXCEPT ![s] = m]
        /\ UNCHANGED <<crawlVars, ftsVersion, rankVersion>>
    BY <1>10, <2>1 DEF ReadStamp
  <2>4. m.seen <= graph.version /\ m.stamp <= graph.version
    BY <1>5, <2>2
  <2> HIDE DEF m
  <2> QED BY <1>3, <1>5, <2>2, <2>3, <2>4
<1>11. CASE StampFts(s)
  <2> DEFINE m == [mem[s] EXCEPT !.stamp = 0]
  <2>1. m \in Mem /\ m.stamp = 0 /\ m.seen = mem[s].seen
    BY <1>2 DEF Mem
  <2>2. mem' = [mem EXCEPT ![s] = m]
    BY <1>11 DEF StampFts
  <2>3. ftsVersion' = mem[s].stamp /\ UNCHANGED <<crawlVars, rankVersion>>
    BY <1>11 DEF StampFts
  <2> HIDE DEF m
  <2>4. m.seen <= graph.version /\ m.stamp <= graph.version
    BY <1>1, <1>5, <2>1
  <2>5. \A o \in Searches : mem'[o] = IF o = s THEN m ELSE mem[o]
    BY <1>2, <2>2
  <2>6. NoFutureClaims'
    BY <1>5, <2>3 DEF NoFutureClaims
  <2> QED BY <2>3, <2>4, <2>5, <2>6 DEF VersionInv
<1>12. ASSUME NEW m \in Mem, m.seen \in {0, mem[s].seen}, m.stamp = mem[s].stamp,
              mem' = [mem EXCEPT ![s] = m],
              UNCHANGED <<crawlVars, ftsVersion, rankVersion>>
       PROVE  VersionInv'
  <2>1. m.seen <= graph.version /\ m.stamp <= graph.version
    BY <1>1, <1>5, <1>12
  <2> QED BY <1>3, <1>5, <1>12, <2>1
<1>13. CASE CheckRank(s)
  <2> DEFINE m == [mem[s] EXCEPT !.seen = 0]
  <2>1. m \in Mem /\ m.seen = 0 /\ m.stamp = mem[s].stamp
    BY <1>2 DEF Mem
  <2> QED BY <1>12, <1>13, <2>1 DEF CheckRank
<1>14. CASE ReadRanks(s) \/ ReadNodes(s) \/ Compute(s)
  <2>1. \E m \in Mem : /\ m.seen = mem[s].seen /\ m.stamp = mem[s].stamp
                       /\ mem' = [mem EXCEPT ![s] = m]
    <3>1. CASE ReadRanks(s)
      <4>1. PICK old \in Ranks : mem' = [mem EXCEPT ![s].ranks = old]
        BY <3>1, NoRanksTyped DEF ReadRanks, TypeOK, Misread
      <4>2. [mem[s] EXCEPT !.ranks = old] \in Mem
        BY <1>2 DEF Mem
      <4> QED BY <1>2, <4>1, <4>2 DEF Mem
    <3>2. CASE ReadNodes(s)
      <4>1. PICK pages \in SUBSET Urls : mem' = [mem EXCEPT ![s].nodes = pages]
        BY <3>2 DEF ReadNodes, TypeOK, Graph, Read
      <4>2. [mem[s] EXCEPT !.nodes = pages] \in Mem
        BY <1>2 DEF Mem
      <4> QED BY <1>2, <4>1, <4>2 DEF Mem
    <3>3. CASE Compute(s)
      <4>1. PICK links \in SUBSET Links :
                mem' = [mem EXCEPT ![s].ranks = Recompute(@, mem[s].nodes, links),
                                   ![s].nodes = {}]
        BY <3>3 DEF Compute, TypeOK, Graph, Read
      <4>2. Recompute(mem[s].ranks, mem[s].nodes, links) \in Ranks
        BY <1>2, RecomputeTyped DEF Mem
      <4> DEFINE m == [mem[s] EXCEPT !.ranks = Recompute(@, mem[s].nodes, links),
                                     !.nodes = {}]
      <4>3. m \in Mem /\ m.seen = mem[s].seen /\ m.stamp = mem[s].stamp
        BY <1>2, <4>2 DEF Mem
      <4>4. mem' = [mem EXCEPT ![s] = m]
        BY <4>1
      <4> QED BY <4>3, <4>4
    <3> QED BY <1>14, <3>1, <3>2, <3>3
  <2>2. UNCHANGED <<crawlVars, ftsVersion, rankVersion>>
    BY <1>14 DEF ReadRanks, ReadNodes, Compute
  <2> QED BY <1>12, <2>1, <2>2
<1>15. NoMem.seen = 0 /\ NoMem.stamp = 0
  BY DEF NoMem
<1>16. CASE WriteRanks(s)
  <2>1. /\ mem' = [mem EXCEPT ![s] = NoMem]
        /\ UNCHANGED <<crawlVars, ftsVersion>>
        /\ rankVersion' \in GraphVersions
    BY <1>16 DEF WriteRanks
  <2>2. NoMem.seen <= graph.version /\ NoMem.stamp <= graph.version
    BY <1>1, <1>15
  <2>3. rankVersion' <= graph.version
    BY <1>5, <2>1
  <2> QED BY <1>3, <2>1, <2>2, <2>3, NoMemTyped
<1>17. CASE Answer(s) \/ Fail(s)
  BY <1>1, <1>3, <1>5, <1>15, <1>17, NoMemTyped DEF Answer, Fail, End
<1>18. VersionInv'
  BY <1>6, <1>7, <1>8, <1>9, <1>10, <1>11, <1>13, <1>14, <1>16, <1>17
     DEF Search, Rebuild, Rank
<1>19. UNCHANGED crawlVars
  BY DEF Search, Rebuild, Rank, ReadVersion, CheckFts, ClearFts, SelectTexts,
         InsertRow, Inserted, ReadStamp, StampFts, CheckRank, ReadRanks,
         ReadNodes, Compute, WriteRanks, Answer, Fail, End
<1> QED BY <1>18, <1>19

LEMMA StepVersion == TypeOK /\ VersionInv /\ [Next]_vars => VersionInv'
<1>1. ASSUME VersionInv, UNCHANGED vars PROVE VersionInv'
  BY <1>1 DEF VersionInv, NoFutureClaims, vars
<1> QED BY <1>1, CrawlGrows, SearchVersion DEF Next

\* No index ever claims a version the graph has not reached (graph_version(),
\* rebuild_fts(), compute_pagerank()).
THEOREM NeverFutureClaims == Spec => []NoFutureClaims
<1>1. Init => TypeOK /\ VersionInv
  BY InitType, InitVersion
<1>2. TypeOK /\ VersionInv /\ [Next]_vars => (TypeOK /\ VersionInv)'
  BY StepType, StepVersion
<1>3. VersionInv => NoFutureClaims
  BY DEF VersionInv
<1> QED BY <1>1, <1>2, <1>3, PTL DEF Spec

\* No search on another connection sees new content with an old version
\* (record_page_content(), evict_full_content()).
THEOREM ContentAlwaysBumpsVersion == Spec => ContentBumpsVersion
<1>1. Init => TypeOK /\ VersionInv
  BY InitType, InitVersion
<1>2. TypeOK /\ VersionInv /\ [Next]_vars => (TypeOK /\ VersionInv)'
  BY StepType, StepVersion
<1>3. ASSUME TypeOK, VersionInv, Next
      PROVE  graph'.content # graph.content => graph'.version > graph.version
  <2>1. CASE Crawl
    BY <1>3, <2>1, CrawlGrows DEF Grows
  <2>2. ASSUME NEW s \in Searches, Search(s) PROVE graph' = graph
    BY <1>3, <2>2, SearchVersion
  <2> QED BY <1>3, <2>1, <2>2 DEF Next
<1>4. TypeOK /\ VersionInv /\ [Next]_vars =>
        [graph'.content # graph.content => graph'.version > graph.version]_vars
  BY <1>3
<1> QED BY <1>1, <1>2, <1>4, PTL DEF Spec, ContentBumpsVersion

-----------------------------------------------------------------------------
(* What an index that claims to be current holds *)

\* A search that rebuilds the index and has cleared it.
Past(s) == pc[s] \in {"select", "insert", "version", "stamp"}

\* An index of some rows, each once.
Holding(rows) == [r \in Rows |-> IF r \in rows THEN 1 ELSE 0]

\* A rebuild enters what is stored in full and leaves nothing of what is evicted.
Exact == fts = Holding(Indexed(graph.content))
ExactClaim == intact /\ Claimed => Exact

\* How far the rebuild of s has come.
Built(s) ==
    LET texts == Indexed(graph.content) IN
    /\ pc[s] = "select" => fts = Holding({})
    /\ pc[s] = "insert" => /\ mem[s].rows \subseteq texts
                           /\ fts = Holding(texts \ mem[s].rows)
    /\ pc[s] = "version" => Exact
    /\ pc[s] = "stamp" => Exact \/ mem[s].stamp < graph.version

\* Searches that index side by side know of one another.
Beside ==
    \A s, o \in Searches : s # o /\ Indexing(s) /\ Indexing(o) => s \in suspect

\* A search that indexes alone finds the stamp it has read in place.
Alone ==
    \A s \in Searches : s \notin suspect =>
        /\ pc[s] = "check" => ftsVersion <= mem[s].seen
        /\ pc[s] = "clear" => ftsVersion < mem[s].seen

\* A rebuild that began alone is the only one, and until its end the old stamp
\* is below the version of the graph.
Rebuilding ==
    intact => \A s \in Searches : Past(s) =>
        /\ ftsVersion < graph.version
        /\ Built(s)
        /\ \A o \in Searches : Past(o) => o = s

RebuildInv == Beside /\ Alone /\ Rebuilding /\ ExactClaim

LEMMA InitRebuild == ASSUME TypeOK, Init PROVE RebuildInv
<1>1. \A s \in Searches : ~Indexing(s) /\ ~Past(s) /\ pc[s] = "idle"
  BY DEF Init, Indexing, Past
<1>2. Indexed(graph.content) = {}
  <2>1. \A r \in Rows : graph.content[r[1]] = NoRow /\ FullText(r[2]) \in Stored
    BY DEF Init, Rows, FullText, Stored
  <2> QED BY <2>1, DerivedIndexAssumption DEF Indexed
<1>3. Exact
  BY <1>2 DEF Init, Exact, Holding
<1> QED BY <1>1, <1>3
        DEF RebuildInv, Beside, Alone, Rebuilding, ExactClaim

\* The crawl process does to a rebuild what intact records.
LEMMA CrawlRebuild ==
    ASSUME TypeOK, VersionInv, RebuildInv, Crawl
    PROVE  RebuildInv'
<1>1. Grows
  BY CrawlGrows
<1>2. /\ UNCHANGED <<fts, ftsVersion, pc, mem, suspect>>
      /\ graph'.version >= graph.version
  BY <1>1 DEF Grows
<1>3. /\ graph.version \in Nat /\ ftsVersion \in Nat /\ intact \in BOOLEAN
      /\ ftsVersion <= graph.version
      /\ \A s \in Searches : /\ mem[s].stamp \in Nat
                             /\ mem[s].stamp <= graph.version
  BY DEF TypeOK, Graph, VersionInv, NoFutureClaims
<1>4. graph'.version \in Nat
  BY CrawlType DEF TypeOK, Graph
<1>5. Beside' /\ Alone'
  BY <1>2 DEF RebuildInv, Beside, Alone, Indexing
<1>6. intact' => intact
  BY <1>1, <1>3 DEF Grows, Commit
<1>7. ASSUME graph'.content = graph.content PROVE Rebuilding' /\ ExactClaim'
  <2>1. Exact' <=> Exact
    BY <1>2, <1>7 DEF Exact, Indexed
  <2>2. ExactClaim'
    BY <1>2, <1>3, <1>4, <1>6, <2>1 DEF RebuildInv, ExactClaim, Claimed
  <2>3. ASSUME NEW s \in Searches, Built(s) PROVE Built(s)'
    BY <1>2, <1>3, <1>4, <1>7, <2>1, <2>3 DEF Built, Indexed, Holding
  <2>4. Rebuilding'
    BY <1>2, <1>3, <1>4, <1>6, <2>3 DEF RebuildInv, Rebuilding, Past
  <2> QED BY <2>2, <2>4
<1>8. ASSUME graph'.content # graph.content PROVE Rebuilding' /\ ExactClaim'
  <2>1. graph'.version > graph.version /\ Commit
    BY <1>1, <1>8 DEF Grows
  <2>2. ExactClaim'
    BY <1>2, <1>3, <1>4, <2>1 DEF ExactClaim, Claimed
  <2>3. intact' => intact /\ \A s \in Searches : ~Copying(s)
    BY <1>8, <2>1 DEF Commit
  <2>4. ASSUME NEW s \in Searches, Built(s), ~Copying(s) PROVE Built(s)'
    BY <1>2, <1>3, <1>4, <2>1, <2>4 DEF Built, Copying, Holding
  <2>5. Rebuilding'
    BY <1>2, <1>3, <1>4, <2>1, <2>3, <2>4 DEF RebuildInv, Rebuilding, Past
  <2> QED BY <2>2, <2>5
<1> QED BY <1>5, <1>7, <1>8 DEF RebuildInv

\* What a search alone may say of its rebuild is what its steps make true.
LEMMA SearchRebuild ==
    ASSUME TypeOK, VersionInv, RebuildInv, NEW s \in Searches, Search(s)
    PROVE  RebuildInv'
<1>1. /\ graph' = graph
      /\ graph.version \in Nat /\ ftsVersion \in Nat /\ intact \in BOOLEAN
      /\ ftsVersion <= graph.version
  BY SearchVersion DEF TypeOK, Graph, VersionInv, NoFutureClaims
<1>2. /\ pc \in [Searches -> Steps]
      /\ mem \in [Searches -> Mem]
      /\ \A o \in Searches : /\ mem[o].stamp \in Nat /\ mem[o].seen \in Nat
                             /\ mem[o].stamp <= graph.version
                             /\ mem[o].seen <= graph.version
  BY DEF TypeOK, Mem, VersionInv
<1>3. suspect \subseteq Searches
  BY DEF TypeOK
<1>4. ASSUME NEW step, pc' = [pc EXCEPT ![s] = step]
      PROVE  \A o \in Searches : pc'[o] = IF o = s THEN step ELSE pc[o]
  BY <1>2, <1>4
<1>5. ASSUME NEW m, mem' = [mem EXCEPT ![s] = m]
      PROVE  \A o \in Searches : mem'[o] = IF o = s THEN m ELSE mem[o]
  BY <1>2, <1>5
\* A step that does not index leaves the rest as it is.
<1>6. ASSUME NEW step \in Steps, pc' = [pc EXCEPT ![s] = step],
             step \notin {"check", "clear", "select", "insert", "version", "stamp"},
             \A o \in Searches : o # s => mem'[o] = mem[o],
             UNCHANGED <<fts, ftsVersion, intact>>,
             suspect' \in {suspect, suspect \ {s}}
      PROVE  RebuildInv'
  <2>1. \A o \in Searches : /\ Indexing(o)' => o # s /\ Indexing(o)
                            /\ Past(o)' => o # s /\ Past(o)
                            /\ o # s => pc'[o] = pc[o] /\ mem'[o] = mem[o]
                            /\ o = s => pc'[o] \notin {"check", "clear"}
                            /\ o # s => (o \in suspect' <=> o \in suspect)
    BY <1>4, <1>6 DEF Indexing, Past
  <2>2. Exact' <=> Exact
    BY <1>1, <1>6 DEF Exact, Indexed
  <2>3. Beside'
    BY <2>1 DEF RebuildInv, Beside
  <2>4. Alone'
    BY <1>6, <2>1 DEF RebuildInv, Alone
  <2>5. \A o \in Searches : o # s /\ Built(o) => Built(o)'
    BY <1>1, <1>6, <2>1, <2>2 DEF Built, Holding, Indexed
  <2>6. Rebuilding'
    BY <1>1, <1>6, <2>1, <2>5 DEF RebuildInv, Rebuilding
  <2>7. ExactClaim'
    BY <1>1, <1>6, <2>2 DEF RebuildInv, ExactClaim, Claimed
  <2> QED BY <2>3, <2>4, <2>6, <2>7 DEF RebuildInv
<1>7. CASE ReadVersion(s)
  <2>1. PICK version \in GraphVersions :
            /\ mem' = [mem EXCEPT ![s].seen = version]
            /\ s \notin suspect' => version = graph.version
    BY <1>7 DEF ReadVersion
  <2> DEFINE m == [mem[s] EXCEPT !.seen = version]
  <2>2. /\ pc' = [pc EXCEPT ![s] = "check"]
        /\ mem' = [mem EXCEPT ![s] = m]
        /\ pc[s] = "idle"
        /\ UNCHANGED <<fts, ftsVersion, intact>>
    BY <1>7, <2>1 DEF ReadVersion
  <2>3. s \notin suspect' => m.seen = graph.version
    BY <1>2, <2>1 DEF Mem
  <2> HIDE DEF m
  <2>4. \A o \in Searches : /\ pc'[o] = IF o = s THEN "check" ELSE pc[o]
                            /\ mem'[o] = IF o = s THEN m ELSE mem[o]
    BY <1>4, <1>5, <2>2
  <2>5. \A o \in Searches : /\ o # s => (Indexing(o)' <=> Indexing(o))
                            /\ Past(o)' => o # s /\ Past(o)
    BY <2>4 DEF Indexing, Past
  <2>6. /\ suspect \subseteq suspect'
        /\ \A o \in Searches : o # s /\ Indexing(o)
               => o \in suspect' /\ s \in suspect'
    BY <1>3, <1>7, <2>2 DEF ReadVersion, Indexing
  <2>7. Beside'
    BY <2>5, <2>6 DEF RebuildInv, Beside
  <2>8. Alone'
    BY <1>1, <2>2, <2>3, <2>4, <2>6 DEF RebuildInv, Alone
  <2>9. Exact' <=> Exact
    BY <1>1, <2>2 DEF Exact, Indexed
  <2>10. \A o \in Searches : o # s /\ Built(o) => Built(o)'
    BY <1>1, <2>2, <2>4, <2>9 DEF Built, Holding, Indexed
  <2>11. Rebuilding'
    BY <1>1, <2>2, <2>5, <2>10 DEF RebuildInv, Rebuilding
  <2>12. ExactClaim'
    BY <1>1, <2>2, <2>9 DEF RebuildInv, ExactClaim, Claimed
  <2> QED BY <2>7, <2>8, <2>11, <2>12 DEF RebuildInv
<1>8. CASE CheckFts(s)
  <2>1. PICK stamp \in {ftsVersion} \cup Misread(0) :
            \/ /\ pc' = [pc EXCEPT ![s] = "checkRank"]
               /\ suspect' = suspect \ {s}
            \/ /\ stamp # mem[s].seen
               /\ pc' = [pc EXCEPT ![s] = "clear"]
               /\ suspect' = IF stamp = ftsVersion THEN suspect ELSE suspect \cup {s}
    BY <1>8 DEF CheckFts
  <2>2. CASE /\ pc' = [pc EXCEPT ![s] = "checkRank"]
             /\ suspect' = suspect \ {s}
    BY <1>6, <1>8, <2>2 DEF CheckFts, Steps
  <2>3. CASE /\ stamp # mem[s].seen
             /\ pc' = [pc EXCEPT ![s] = "clear"]
             /\ suspect' = IF stamp = ftsVersion THEN suspect ELSE suspect \cup {s}
    <3>1. /\ pc' = [pc EXCEPT ![s] = "clear"] /\ pc[s] = "check"
          /\ UNCHANGED <<fts, ftsVersion, mem, intact>>
          /\ suspect \subseteq suspect'
          /\ s \notin suspect' => ftsVersion # mem[s].seen
      BY <1>8, <2>3 DEF CheckFts
    <3>2. \A o \in Searches : pc'[o] = IF o = s THEN "clear" ELSE pc[o]
      BY <1>4, <3>1
    <3>3. \A o \in Searches : /\ Indexing(o)' <=> Indexing(o)
                              /\ Past(o)' <=> Past(o)
                              /\ o = s => ~Past(o)
      BY <3>1, <3>2 DEF Indexing, Past
    <3>4. Beside'
      BY <3>1, <3>3 DEF RebuildInv, Beside
    <3>5. Alone'
      BY <1>1, <1>2, <3>1, <3>2 DEF RebuildInv, Alone
    <3>6. Exact' <=> Exact
      BY <1>1, <3>1 DEF Exact, Indexed
    <3>7. \A o \in Searches : o # s /\ Built(o) => Built(o)'
      BY <1>1, <3>1, <3>2, <3>6 DEF Built, Holding, Indexed
    <3>8. Rebuilding'
      BY <1>1, <3>1, <3>3, <3>7 DEF RebuildInv, Rebuilding
    <3>9. ExactClaim'
      BY <1>1, <3>1, <3>6 DEF RebuildInv, ExactClaim, Claimed
    <3> QED BY <3>4, <3>5, <3>8, <3>9 DEF RebuildInv
  <2> QED BY <2>1, <2>2, <2>3
<1>9. CASE ClearFts(s)
  <2>1. /\ pc' = [pc EXCEPT ![s] = "select"] /\ pc[s] = "clear"
        /\ fts' = Holding({})
        /\ intact' = (s \notin suspect)
        /\ UNCHANGED <<ftsVersion, mem, suspect>>
    BY <1>9 DEF ClearFts, Holding
  <2>2. \A o \in Searches : pc'[o] = IF o = s THEN "select" ELSE pc[o]
    BY <1>4, <2>1
  <2>3. \A o \in Searches : /\ Indexing(o)' <=> Indexing(o)
                            /\ o # s /\ Past(o)' => Indexing(o) /\ Indexing(s)
    BY <2>1, <2>2 DEF Indexing, Past
  <2>4. Beside'
    BY <2>1, <2>3 DEF RebuildInv, Beside
  <2>5. Alone'
    BY <2>1, <2>2 DEF RebuildInv, Alone
  <2>6. intact' => /\ ftsVersion < graph.version
                   /\ \A o \in Searches : Past(o)' => o = s
    <3>1. s \notin suspect => ftsVersion < mem[s].seen
      BY <2>1 DEF RebuildInv, Alone
    <3>2. /\ mem[s].seen \in Nat
          /\ mem[s].seen <= graph.version
      BY <1>2
    <3>3. s \notin suspect => ftsVersion < graph.version
      BY <1>1, <3>1, <3>2
    <3>4. Indexing(s)
      BY <2>1 DEF Indexing
    <3>5. s \notin suspect => \A o \in Searches : Past(o)' => o = s
      BY <2>3, <3>4 DEF RebuildInv, Beside
    <3> QED BY <2>1, <3>3, <3>5
  <2>7. Built(s)'
    BY <2>1, <2>2 DEF Built, Holding
  <2>8. Rebuilding'
    BY <1>1, <2>1, <2>6, <2>7 DEF Rebuilding
  <2>9. ExactClaim'
    BY <1>1, <2>1, <2>6 DEF ExactClaim, Claimed
  <2> QED BY <2>4, <2>5, <2>8, <2>9 DEF RebuildInv
\* A step of a rebuild after the clearing, up to its stamp.
<1>10. ASSUME NEW step, pc' = [pc EXCEPT ![s] = step],
              step \in {"insert", "version", "stamp"}, Past(s),
              \A o \in Searches : o # s => mem'[o] = mem[o],
              UNCHANGED <<ftsVersion, suspect, intact>>,
              intact => Built(s)'
       PROVE  RebuildInv'
  <2>1. \A o \in Searches : /\ Indexing(o)' <=> Indexing(o)
                            /\ Past(o)' <=> Past(o)
                            /\ o # s => pc'[o] = pc[o]
                            /\ o = s => pc'[o] \notin {"check", "clear"}
    BY <1>4, <1>10 DEF Indexing, Past
  <2>2. Beside'
    BY <1>10, <2>1 DEF RebuildInv, Beside
  <2>3. Alone'
    BY <1>10, <2>1 DEF RebuildInv, Alone
  <2>4. intact => /\ ftsVersion < graph.version
                  /\ \A o \in Searches : Past(o) => o = s
    BY <1>10 DEF RebuildInv, Rebuilding
  <2>5. Rebuilding'
    BY <1>1, <1>10, <2>1, <2>4 DEF Rebuilding
  <2>6. ExactClaim'
    BY <1>1, <1>10, <2>4 DEF ExactClaim, Claimed
  <2> QED BY <2>2, <2>3, <2>5, <2>6 DEF RebuildInv
<1>11. Past(s) /\ intact => Built(s) /\ ftsVersion < graph.version
  BY DEF RebuildInv, Rebuilding
<1>12. CASE SelectTexts(s)
  <2> DEFINE texts == Indexed(graph.content)
             m == [mem[s] EXCEPT !.rows = texts]
  <2>1. /\ pc' = [pc EXCEPT ![s] = "insert"] /\ pc[s] = "select"
        /\ mem' = [mem EXCEPT ![s] = m]
        /\ UNCHANGED <<fts, ftsVersion, suspect, intact>>
    BY <1>12 DEF SelectTexts
  <2>2. m.rows = texts
    BY <1>2 DEF Mem
  <2> HIDE DEF m
  <2>3. /\ pc'[s] = "insert" /\ mem'[s].rows = texts
        /\ \A o \in Searches : o # s => mem'[o] = mem[o]
    <3>1. \A o \in Searches : mem'[o] = IF o = s THEN m ELSE mem[o]
      BY <1>5, <2>1
    <3>2. pc'[s] = "insert"
      BY <1>4, <2>1
    <3> QED BY <2>2, <3>1, <3>2
  <2>4. Past(s)
    BY <2>1 DEF Past
  <2>5. texts \ texts = {}
    OBVIOUS
  <2>6. intact => Built(s)'
    BY <1>1, <1>11, <2>1, <2>3, <2>4, <2>5 DEF Built, Holding, Indexed
  <2> QED BY <1>10, <2>1, <2>3, <2>4, <2>6
<1>13. ASSUME NEW r \in Rows, InsertRow(s, r) PROVE RebuildInv'
  <2> DEFINE texts == Indexed(graph.content)
             m == [mem[s] EXCEPT !.rows = @ \ {r}]
  <2>1. /\ pc' = [pc EXCEPT ![s] = "insert"] /\ pc[s] = "insert"
        /\ mem' = [mem EXCEPT ![s] = m]
        /\ fts' = [fts EXCEPT ![r] = IF @ < CopyBound THEN @ + 1 ELSE @]
        /\ r \in mem[s].rows
        /\ UNCHANGED <<ftsVersion, suspect, intact>>
    BY <1>2, <1>13 DEF InsertRow
  <2>2. m.rows = mem[s].rows \ {r}
    BY <1>2 DEF Mem
  <2> HIDE DEF m
  <2>3. /\ pc'[s] = "insert" /\ mem'[s].rows = mem[s].rows \ {r}
        /\ \A o \in Searches : o # s => mem'[o] = mem[o]
    <3>1. \A o \in Searches : mem'[o] = IF o = s THEN m ELSE mem[o]
      BY <1>5, <2>1
    <3>2. pc'[s] = "insert"
      BY <1>4, <2>1
    <3> QED BY <2>2, <3>1, <3>2
  <2>4. Past(s)
    BY <2>1 DEF Past
  <2>5. ASSUME intact PROVE Built(s)'
    <3>1. /\ mem[s].rows \subseteq texts
          /\ fts = Holding(texts \ mem[s].rows)
      BY <1>11, <2>1, <2>4, <2>5 DEF Built
    <3>2. fts[r] = 0
      BY <2>1, <3>1 DEF Holding
    <3>3. fts' = [fts EXCEPT ![r] = 1]
      BY <2>1, <3>2 DEF CopyBound
    <3>4. fts' = Holding(texts \ (mem[s].rows \ {r}))
      BY <2>1, <3>1, <3>3 DEF Holding
    <3> QED BY <1>1, <2>1, <2>3, <3>1, <3>4 DEF Built, Indexed, Holding
  <2> QED BY <1>10, <2>1, <2>3, <2>4, <2>5
<1>14. CASE Inserted(s)
  <2>1. /\ pc' = [pc EXCEPT ![s] = "version"] /\ pc[s] = "insert"
        /\ mem[s].rows = {}
        /\ UNCHANGED <<fts, ftsVersion, mem, suspect, intact>>
    BY <1>14 DEF Inserted
  <2>2. pc'[s] = "version"
    BY <1>4, <2>1
  <2>3. Past(s)
    BY <2>1 DEF Past
  <2>4. intact => Exact
    BY <1>11, <2>1, <2>3 DEF Built, Exact, Holding
  <2>5. intact => Built(s)'
    BY <1>1, <2>1, <2>2, <2>4 DEF Built, Exact, Indexed
  <2> QED BY <1>10, <2>1, <2>3, <2>5
<1>15. CASE ReadStamp(s)
  <2>1. PICK version \in GraphVersions : mem' = [mem EXCEPT ![s].stamp = version]
    BY <1>15 DEF ReadStamp
  <2> DEFINE m == [mem[s] EXCEPT !.stamp = version]
  <2>2. /\ pc' = [pc EXCEPT ![s] = "stamp"] /\ pc[s] = "version"
        /\ mem' = [mem EXCEPT ![s] = m]
        /\ UNCHANGED <<fts, ftsVersion, suspect, intact>>
    BY <1>15, <2>1 DEF ReadStamp
  <2> HIDE DEF m
  <2>3. /\ pc'[s] = "stamp"
        /\ \A o \in Searches : o # s => mem'[o] = mem[o]
    BY <1>4, <1>5, <2>2
  <2>4. Past(s)
    BY <2>2 DEF Past
  <2>5. intact => Exact
    BY <1>11, <2>2, <2>4 DEF Built
  <2>6. intact => Built(s)'
    BY <1>1, <2>2, <2>3, <2>5 DEF Built, Exact, Indexed
  <2> QED BY <1>10, <2>2, <2>3, <2>4, <2>6
<1>16. CASE StampFts(s)
  <2> DEFINE m == [mem[s] EXCEPT !.stamp = 0]
  <2>1. /\ pc' = [pc EXCEPT ![s] = "checkRank"] /\ pc[s] = "stamp"
        /\ mem' = [mem EXCEPT ![s] = m]
        /\ ftsVersion' = mem[s].stamp
        /\ suspect' = suspect \ {s}
        /\ UNCHANGED <<fts, intact>>
    BY <1>16 DEF StampFts
  <2> HIDE DEF m
  <2>2. \A o \in Searches : /\ pc'[o] = IF o = s THEN "checkRank" ELSE pc[o]
                            /\ o # s => mem'[o] = mem[o]
    BY <1>4, <1>5, <2>1
  <2>3. Past(s) /\ Indexing(s)
    BY <2>1 DEF Past, Indexing
  <2>4. \A o \in Searches : /\ Indexing(o)' => o # s /\ Indexing(o)
                            /\ Past(o)' => o # s /\ Past(o)
                            /\ pc'[o] \in {"check", "clear"} => Indexing(o)'
                            /\ o # s => (o \in suspect' <=> o \in suspect)
    BY <2>1, <2>2 DEF Indexing, Past
  <2>5. Beside'
    BY <2>4 DEF RebuildInv, Beside
  <2>6. Alone'
    BY <2>3, <2>4 DEF RebuildInv, Alone, Beside
  <2>7. intact => Built(s) /\ \A o \in Searches : Past(o) => o = s
    BY <2>3 DEF RebuildInv, Rebuilding
  <2>8. Rebuilding'
    BY <2>1, <2>4, <2>7 DEF Rebuilding
  <2>9. intact => Exact \/ mem[s].stamp < graph.version
    BY <2>1, <2>7 DEF Built
  <2>10. Exact' <=> Exact
    BY <1>1, <2>1 DEF Exact, Indexed
  <2>11. ExactClaim'
    BY <1>1, <1>2, <2>1, <2>9, <2>10 DEF ExactClaim, Claimed
  <2> QED BY <2>5, <2>6, <2>8, <2>11 DEF RebuildInv
<1>17. CASE Rank(s)
  <2>1. /\ \E step \in Steps :
             /\ pc' = [pc EXCEPT ![s] = step]
             /\ step \in {"ranks", "nodes", "edges", "write", "answer"}
        /\ \E m : mem' = [mem EXCEPT ![s] = m]
        /\ UNCHANGED <<fts, ftsVersion, intact, suspect>>
    <3>1. CASE CheckRank(s)
      BY <3>1 DEF CheckRank, Steps
    <3>2. CASE ReadRanks(s)
      BY <3>2 DEF ReadRanks, Steps
    <3>3. CASE ReadNodes(s)
      BY <3>3 DEF ReadNodes, Steps
    <3>4. CASE Compute(s)
      <4>1. PICK links :
                mem' = [mem EXCEPT ![s].ranks = Recompute(@, mem[s].nodes, links),
                                   ![s].nodes = {}]
        BY <3>4 DEF Compute
      <4>2. \E m : mem' = [mem EXCEPT ![s] = m]
        BY <4>1
      <4> QED BY <3>4, <4>2 DEF Compute, Steps
    <3>5. CASE WriteRanks(s)
      BY <3>5 DEF WriteRanks, Steps
    <3> QED BY <1>17, <3>1, <3>2, <3>3, <3>4, <3>5 DEF Rank
  <2>2. \A o \in Searches : o # s => mem'[o] = mem[o]
    BY <1>5, <2>1
  <2>3. PICK step \in Steps :
            /\ pc' = [pc EXCEPT ![s] = step]
            /\ step \in {"ranks", "nodes", "edges", "write", "answer"}
    BY <2>1
  <2>4. step \notin {"check", "clear", "select", "insert", "version", "stamp"}
    BY <2>3
  <2> QED BY <1>6, <2>1, <2>2, <2>3, <2>4
<1>18. CASE Answer(s) \/ Fail(s)
  <2>1. End(s)
    BY <1>18 DEF Answer, Fail
  <2>2. \A o \in Searches : o # s => mem'[o] = mem[o]
    BY <1>5, <2>1 DEF End
  <2> QED BY <1>6, <2>1, <2>2 DEF End, Steps
<1> QED BY <1>7, <1>8, <1>9, <1>12, <1>13, <1>14, <1>15, <1>16, <1>17, <1>18
        DEF Search, Rebuild

LEMMA StepRebuild ==
    TypeOK /\ VersionInv /\ RebuildInv /\ [Next]_vars => RebuildInv'
<1>1. ASSUME RebuildInv, UNCHANGED vars PROVE RebuildInv'
  BY <1>1 DEF RebuildInv, Beside, Alone, Rebuilding, ExactClaim, Claimed, Exact,
              Built, Past, Indexing, Indexed, Holding, vars
<1> QED BY <1>1, CrawlRebuild, SearchRebuild DEF Next

\* An index that claims the version of the graph holds every text that is stored
\* in full once, and nothing else but texts that have been evicted, whatever is killed and whenever, but for the two races that intact records
\* (rebuild_fts(), and its caller in turso_search()).
THEOREM ClaimAlwaysSound == Spec => []ClaimHolds
<1>1. Init => TypeOK /\ VersionInv /\ RebuildInv
  BY InitType, InitVersion, InitRebuild
<1>2. TypeOK /\ VersionInv /\ RebuildInv /\ [Next]_vars
        => (TypeOK /\ VersionInv /\ RebuildInv)'
  BY StepType, StepVersion, StepRebuild
<1>3. RebuildInv => ClaimHolds
  <2>1. \A r \in Rows : Holding(Indexed(graph.content))[r]
                            = IF r \in Indexed(graph.content) THEN 1 ELSE 0
    BY DEF Holding
  <2> QED BY <2>1 DEF RebuildInv, ExactClaim, Exact, ClaimHolds, Current
<1> QED BY <1>1, <1>2, <1>3, PTL DEF Spec

-----------------------------------------------------------------------------
(* Records in sequences *)

LEMMA Greatest ==
    ASSUME NEW n \in Nat, NEW T, T \subseteq 1..n, T # {}
    PROVE  \E i \in T : \A j \in T : j <= i
<1> DEFINE D == {n - i : i \in T}
<1>1. D \subseteq Nat /\ D # {}
  <2>1. \A i \in T : n - i \in Nat /\ n - i \in D
    OBVIOUS
  <2>2. QED
    BY <2>1
<1> HIDE DEF D
<1>2. PICK x \in D : \A y \in D : ~(<<y, x>> \in OpToRel(<, Nat))
  BY <1>1, NatLessThanWellFounded, WFMin
<1>3. PICK i \in T : x = n - i
  BY DEF D
<1>4. \A j \in T : n - j \in D /\ n - j \in Nat /\ x \in Nat
  BY <1>1 DEF D
<1>5. \A j \in T : ~(n - j < x)
  BY <1>2, <1>4 DEF OpToRel
<1>6. QED
  BY <1>3, <1>5

LEMMA ItemTypes ==
    ASSUME NEW S, NEW s \in Seq(S)
    PROVE  /\ Items(s) \subseteq S
           /\ Len(s) \in Nat /\ DOMAIN s = 1..Len(s)
           /\ \A i \in 1..Len(s) : s[i] \in Items(s) /\ s[i] \in S
BY DEF Items

LEMMA ItemsConcat ==
    ASSUME NEW S, NEW s \in Seq(S), NEW t \in Seq(S)
    PROVE  s \o t \in Seq(S) /\ Items(s \o t) \subseteq Items(s) \cup Items(t)
<1>1. /\ s \o t \in Seq(S) /\ Len(s \o t) = Len(s) + Len(t)
      /\ Len(s) \in Nat /\ Len(t) \in Nat
      /\ DOMAIN s = 1..Len(s) /\ DOMAIN t = 1..Len(t) /\ DOMAIN (s \o t) = 1..(Len(s) + Len(t))
      /\ \A i \in 1..(Len(s) + Len(t)) :
             (s \o t)[i] = IF i <= Len(s) THEN s[i] ELSE t[i - Len(s)]
  OBVIOUS
<1>2. ASSUME NEW i \in 1..(Len(s) + Len(t)) PROVE (s \o t)[i] \in Items(s) \cup Items(t)
  <2>1. CASE i <= Len(s)
    BY <1>1, <2>1 DEF Items
  <2>2. CASE ~(i <= Len(s))
    <3>1. i - Len(s) \in DOMAIN t
      BY <1>1, <2>2
    <3>2. QED
      BY <1>1, <2>2, <3>1 DEF Items
  <2>3. QED
    BY <2>1, <2>2
<1>3. QED
  BY <1>1, <1>2 DEF Items

\* The last record of a URL is one of the records and of that URL.
LEMMA LastIs ==
    ASSUME NEW S, NEW s \in Seq(S), NEW u, \E i \in DOMAIN s : s[i].url = u
    PROVE  LastOf(s, u) \in Items(s) /\ LastOf(s, u).url = u
<1> DEFINE T == {i \in DOMAIN s : s[i].url = u}
           last(i) == i \in DOMAIN s /\ s[i].url = u
                          /\ \A j \in DOMAIN s : s[j].url = u => j <= i
<1>1. DOMAIN s = 1..Len(s) /\ Len(s) \in Nat
  OBVIOUS
<1>2. T \subseteq 1..Len(s) /\ T # {}
  BY <1>1
<1>3. \E i \in T : \A j \in T : j <= i
  BY <1>1, <1>2, Greatest
<1>4. PICK k : k \in DOMAIN s /\ s[k].url = u /\ \A j \in DOMAIN s : s[j].url = u => j <= k
  BY <1>3
<1> DEFINE c == CHOOSE i \in DOMAIN s :
                    s[i].url = u /\ \A j \in DOMAIN s : s[j].url = u => j <= i
<1>5. c \in DOMAIN s /\ s[c].url = u
  BY <1>4
<1>6. LastOf(s, u) = s[c]
  BY DEF LastOf
<1>7. QED
  BY <1>5, <1>6 DEF Items

\* As many rows as records, and each row from a record: then each record is a row.
LEMMA AllRows ==
    ASSUME NEW n \in Nat, NEW f, NEW stored, stored \subseteq {f[i] : i \in 1..n},
           Cardinality(stored) = n
    PROVE  stored = {f[i] : i \in 1..n}
<1> DEFINE all == {f[i] : i \in 1..n}
           g == [i \in 1..n |-> f[i]]
<1>1. g \in Surjection(1..n, all)
  BY DEF Surjection
<1>2. ExistsSurjection(1..n, all)
  BY <1>1 DEF ExistsSurjection
<1> HIDE DEF all, g
<1>3. IsFiniteSet(all) /\ Cardinality(all) <= n
  BY <1>2, FS_NatSurjection, FS_SurjCardinalityBound
<1>4. Cardinality(all) \in Nat /\ Cardinality(stored) <= Cardinality(all)
  BY <1>3, FS_CardinalityType, FS_Subset DEF all
<1>5. Cardinality(all) = Cardinality(stored)
  BY <1>3, <1>4
<1>6. stored = all
  BY <1>3, <1>5, FS_Subset DEF all
<1>7. QED
  BY <1>6 DEF all

-----------------------------------------------------------------------------
(* Exports *)

LEMMA ExportTypes ==
    ASSUME NEW e \in Exports
    PROVE  /\ e.valid \in BOOLEAN
           /\ e.nodes \in Seq([url : NodeUrls, crawled : BOOLEAN])
           /\ e.edges \in Seq([from : NodeUrls, to : NodeUrls])
           /\ e.contents \in Seq([hash : Hashes, url : NodeUrls, text : BOOLEAN])
           /\ e.jobs \in Seq([url : NodeUrls, status : Statuses \cup {NoStatus}])
BY MigrationAssumption DEF MigrationAssumption, Exported

\* The batch has one node for each URL of the export's nodes and edges.
LEMMA BatchNodes ==
    ASSUME NEW e \in Exports
    PROVE  /\ Batch(e) \subseteq [url : NodeUrls, crawled : BOOLEAN]
           /\ {n.url : n \in Batch(e)} = Declared(e) \cup Stubs(e)
           /\ \A m, n \in Batch(e) : m.url = n.url => m = n
           /\ \A l \in Items(e.edges) : {l.from, l.to} \subseteq Declared(e) \cup Stubs(e)
<1> DEFINE N == [url : NodeUrls, crawled : BOOLEAN]
<1>1. e.nodes \in Seq(N) /\ Items(e.nodes) \subseteq N
  BY ExportTypes, ItemTypes
<1>2. Items(e.edges) \subseteq [from : NodeUrls, to : NodeUrls]
  BY ExportTypes, ItemTypes
<1>3. \A u \in Declared(e) : LastOf(e.nodes, u) \in N /\ LastOf(e.nodes, u).url = u
  <2> TAKE u \in Declared(e)
  <2>1. \E i \in DOMAIN e.nodes : e.nodes[i].url = u
    BY DEF Declared, Items
  <2>2. QED
    BY <1>1, <2>1, LastIs
<1>4. Stubs(e) \subseteq NodeUrls
  <2>1. \A l \in Items(e.edges) : {l.from, l.to} \subseteq NodeUrls
    BY <1>2
  <2>2. \A u \in Stubs(e) : \E l \in Items(e.edges) : u \in {l.from, l.to}
    BY Zenon DEF Stubs
  <2>3. QED
    BY <2>1, <2>2
<1>5. \A l \in Items(e.edges) : {l.from, l.to} \subseteq Declared(e) \cup Stubs(e)
  <2> TAKE l \in Items(e.edges)
  <2>1. \A u \in {l.from, l.to} : u \in UNION {{k.from, k.to} : k \in Items(e.edges)}
    BY Zenon
  <2>2. QED
    BY <2>1 DEF Stubs
<1>6. \A u : [url |-> u, crawled |-> FALSE].url = u
  OBVIOUS
<1>7. \A n \in Batch(e) :
          \/ n.url \in Declared(e) /\ n = LastOf(e.nodes, n.url)
          \/ n.url \in Stubs(e) /\ n = [url |-> n.url, crawled |-> FALSE]
  BY <1>3, <1>6 DEF Batch
<1>8. \A m, n \in Batch(e) : m.url = n.url => m = n
  <2>1. Stubs(e) \cap Declared(e) = {}
    BY DEF Stubs
  <2>2. QED
    BY <1>7, <2>1
<1>9. {n.url : n \in Batch(e)} = Declared(e) \cup Stubs(e)
  <2>1. \A u \in Declared(e) : \E n \in Batch(e) : n.url = u
    BY <1>3 DEF Batch
  <2>2. \A u \in Stubs(e) : \E n \in Batch(e) : n.url = u
    BY <1>6 DEF Batch
  <2>3. QED
    BY <1>7, <2>1, <2>2
<1>10. Batch(e) \subseteq N
  <2>1. \A u \in Stubs(e) : [url |-> u, crawled |-> FALSE] \in N
    BY <1>4
  <2>2. QED
    BY <1>3, <2>1 DEF Batch
<1>11. QED
  BY <1>5, <1>8, <1>9, <1>10

-----------------------------------------------------------------------------
(* Types *)

Tables ==
    /\ nodes \subseteq [url : NodeUrls, crawled : BOOLEAN]
    /\ edges \in Seq([from : NodeUrls, to : NodeUrls])
    /\ contents \subseteq [hash : Hashes, url : NodeUrls, text : BOOLEAN]
    /\ jobs \subseteq [url : NodeUrls, status : Statuses]
    /\ indexed \subseteq [hash : Hashes, url : NodeUrls, text : BOOLEAN]

LEMMA MigrateTypeInit == MigrateInit => MigrateTypeOK
<1> SUFFICES ASSUME MigrateInit PROVE MigrateTypeOK
  OBVIOUS
<1>1. <<>> \in Seq([from : NodeUrls, to : NodeUrls])
  OBVIOUS
<1>2. QED
  BY <1>1 DEF MigrateInit, MigrateTypeOK

LEMMA MigrateTypeKept ==
    ASSUME MigrateTypeOK, [MigrateNext]_migrateVars
    PROVE  MigrateTypeOK'
<1> USE DEF tables
<1>1. export \in Exports /\ next \in Nat \ {0} /\ Tables
  BY DEF MigrateTypeOK, Tables
<1>2. ASSUME NEW e \in Exports, BeginImport(e) PROVE MigrateTypeOK'
  <2>1. /\ runs' = runs + 1 /\ export' = e /\ next' = 1 /\ clean' \in BOOLEAN
        /\ phase' \in {"graph", "idle"} /\ outcome' \in {"none", "failed"}
        /\ UNCHANGED <<nodes, edges, contents, jobs, indexed>>
    BY <1>2 DEF BeginImport
  <2>2. QED
    BY <2>1 DEF MigrateTypeOK
<1>3. CASE MigrateBatch
  <2>1. /\ nodes' = {n \in nodes : \A m \in Batch(export) : m.url # n.url} \cup Batch(export)
        /\ edges' = edges \o export.edges /\ phase' = "contents"
        /\ UNCHANGED <<export, next, contents, jobs, indexed, outcome, clean, runs>>
    BY <1>3 DEF MigrateBatch
  <2>2. nodes' \subseteq [url : NodeUrls, crawled : BOOLEAN]
    BY <1>1, <2>1, BatchNodes DEF Tables
  <2>3. edges' \in Seq([from : NodeUrls, to : NodeUrls])
    BY <1>1, <2>1, ExportTypes, ItemsConcat DEF Tables
  <2>4. QED
    BY <2>1, <2>2, <2>3 DEF MigrateTypeOK
<1>4. CASE ImportContent
  <2> DEFINE c == export.contents[next]
  <2>1. /\ contents' = {d \in contents : d.hash # c.hash} \cup {c}
        /\ nodes' = {n \in nodes : n.url # c.url}
                        \cup {[url |-> u, crawled |-> TRUE] : u \in Known \cap {c.url}}
        /\ next' = next + 1 /\ next <= Len(export.contents) /\ phase = "contents"
        /\ UNCHANGED <<phase, export, edges, jobs, indexed, outcome, clean, runs>>
    BY <1>4 DEF ImportContent
  <2>2. c \in [hash : Hashes, url : NodeUrls, text : BOOLEAN]
    <3>1. export.contents \in Seq([hash : Hashes, url : NodeUrls, text : BOOLEAN])
      BY <1>1, ExportTypes
    <3>2. next \in 1..Len(export.contents)
      BY <1>1, <2>1, <3>1
    <3>3. export.contents[next] \in [hash : Hashes, url : NodeUrls, text : BOOLEAN]
      BY <3>1, <3>2, ItemTypes
    <3>4. QED
      BY <3>3
  <2> HIDE DEF c
  <2>3. contents' \subseteq [hash : Hashes, url : NodeUrls, text : BOOLEAN]
    BY <1>1, <2>1, <2>2 DEF Tables
  <2>4. \A u \in Known \cap {c.url} : [url |-> u, crawled |-> TRUE] \in [url : NodeUrls, crawled : BOOLEAN]
    BY <2>2
  <2>5. nodes' \subseteq [url : NodeUrls, crawled : BOOLEAN]
    BY <1>1, <2>1, <2>4 DEF Tables
  <2>6. next' \in Nat \ {0} /\ phase' # "mark"
    BY <1>1, <2>1
  <2>7. QED
    BY <2>1, <2>3, <2>5, <2>6 DEF MigrateTypeOK
<1>5. CASE EnqueueJob
  <2> DEFINE u == export.jobs[next].url
  <2>1. /\ jobs' = IF \E j \in jobs : j.url = u THEN jobs
                   ELSE jobs \cup {[url |-> u, status |-> "pending"]}
        /\ next <= Len(export.jobs) /\ phase' = "mark"
        /\ UNCHANGED <<export, next, nodes, edges, contents, indexed, outcome, clean, runs>>
    BY <1>5 DEF EnqueueJob
  <2>2. u \in NodeUrls
    <3>1. export.jobs \in Seq([url : NodeUrls, status : Statuses \cup {NoStatus}])
      BY <1>1, ExportTypes
    <3>2. next \in 1..Len(export.jobs)
      BY <1>1, <2>1, <3>1
    <3>3. export.jobs[next] \in [url : NodeUrls, status : Statuses \cup {NoStatus}]
      BY <3>1, <3>2, ItemTypes
    <3>4. QED
      BY <3>3
  <2> HIDE DEF u
  <2>3. [url |-> u, status |-> "pending"] \in [url : NodeUrls, status : Statuses]
    BY <2>2, MigrationAssumption DEF MigrationAssumption
  <2>4. jobs' \subseteq [url : NodeUrls, status : Statuses]
    BY <1>1, <2>1, <2>3 DEF Tables
  <2>5. phase' = "mark" => next' <= Len(export'.jobs)
    BY <2>1
  <2>6. QED
    BY <2>1, <2>4, <2>5 DEF MigrateTypeOK
<1>6. CASE MarkJob
  <2> DEFINE j == export.jobs[next]
  <2>1. /\ jobs' = IF j.status = NoStatus THEN jobs ELSE {k \in jobs : k.url # j.url} \cup {j}
        /\ phase = "mark" /\ phase' = "jobs" /\ next' = next + 1
        /\ UNCHANGED <<export, nodes, edges, contents, indexed, outcome, clean, runs>>
    BY <1>6 DEF MarkJob
  <2>2. j \in [url : NodeUrls, status : Statuses \cup {NoStatus}]
    <3>1. export.jobs \in Seq([url : NodeUrls, status : Statuses \cup {NoStatus}])
      BY <1>1, ExportTypes
    <3>2. next \in 1..Len(export.jobs)
      BY <1>1, <2>1, <3>1 DEF MigrateTypeOK
    <3>3. export.jobs[next] \in [url : NodeUrls, status : Statuses \cup {NoStatus}]
      BY <3>1, <3>2, ItemTypes
    <3>4. QED
      BY <3>3
  <2> HIDE DEF j
  <2>3. j.status # NoStatus => j \in [url : NodeUrls, status : Statuses]
    BY <2>2
  <2>4. jobs' \subseteq [url : NodeUrls, status : Statuses]
    BY <1>1, <2>1, <2>3 DEF Tables
  <2>5. next' \in Nat \ {0} /\ phase' # "mark"
    BY <1>1, <2>1
  <2>6. QED
    BY <2>1, <2>4, <2>5 DEF MigrateTypeOK
<1>7. CASE ContentsDone \/ JobsDone \/ Verify
  BY <1>7 DEF ContentsDone, JobsDone, Verify, MigrateTypeOK
<1>8. CASE RebuildFts
  BY <1>8 DEF RebuildFts, MigrateTypeOK
<1>9. CASE Abort
  <2>1. indexed' \subseteq indexed \cup contents
    BY <1>9 DEF Abort
  <2>2. QED
    BY <1>9, <2>1 DEF Abort, MigrateTypeOK
<1>10. CASE UNCHANGED migrateVars
  BY <1>10 DEF migrateVars, MigrateTypeOK
<1>11. QED
  BY <1>2, <1>3, <1>4, <1>5, <1>6, <1>7, <1>8, <1>9, <1>10 DEF MigrateNext

\* The tables stay well-formed.
THEOREM MigrateTypeCorrect == MigrateSpec => []MigrateTypeOK
BY MigrateTypeInit, MigrateTypeKept, PTL DEF MigrateSpec

-----------------------------------------------------------------------------
(* Edges *)

LEMMA InitEdges == MigrateInit => NoDanglingEdges
<1> SUFFICES ASSUME MigrateInit PROVE NoDanglingEdges
  OBVIOUS
<1>1. Items(edges) = {} /\ nodes = {}
  BY DEF MigrateInit, Items
<1>2. QED
  BY <1>1 DEF NoDanglingEdges

LEMMA ContentKeepsNodes ==
    ASSUME ImportContent
    PROVE  /\ Known' = Known
           /\ (\A m, n \in nodes : m.url = n.url => m = n)
                  => \A m, n \in nodes' : m.url = n.url => m = n
<1> DEFINE c == export.contents[next]
           marked == {[url |-> u, crawled |-> TRUE] : u \in Known \cap {c.url}}
<1>1. nodes' = {n \in nodes : n.url # c.url} \cup marked
  BY DEF ImportContent
<1>2. \A m \in marked : m = [url |-> c.url, crawled |-> TRUE] /\ m.url = c.url /\ m.url \in Known
  OBVIOUS
<1>3. c.url \in Known => [url |-> c.url, crawled |-> TRUE] \in marked
  OBVIOUS
<1> HIDE DEF c, marked
<1>4. \A n \in nodes' : n \in marked \/ (n \in nodes /\ n.url # c.url)
  BY <1>1
<1>5. Known' \subseteq Known
  BY <1>2, <1>4 DEF Known
<1>6. Known \subseteq Known'
  <2> SUFFICES ASSUME NEW n \in nodes PROVE \E m \in nodes' : m.url = n.url
    BY DEF Known
  <2>1. CASE n.url = c.url
    <3>1. c.url \in Known
      BY <2>1 DEF Known
    <3>2. [url |-> c.url, crawled |-> TRUE] \in nodes'
      BY <1>1, <1>3, <3>1
    <3>3. QED
      BY <2>1, <3>2
  <2>2. CASE n.url # c.url
    BY <1>1, <2>2
  <2>3. QED
    BY <2>1, <2>2
<1>7. QED
  BY <1>2, <1>4, <1>5, <1>6

LEMMA EdgesKept ==
    ASSUME MigrateTypeOK, NoDanglingEdges, [MigrateNext]_migrateVars
    PROVE  NoDanglingEdges'
<1> USE DEF tables
<1>1. CASE UNCHANGED <<nodes, edges>>
  BY <1>1 DEF NoDanglingEdges, Known
<1>2. CASE MigrateBatch
  <2> DEFINE B == Batch(export)
  <2>1. nodes' = {n \in nodes : \A m \in B : m.url # n.url} \cup B /\ edges' = edges \o export.edges
    BY <1>2 DEF MigrateBatch
  <2>2. export \in Exports /\ edges \in Seq([from : NodeUrls, to : NodeUrls])
    BY DEF MigrateTypeOK
  <2>3. /\ {n.url : n \in B} = Declared(export) \cup Stubs(export)
        /\ \A m, n \in B : m.url = n.url => m = n
        /\ \A l \in Items(export.edges) :
               {l.from, l.to} \subseteq Declared(export) \cup Stubs(export)
    BY <2>2, BatchNodes
  <2>4. Items(edges') \subseteq Items(edges) \cup Items(export.edges)
    BY <2>1, <2>2, ExportTypes, ItemsConcat
  <2> HIDE DEF B
  <2>5. {n.url : n \in B} \subseteq Known'
    BY <2>1 DEF Known
  <2>6. Known \subseteq Known'
    BY <2>1, <2>5 DEF Known
  <2>7. \A l \in Items(edges') : l.from \in Known' /\ l.to \in Known'
    BY <2>3, <2>4, <2>5, <2>6 DEF NoDanglingEdges
  <2>8. \A m, n \in nodes' : m.url = n.url => m = n
    BY <2>1, <2>3 DEF NoDanglingEdges
  <2>9. QED
    BY <2>7, <2>8 DEF NoDanglingEdges
<1>3. CASE ImportContent
  <2>1. edges' = edges
    BY <1>3 DEF ImportContent
  <2>2. QED
    BY <1>3, <2>1, ContentKeepsNodes DEF NoDanglingEdges
<1>4. CASE ~(MigrateBatch \/ ImportContent)
  <2>1. UNCHANGED <<nodes, edges>>
    BY <1>4 DEF MigrateNext, BeginImport, ContentsDone, EnqueueJob, MarkJob, JobsDone, RebuildFts, Verify,
       Abort, migrateVars
  <2>2. QED
    BY <1>1, <2>1
<1>5. QED
  BY <1>2, <1>3, <1>4

\* No edge dangles, foreign keys or not, whatever was imported and aborted before.
THEOREM EdgesNeverDangle == MigrateSpec => []NoDanglingEdges
BY MigrateTypeInit, MigrateTypeKept, InitEdges, EdgesKept, PTL DEF MigrateSpec

-----------------------------------------------------------------------------
(* What a success means *)

Running == phase \notin {"idle", "graph"}

\* Of an import that began on empty tables, at each of its points: nothing is there before
\* the batch; then no row is there that is not a record of the export, but for the job that
\* is between its two writes.
CleanImport ==
    /\ phase # "idle" => outcome = "none"
    /\ clean /\ phase = "graph" => edges = <<>> /\ nodes = {} /\ contents = {} /\ jobs = {}
    /\ clean /\ Running =>
           /\ Known = Declared(export) \cup Stubs(export)
           /\ edges = export.edges
           /\ contents \subseteq Items(export.contents)
           /\ \A c \in contents : \A n \in nodes : n.url = c.url => n.crawled
           /\ \A j \in jobs : \/ j \in FinalJobs(export)
                              \/ /\ phase = "mark"
                                 /\ j = [url |-> export.jobs[next].url, status |-> "pending"]
    /\ clean /\ phase = "verify" => \A c \in contents : c.text /\ c.url \in Known => c \in indexed

ExactInv == MigrateTypeOK /\ CleanImport /\ SuccessIsExact

LEMMA InitExact == MigrateInit => ExactInv
BY MigrateTypeInit DEF MigrateInit, ExactInv, CleanImport, SuccessIsExact, Running

LEMMA BeginExact ==
    ASSUME ExactInv, NEW e \in Exports, BeginImport(e)
    PROVE  CleanImport' /\ SuccessIsExact'
<1>1. /\ phase = "idle" /\ UNCHANGED <<nodes, edges, contents, jobs>>
      /\ \/ phase' = "graph" /\ outcome' = "none"
         \/ phase' = "idle" /\ outcome' = "failed"
      /\ clean' => nodes = {} /\ edges = <<>> /\ contents = {} /\ jobs = {}
  <2>1. clean' = (nodes = {} /\ edges = <<>> /\ contents = {} /\ jobs = {})
    BY DEF BeginImport
  <2>2. QED
    BY <2>1 DEF BeginImport, tables
<1>2. QED
  BY <1>1 DEF CleanImport, SuccessIsExact, Running

LEMMA BatchExact ==
    ASSUME ExactInv, MigrateBatch
    PROVE  CleanImport' /\ SuccessIsExact'
<1>1. /\ nodes' = {n \in nodes : \A m \in Batch(export) : m.url # n.url} \cup Batch(export)
      /\ edges' = edges \o export.edges /\ phase = "graph" /\ phase' = "contents"
      /\ UNCHANGED <<export, next, contents, jobs, indexed, outcome, clean, runs>>
  BY DEF MigrateBatch
<1>2. export \in Exports /\ outcome = "none"
  BY <1>1 DEF ExactInv, MigrateTypeOK, CleanImport
<1>3. {n.url : n \in Batch(export)} = Declared(export) \cup Stubs(export)
  BY <1>2, BatchNodes
<1>4. ASSUME clean PROVE Known' = Declared(export) \cup Stubs(export) /\ edges' = export.edges
                         /\ contents = {} /\ jobs = {}
  <2>1. nodes = {} /\ edges = <<>> /\ contents = {} /\ jobs = {}
    BY <1>1, <1>4 DEF ExactInv, CleanImport
  <2>2. nodes' = Batch(export)
    BY <1>1, <2>1
  <2>3. export.edges \in Seq([from : NodeUrls, to : NodeUrls])
    BY <1>2, ExportTypes
  <2>4. edges' = export.edges
    BY <1>1, <2>1, <2>3
  <2>5. QED
    BY <1>3, <2>1, <2>2, <2>4 DEF Known
<1>5. QED
  BY <1>1, <1>2, <1>4 DEF CleanImport, SuccessIsExact, Running

LEMMA ContentExact ==
    ASSUME ExactInv, ImportContent
    PROVE  CleanImport' /\ SuccessIsExact'
<1> DEFINE c == export.contents[next]
           marked == {[url |-> u, crawled |-> TRUE] : u \in Known \cap {c.url}}
<1>1. /\ contents' = {d \in contents : d.hash # c.hash} \cup {c}
      /\ nodes' = {n \in nodes : n.url # c.url} \cup marked
      /\ phase = "contents" /\ next <= Len(export.contents)
      /\ UNCHANGED <<phase, export, edges, jobs, indexed, outcome, clean, runs>>
  BY DEF ImportContent
<1>2. export \in Exports /\ next \in Nat \ {0} /\ outcome = "none"
  BY <1>1 DEF ExactInv, MigrateTypeOK, CleanImport
<1>3. c \in Items(export.contents)
  <2>1. export.contents \in Seq([hash : Hashes, url : NodeUrls, text : BOOLEAN])
    BY <1>2, ExportTypes
  <2>2. next \in 1..Len(export.contents)
    BY <1>1, <1>2, <2>1
  <2>3. QED
    BY <2>1, <2>2, ItemTypes
<1>4. Known' = Known
  BY ContentKeepsNodes
<1>5. \A n \in marked : n.crawled
  OBVIOUS
<1> HIDE DEF c, marked
<1>6. ASSUME clean
      PROVE  /\ Known = Declared(export) \cup Stubs(export) /\ edges = export.edges
             /\ contents' \subseteq Items(export.contents)
             /\ \A d \in contents' : \A n \in nodes' : n.url = d.url => n.crawled
             /\ \A j \in jobs : j \in FinalJobs(export)
  <2>1. /\ Known = Declared(export) \cup Stubs(export) /\ edges = export.edges
        /\ contents \subseteq Items(export.contents)
        /\ \A d \in contents : \A n \in nodes : n.url = d.url => n.crawled
        /\ \A j \in jobs : j \in FinalJobs(export)
    BY <1>1, <1>6 DEF ExactInv, CleanImport, Running
  <2>2. contents' \subseteq Items(export.contents)
    BY <1>1, <1>3, <2>1
  <2>3. \A d \in contents' : \A n \in nodes' : n.url = d.url => n.crawled
    BY <1>1, <1>5, <2>1
  <2>4. QED
    BY <2>1, <2>2, <2>3
<1>7. FinalJobs(export)' = FinalJobs(export) /\ (Declared(export) \cup Stubs(export))' = Declared(export) \cup Stubs(export)
  BY <1>1 DEF FinalJobs, Declared, Stubs
<1>8. QED
  BY <1>1, <1>2, <1>4, <1>6, <1>7 DEF CleanImport, SuccessIsExact, Running

LEMMA JobsExact ==
    ASSUME ExactInv, EnqueueJob \/ MarkJob
    PROVE  CleanImport' /\ SuccessIsExact'
<1> DEFINE j == export.jobs[next]
           row == [url |-> j.url, status |-> "pending"]
<1>1. /\ UNCHANGED <<export, nodes, edges, contents, indexed, outcome, clean>>
      /\ phase \in {"jobs", "mark"} /\ phase' \in {"jobs", "mark"}
  BY DEF EnqueueJob, MarkJob
<1>2. export \in Exports /\ next \in Nat \ {0} /\ outcome = "none"
  BY <1>1 DEF ExactInv, MigrateTypeOK, CleanImport
<1>3. j \in [url : NodeUrls, status : Statuses \cup {NoStatus}] /\ j \in Items(export.jobs)
  <2>1. export.jobs \in Seq([url : NodeUrls, status : Statuses \cup {NoStatus}])
    BY <1>2, ExportTypes
  <2>2. next <= Len(export.jobs)
    BY DEF EnqueueJob, MarkJob, ExactInv, MigrateTypeOK
  <2>3. next \in 1..Len(export.jobs)
    BY <1>2, <2>1, <2>2
  <2>4. QED
    BY <2>1, <2>3, ItemTypes
<1>4. Final(j) \in FinalJobs(export)
  BY <1>3 DEF FinalJobs
<1>5. j.status = NoStatus => Final(j) = row
  BY <1>3 DEF Final
<1>6. j.status # NoStatus => Final(j) = j
  BY DEF Final
<1>7. FinalJobs(export)' = FinalJobs(export)
  BY <1>1 DEF FinalJobs
<1>8. ASSUME clean, EnqueueJob
      PROVE  \A k \in jobs' : k \in FinalJobs(export)
                              \/ (phase' = "mark" /\ k = row /\ next' = next)
  <2>1. \A k \in jobs : k \in FinalJobs(export)
    BY <1>8 DEF ExactInv, CleanImport, Running, EnqueueJob
  <2>2. phase' = "mark" /\ next' = next /\ jobs' \subseteq jobs \cup {row}
    BY <1>8 DEF EnqueueJob
  <2>3. QED
    BY <2>1, <2>2
<1>9. ASSUME clean, MarkJob
      PROVE  \A k \in jobs' : k \in FinalJobs(export)
  <2>1. \A k \in jobs : k \in FinalJobs(export) \/ k = row
    BY <1>9 DEF ExactInv, CleanImport, Running, MarkJob
  <2>2. jobs' = IF j.status = NoStatus THEN jobs ELSE {k \in jobs : k.url # j.url} \cup {j}
    BY <1>9 DEF MarkJob
  <2>3. row.url = j.url
    OBVIOUS
  <2> HIDE DEF j, row
  <2>4. QED
    BY <1>4, <1>5, <1>6, <2>1, <2>2, <2>3
<1>10. ASSUME clean
       PROVE  \A k \in jobs' : \/ k \in FinalJobs(export)'
                               \/ /\ phase' = "mark"
                                  /\ k = [url |-> export'.jobs[next'].url, status |-> "pending"]
  <2>1. export' = export
    BY <1>1
  <2>2. CASE EnqueueJob
    BY <1>7, <1>8, <1>10, <2>1, <2>2
  <2>3. CASE MarkJob
    BY <1>7, <1>9, <1>10, <2>3
  <2>4. QED
    BY <2>2, <2>3
<1> HIDE DEF j, row
<1>11. Known' = Known /\ Declared(export)' = Declared(export) /\ Stubs(export)' = Stubs(export)
  BY <1>1 DEF Known, Declared, Stubs
<1>12. clean =>
         /\ Known = Declared(export) \cup Stubs(export)
         /\ edges = export.edges
         /\ contents \subseteq Items(export.contents)
         /\ \A c \in contents : \A n \in nodes : n.url = c.url => n.crawled
  BY <1>1 DEF ExactInv, CleanImport, Running
<1>13. QED
  BY <1>1, <1>2, <1>10, <1>11, <1>12 DEF CleanImport, SuccessIsExact, Running

LEMMA VerifyExact ==
    ASSUME ExactInv, Verify
    PROVE  CleanImport' /\ SuccessIsExact'
<1>1. /\ phase = "verify" /\ phase' = "idle"
      /\ outcome' = "success" => CountsMatch
      /\ UNCHANGED <<export, next, nodes, edges, contents, jobs, indexed, clean, runs>>
  BY DEF Verify, tables
<1>2. export \in Exports
  BY DEF ExactInv, MigrateTypeOK
<1>3. /\ export.contents \in Seq([hash : Hashes, url : NodeUrls, text : BOOLEAN])
      /\ export.jobs \in Seq([url : NodeUrls, status : Statuses \cup {NoStatus}])
  BY <1>2, ExportTypes
<1>4. ASSUME clean, CountsMatch
      PROVE  /\ Known = Declared(export) \cup Stubs(export)
             /\ edges = export.edges
             /\ contents = Items(export.contents)
             /\ \A c \in contents : \A n \in nodes : n.url = c.url => n.crawled
             /\ \A c \in contents : c.text /\ c.url \in Known => c \in indexed
             /\ jobs = FinalJobs(export)
  <2>1. /\ Known = Declared(export) \cup Stubs(export)
        /\ edges = export.edges
        /\ contents \subseteq Items(export.contents)
        /\ \A c \in contents : \A n \in nodes : n.url = c.url => n.crawled
        /\ \A c \in contents : c.text /\ c.url \in Known => c \in indexed
        /\ jobs \subseteq FinalJobs(export)
    BY <1>1, <1>4 DEF ExactInv, CleanImport, Running
  <2>2. contents = Items(export.contents)
    <3> DEFINE n == Len(export.contents)
    <3>1. n \in Nat /\ DOMAIN export.contents = 1..n /\ Cardinality(contents) = n
      BY <1>3, <1>4 DEF CountsMatch
    <3>2. Items(export.contents) = {export.contents[i] : i \in 1..n}
      BY <3>1 DEF Items
    <3> HIDE DEF n
    <3>3. QED
      BY <2>1, <3>1, <3>2, AllRows
  <2>3. jobs = FinalJobs(export)
    <3> DEFINE n == Len(export.jobs)
               f == [i \in 1..n |-> Final(export.jobs[i])]
    <3>1. n \in Nat /\ DOMAIN export.jobs = 1..n /\ Cardinality(jobs) = n
      BY <1>3, <1>4 DEF CountsMatch
    <3>2. Items(export.jobs) = {export.jobs[i] : i \in 1..n}
      BY <3>1 DEF Items
    <3>3. \A i \in 1..n : f[i] = Final(export.jobs[i])
      OBVIOUS
    <3> HIDE DEF n, f
    <3>4. FinalJobs(export) = {f[i] : i \in 1..n}
      BY <3>2, <3>3 DEF FinalJobs
    <3>5. QED
      BY <2>1, <3>1, <3>4, AllRows
  <2>4. QED
    BY <2>1, <2>2, <2>3
<1>5. /\ Known' = Known /\ Declared(export)' = Declared(export) /\ Stubs(export)' = Stubs(export)
      /\ FinalJobs(export)' = FinalJobs(export) /\ Items(export.contents)' = Items(export.contents)
  BY <1>1 DEF Known, Declared, Stubs, FinalJobs, Items
<1>6. SuccessIsExact'
  <2> SUFFICES ASSUME outcome' = "success", clean' PROVE SuccessIsExact'
    BY DEF SuccessIsExact
  <2>1. clean /\ CountsMatch
    BY <1>1
  <2>2. (Known = Declared(export) \cup Stubs(export))'
    BY <1>4, <1>5, <2>1
  <2>3. (edges = export.edges)' /\ (contents = Items(export.contents))'
    BY <1>1, <1>4, <1>5, <2>1
  <2>4. (\A c \in contents : \A n \in nodes : n.url = c.url => n.crawled)'
    BY <1>1, <1>4, <2>1
  <2>5. (\A c \in contents : c.text /\ c.url \in Known => c \in indexed)'
    BY <1>1, <1>4, <1>5, <2>1
  <2>6. (jobs = FinalJobs(export))'
    BY <1>1, <1>4, <1>5, <2>1
  <2>7. QED
    BY <2>2, <2>3, <2>4, <2>5, <2>6 DEF SuccessIsExact
<1>7. QED
  BY <1>1, <1>6 DEF CleanImport, Running

LEMMA ExactKept == ExactInv /\ [MigrateNext]_migrateVars => ExactInv'
<1> SUFFICES ASSUME ExactInv, [MigrateNext]_migrateVars PROVE CleanImport' /\ SuccessIsExact'
  BY MigrateTypeKept DEF ExactInv
<1> USE DEF tables
<1>1. ASSUME NEW e \in Exports, BeginImport(e) PROVE CleanImport' /\ SuccessIsExact'
  BY <1>1, BeginExact
<1>2. CASE MigrateBatch
  BY <1>2, BatchExact
<1>3. CASE ImportContent
  BY <1>3, ContentExact
<1>4. CASE EnqueueJob \/ MarkJob
  BY <1>4, JobsExact
<1>5. CASE ContentsDone \/ JobsDone
  <2>1. /\ UNCHANGED <<export, nodes, edges, contents, jobs, indexed, outcome, clean>>
        /\ phase \in {"contents", "jobs"} /\ phase' \in {"jobs", "index"}
    BY <1>5 DEF ContentsDone, JobsDone
  <2>2. outcome = "none"
    BY <2>1 DEF ExactInv, CleanImport
  <2>3. /\ Known' = Known /\ Declared(export)' = Declared(export) /\ Stubs(export)' = Stubs(export)
        /\ FinalJobs(export)' = FinalJobs(export)
    BY <2>1 DEF Known, Declared, Stubs, FinalJobs, Items
  <2>4. QED
    BY <2>1, <2>2, <2>3 DEF ExactInv, CleanImport, SuccessIsExact, Running
<1>6. CASE RebuildFts
  <2>1. /\ UNCHANGED <<export, nodes, edges, contents, jobs, outcome, clean>>
        /\ phase = "index" /\ phase' = "verify"
        /\ indexed' = {c \in contents : c.text /\ c.url \in Known}
    BY <1>6 DEF RebuildFts
  <2>2. outcome = "none"
    BY <2>1 DEF ExactInv, CleanImport
  <2>3. /\ Known' = Known /\ Declared(export)' = Declared(export) /\ Stubs(export)' = Stubs(export)
        /\ FinalJobs(export)' = FinalJobs(export)
    BY <2>1 DEF Known, Declared, Stubs, FinalJobs, Items
  <2>4. QED
    BY <2>1, <2>2, <2>3 DEF ExactInv, CleanImport, SuccessIsExact, Running
<1>7. CASE Verify
  BY <1>7, VerifyExact
<1>8. CASE Abort
  BY <1>8 DEF Abort, CleanImport, SuccessIsExact, Running
<1>9. CASE UNCHANGED migrateVars
  <2>1. UNCHANGED <<phase, export, next, nodes, edges, contents, jobs, indexed, outcome, clean>>
    BY <1>9 DEF migrateVars
  <2>2. /\ Known' = Known /\ Declared(export)' = Declared(export) /\ Stubs(export)' = Stubs(export)
        /\ FinalJobs(export)' = FinalJobs(export) /\ Items(export.contents)' = Items(export.contents)
    BY <2>1 DEF Known, Declared, Stubs, FinalJobs, Items
  <2>3. CleanImport'
    BY <2>1, <2>2 DEF ExactInv, CleanImport, Running
  <2>4. SuccessIsExact'
    BY <2>1, <2>2 DEF ExactInv, SuccessIsExact
  <2>5. QED
    BY <2>3, <2>4
<1>10. QED
  BY <1>1, <1>2, <1>3, <1>4, <1>5, <1>6, <1>7, <1>8, <1>9 DEF MigrateNext

\* A reported success of an import into an empty database is the export, to the row.
THEOREM SuccessMeansExact == MigrateSpec => []SuccessIsExact
<1>1. ExactInv => SuccessIsExact
  BY DEF ExactInv
<1>2. QED
  BY InitExact, ExactKept, <1>1, PTL DEF MigrateSpec
=============================================================================
