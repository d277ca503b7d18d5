-------------------------- MODULE BulkCrawlerProofs --------------------------
(***************************************************************************)
(* What BulkCrawler guarantees for every web, every list of seeds and      *)
(* every budget.                                                           *)
(***************************************************************************)
EXTENDS BulkCrawler, FiniteSetTheorems, TLAPS

\* What each phase of the loop works on.
Phased ==
    /\ phase = "map" =>
         /\ seedIdx \in 1..Len(Seeds)
         /\ \A item \in todo : item.kind \in {"sitemap", "llms", "seed"}
    /\ phase = "links" =>
         /\ cur \in Entry
         /\ \A item \in todo : IsLink(item)
    /\ phase = "selected" => \E d \in Domains : cur \in queue[d]

\* While maps and redirects stay at home, so do discoveries: what is left to
\* discover belongs to the frontier it goes to.
TodoAtHome ==
    /\ phase = "map" => \A item \in todo : DomainOf[item.url] = DomainOf[Seed]
    /\ phase = "links" =>
         \A item \in todo :
            item.kind = "internal" => DomainOf[item.url] = DomainOf[cur.url]

\* What is queued is queued at home, was seen there, and is not yet fetched.
QueueAtHome ==
    \A d \in Domains : \A e \in queue[d] :
        DomainOf[e.url] = d /\ e.url \in seen[d] /\ fetches[e.url] = 0

\* What was fetched was seen at home, so that it is not queued again.
FetchedSeen == \A u \in Urls : fetches[u] > 0 => u \in seen[DomainOf[u]]

FetchInv == OwnHosts =>
    TodoAtHome /\ QueueAtHome /\ FetchedSeen /\ FetchedOnce

TypeInv == TypeOK /\ Phased

-----------------------------------------------------------------------------
(* Lemmas about the operators *)

LEMMA SeedType ==
    ASSUME NEW i \in 1..Len(Seeds)
    PROVE  Seeds[i] \in Urls /\ DomainOf[Seeds[i]] \in Domains
BY BulkCrawlerAssumption DEF BulkCrawlerAssumption

LEMMA WebFields ==
    ASSUME web \in Webs
    PROVE  /\ web.links \in [Urls -> SUBSET Urls]
           /\ web.lands \in [Urls -> Domains]
           /\ web.sitemap \in [Domains -> SUBSET Urls]
           /\ web.llms \in [Domains -> SUBSET Urls]
           /\ web.forbids \in [Domains -> SUBSET Urls]
BY BulkCrawlerAssumption DEF BulkCrawlerAssumption, WebType

\* The depth derived from a map is a number, whatever the map.
LEMMA MappedDepthType ==
    ASSUME NEW map PROVE MappedDepth(map) \in Nat
<1> DEFINE S == {n \in 2..20 : \E u \in map : PathDepth[u] >= n}
<1>1. 2 \in Int /\ 20 \in Int
  OBVIOUS
<1>2. IsFiniteSet(2..20)
  BY <1>1, FS_Interval, Zenon
<1>3. S \in SUBSET (2..20)
  OBVIOUS
<1>4. IsFiniteSet(S)
  BY ONLY <1>2, <1>3, FS_Subset
<1>5. Cardinality(S) \in Nat
  BY ONLY <1>4, FS_CardinalityType
<1>6. MappedDepth(map) = 1 + Cardinality(S)
  BY Zenon DEF MappedDepth
<1> HIDE DEF S
<1>7. QED
  BY <1>5, <1>6

LEMMA UrlsFinite ==
    ASSUME NEW S \in SUBSET Urls
    PROVE  IsFiniteSet(S) /\ Cardinality(S) \in Nat
<1>1. IsFiniteSet(Urls)
  BY BulkCrawlerAssumption DEF BulkCrawlerAssumption
<1>2. IsFiniteSet(S)
  BY ONLY <1>1, FS_Subset
<1>3. QED
  BY <1>2, FS_CardinalityType

\* Where a discovered URL goes, at which depth and relevance.
LEMMA ItemType ==
    ASSUME TypeInv, phase \in {"map", "links"}, NEW item \in todo
    PROVE  /\ item \in Item
           /\ item.url \in Urls
           /\ Key(item) \in Domains
           /\ DepthOf(item) \in Nat
           /\ RelOf(item) \in Nat
<1> USE BulkCrawlerAssumption DEF BulkCrawlerAssumption, TypeInv
<1>1. item \in Item /\ item.url \in Urls /\ item.kind \in Kinds
  BY DEF TypeOK, Item
<1>2. 3 * Rel[item.url] \in Nat /\ 10 * Rel[item.url] \in Nat
  <2>1. Rel[item.url] \in 0..10
    BY <1>1
  <2>2. \A r \in 0..10 : 3 * r \in Nat /\ 10 * r \in Nat
    OBVIOUS
  <2>3. QED
    BY ONLY <2>1, <2>2
<1>3. RelOf(item) \in Nat
  BY <1>1, <1>2 DEF RelOf, Kinds
<1>4. CASE phase = "map"
  <2>1. item.kind \in {"sitemap", "llms", "seed"}
    BY <1>4 DEF Phased
  <2>2. DomainOf[Seed] \in Domains
    BY <1>4, SeedType DEF Phased, Seed
  <2>3. Key(item) \in Domains
    BY <2>1, <2>2 DEF Key
  <2>4. DepthOf(item) \in Nat
    BY <1>1, <2>1 DEF DepthOf
  <2>5. QED
    BY <1>1, <1>3, <2>3, <2>4
<1>5. CASE phase = "links"
  <2>1. item.kind \in {"internal", "external"}
    BY <1>5 DEF Phased, IsLink
  <2>2. cur.url \in Urls /\ cur.depth \in Nat
    BY <1>5 DEF Phased, Entry
  <2>3. Key(item) \in Domains
    BY <1>1, <2>1, <2>2 DEF Key
  <2>4. DepthOf(item) \in Nat
    BY <2>1, <2>2 DEF DepthOf
  <2>5. QED
    BY <1>1, <1>3, <2>3, <2>4
<1>6. QED
  BY <1>4, <1>5

LEMMA SelectedType ==
    ASSUME TypeInv, phase = "selected" PROVE cur \in Entry
BY DEF TypeInv, TypeOK, Phased

-----------------------------------------------------------------------------
(* Types *)

LEMMA InitType == Init => TypeInv
BY BulkCrawlerAssumption
   DEF Init, TypeInv, TypeOK, Phased, BulkCrawlerAssumption, FetchBound, CountBound,
       NodeState

LEMMA StartSeedType == TypeInv /\ StartSeed => TypeInv'
<1> SUFFICES ASSUME TypeInv, StartSeed PROVE TypeInv'
  OBVIOUS
<1> DEFINE s == Seeds[seedIdx + 1]
           d == DomainOf[s]
           map == SitemapOf(d) \cup LlmsOf(d)
           mapped == AutoDepth /\ map # {}
<1>1. seedIdx + 1 \in 1..Len(Seeds)
  BY BulkCrawlerAssumption
     DEF StartSeed, TypeInv, TypeOK, BulkCrawlerAssumption
<1>2. s \in Urls /\ d \in Domains
  BY <1>1, SeedType
<1>3. SitemapOf(d) \in SUBSET Urls /\ LlmsOf(d) \in SUBSET Urls
  BY <1>2, WebFields DEF TypeInv, TypeOK, SitemapOf, LlmsOf
<1>4. /\ policy' = [policy EXCEPT ![d] = IF Explored(d) THEN "rules" ELSE "open"]
      /\ scope' = IF mapped THEN ScopeOf(map) ELSE Normals
      /\ depthLimit' = IF mapped THEN MappedDepth(map) ELSE MaxDepth
      /\ lost' = StillMissing({s})
      /\ seedIdx' = seedIdx + 1 /\ phase' = "map" /\ count' = 0 /\ got' = {}
      /\ UNCHANGED <<web, saved, queue, seen, cur, contents, remaining, fetches>>
  BY DEF StartSeed
<1> DEFINE mapItems ==
             [url: SitemapOf(d), kind: {"sitemap"}] \cup [url: LlmsOf(d), kind: {"llms"}]
<1>5. PICK crawled, put :
          /\ store' = [store EXCEPT ![s] = IF s \in put THEN "known" ELSE @]
          /\ todo' = mapItems \cup (IF crawled THEN {} ELSE {[url |-> s, kind |-> "seed"]})
  BY DEF StartSeed
<1> HIDE DEF s, d
<1>6. policy' \in [Domains -> {"unknown", "open", "rules"}]
  BY <1>2, <1>4 DEF TypeInv, TypeOK
<1>7. scope' \subseteq Normals
  BY <1>3, <1>4 DEF ScopeOf, Normals
<1>8. depthLimit' \in Nat
  BY <1>4, MappedDepthType, BulkCrawlerAssumption DEF BulkCrawlerAssumption
<1>9. store' \in [Urls -> NodeState]
  BY <1>2, <1>5 DEF TypeInv, TypeOK, NodeState
<1>10. lost' \subseteq Urls
  BY <1>2, <1>4 DEF TypeInv, TypeOK, StillMissing
<1>11. /\ todo' \subseteq Item
      /\ \A item \in todo' : item.kind \in {"sitemap", "llms", "seed"}
  BY <1>2, <1>3, <1>5 DEF Item, Kinds
<1>12. count' \in 0..CountBound
  BY <1>4, BulkCrawlerAssumption DEF CountBound, BulkCrawlerAssumption
<1>13. saved' = saved /\ queue' = queue /\ seen' = seen /\ cur' = cur
      /\ contents' = contents /\ remaining' = remaining /\ fetches' = fetches /\ web' = web
  BY <1>4
<1>14. seedIdx' \in 0..Len(Seeds) /\ phase' = "map" /\ got' = {}
  BY <1>1, <1>4
<1>15. TypeOK'
  BY <1>6, <1>7, <1>8, <1>9, <1>11, <1>10, <1>12, <1>13, <1>14 DEF TypeInv, TypeOK
<1>16. Phased'
  BY <1>1, <1>4, <1>11 DEF Phased
<1>17. QED
  BY <1>15, <1>16 DEF TypeInv

LEMMA DiscoverType ==
    ASSUME TypeInv, NEW item \in todo, Discover(item) PROVE TypeInv'
<1>1. phase \in {"map", "links"}
  BY DEF Discover
<1>2. /\ item \in Item /\ item.url \in Urls /\ Key(item) \in Domains
      /\ DepthOf(item) \in Nat /\ RelOf(item) \in Nat
  BY <1>1, ItemType
<1> DEFINE entry == [url |-> item.url, depth |-> DepthOf(item), rel |-> RelOf(item)]
<1>3. entry \in Entry
  BY <1>2 DEF Entry
<1>4. \/ /\ queue' = [queue EXCEPT ![Key(item)] = @ \cup {entry}]
         /\ seen' = [seen EXCEPT ![Key(item)] = @ \cup {item.url}]
      \/ UNCHANGED <<queue, seen>>
  BY DEF Discover
<1> HIDE DEF entry
<1>5. queue \in [Domains -> SUBSET Entry] /\ seen \in [Domains -> SUBSET Urls]
  BY DEF TypeInv, TypeOK
<1>6. queue' \in [Domains -> SUBSET Entry] /\ seen' \in [Domains -> SUBSET Urls]
  BY <1>2, <1>3, <1>4, <1>5
<1>7. store' \in [Urls -> NodeState]
  BY DEF Discover, TypeInv, TypeOK, NodeState
<1>8. lost' \subseteq Urls
  <2>1. Rewrites(item) \subseteq Urls
    BY <1>2 DEF Rewrites
  <2>2. Endpoints(item) \subseteq Urls
    BY <1>1, <1>2 DEF Endpoints, IsLink, TypeInv, Phased, Entry
  <2>3. QED
    BY <2>1, <2>2 DEF Discover, StillMissing, TypeInv, TypeOK
<1>9. /\ todo' \subseteq todo
      /\ UNCHANGED <<web, saved, policy, phase, cur, count, got, crawlVars, fetches>>
  BY DEF Discover
<1>10. TypeOK'
  BY <1>6, <1>7, <1>8, <1>9 DEF TypeInv, TypeOK, crawlVars
<1>11. Phased'
  BY <1>1, <1>9 DEF TypeInv, Phased, IsLink, crawlVars
<1>12. QED
  BY <1>10, <1>11 DEF TypeInv

LEMMA EndSeedType == TypeInv /\ EndSeed => TypeInv'
<1> SUFFICES ASSUME TypeInv, EndSeed PROVE TypeInv'
  OBVIOUS
<1>1. Cardinality(got \ contents) \in Nat
  BY UrlsFinite DEF TypeInv, TypeOK
<1>2. Left(Cardinality(got \ contents)) \in 0..MaxPages
  BY <1>1, BulkCrawlerAssumption
     DEF Left, TypeInv, TypeOK, BulkCrawlerAssumption
<1>3. QED
  BY <1>2 DEF EndSeed, TypeInv, TypeOK, Phased, txVars

LEMMA DequeuedType ==
    ASSUME TypeInv, NEW u \in Urls PROVE Dequeued(u) \in [Domains -> SUBSET Entry]
BY BulkCrawlerAssumption DEF Dequeued, TypeInv, TypeOK, BulkCrawlerAssumption

LEMMA FetchType == TypeInv /\ Fetch => TypeInv'
<1> SUFFICES ASSUME TypeInv, Fetch PROVE TypeInv'
  OBVIOUS
<1>1. cur \in Entry /\ cur.url \in Urls
  BY SelectedType DEF Fetch, Entry
<1>2. queue' \in [Domains -> SUBSET Entry]
  BY <1>1, DequeuedType DEF Fetch
<1>3. fetches' \in [Urls -> 0..FetchBound]
  BY <1>1 DEF Fetch, TypeInv, TypeOK, MinOf, FetchBound
<1>4. /\ LinkItems(cur.url) \subseteq Item
      /\ \A item \in LinkItems(cur.url) : IsLink(item)
  BY <1>1, WebFields DEF LinkItems, Item, Kinds, IsLink, TypeInv, TypeOK
<1>5. \/ todo' = LinkItems(cur.url) /\ phase' = "links"
      \/ todo' = todo /\ phase' = "loop"
  BY DEF Fetch
<1>6. UNCHANGED <<web, store, txVars, seen, policy, cur, count, got, crawlVars>>
  BY DEF Fetch
<1>7. TypeOK'
  BY <1>2, <1>3, <1>4, <1>5, <1>6 DEF TypeInv, TypeOK, crawlVars, txVars
<1>8. Phased'
  BY <1>1, <1>4, <1>5, <1>6 DEF Phased, IsLink
<1>9. QED
  BY <1>7, <1>8 DEF TypeInv

LEMMA FinishType == TypeInv /\ Finish => TypeInv'
<1> SUFFICES ASSUME TypeInv, Finish PROVE TypeInv'
  OBVIOUS
<1>1. cur \in Entry /\ cur.url \in Urls
  BY DEF Finish, TypeInv, Phased, Entry
<1>2. store' \in [Urls -> NodeState]
  BY <1>1 DEF Finish, TypeInv, TypeOK, NodeState
<1>3. count' \in 0..CountBound
  BY BulkCrawlerAssumption
     DEF Finish, MinOf, CountBound, TypeInv, TypeOK, BulkCrawlerAssumption
<1>4. QED
  BY <1>1, <1>2, <1>3 DEF Finish, TypeInv, TypeOK, Phased, crawlVars, txVars

LEMMA StepType == TypeInv /\ [Next]_vars => TypeInv'
<1> SUFFICES ASSUME TypeInv, [Next]_vars PROVE TypeInv'
  OBVIOUS
<1>1. CASE StartSeed
  BY <1>1, StartSeedType
<1>2. ASSUME NEW item \in todo, Discover(item) PROVE TypeInv'
  BY <1>2, DiscoverType
<1>3. CASE MapDone
  BY <1>3 DEF MapDone, TypeInv, TypeOK, Phased, crawlVars, txVars
<1>4. CASE Select
  <2>1. \E d \in Domains : cur' \in queue[d]
    BY <1>4 DEF Select, Best, Frontier
  <2>2. cur' \in Entry
    BY <2>1 DEF TypeInv, TypeOK
  <2>3. QED
    BY <1>4, <2>1, <2>2 DEF Select, TypeInv, TypeOK, Phased, crawlVars, txVars
<1>5. CASE EndSeed
  BY <1>5, EndSeedType
<1>6. CASE Skip
  <2>1. cur.url \in Urls
    BY <1>6, SelectedType DEF Skip, Entry
  <2>2. queue' \in [Domains -> SUBSET Entry]
    BY <1>6, <2>1, DequeuedType DEF Skip
  <2>3. QED
    BY <1>6, <2>2 DEF Skip, TypeInv, TypeOK, Phased, crawlVars, txVars
<1>7. CASE Fetch
  BY <1>7, FetchType
<1>8. CASE Abort
  BY <1>8 DEF Abort, TypeInv, TypeOK, Phased, crawlVars, txVars
<1>9. CASE Finish
  BY <1>9, FinishType
<1>10. CASE EndRequest
  BY <1>10 DEF EndRequest, TypeInv, TypeOK, Phased, crawlVars, txVars
<1>11. CASE UNCHANGED vars
  BY <1>11 DEF vars, TypeInv, TypeOK, Phased, IsLink
<1>12. ASSUME NEW u \in Urls, Promote(u) PROVE TypeInv'
  <2>1. store' \in [Urls -> NodeState]
    BY <1>12 DEF Promote, TypeInv, TypeOK, NodeState
  <2>2. QED
    BY <1>12, <2>1
       DEF Promote, TypeInv, TypeOK, Phased, IsLink, crawlerVars, crawlVars, txVars
<1>13. CASE Begin \/ Commit
  <2>1. saved' \in [Urls -> NodeState] \cup {NoTx} /\ UNCHANGED <<store, lost, crawlerVars>>
    BY <1>13 DEF Begin, Commit, TypeInv, TypeOK
  <2>2. QED
    BY <2>1 DEF TypeInv, TypeOK, Phased, IsLink, crawlerVars, crawlVars
<1>14. CASE Rollback
  <2>1. store' \in [Urls -> NodeState] /\ saved' = NoTx /\ UNCHANGED crawlerVars
    BY <1>14 DEF Rollback, TypeInv, TypeOK
  <2>2. lost' \subseteq Urls
    BY <1>14 DEF Rollback, StillMissing, Nodes, TypeInv, TypeOK
  <2>3. QED
    BY <2>1, <2>2 DEF TypeInv, TypeOK, Phased, IsLink, crawlerVars, crawlVars
<1>15. QED
  BY <1>1, <1>2, <1>3, <1>4, <1>5, <1>6, <1>7, <1>8, <1>9, <1>10, <1>11, <1>12,
     <1>13, <1>14
     DEF Next, Crawl, Terminated

LEMMA TypeInvariant == Spec => []TypeInv
BY InitType, StepType, PTL DEF Spec

\* The state of the crawl is always well-formed; in particular what is left of
\* the budget stays within it.
THEOREM TypeCorrect == Spec => []TypeOK
BY TypeInvariant, PTL DEF TypeInv

-----------------------------------------------------------------------------
(* The cap on a domain's frontier *)

\* A domain never takes in more than max_pages URLs, over all the seeds and
\* whatever the pages link to (bulk_crawler.rs enqueue_url()).
THEOREM SeenAlwaysBounded == Spec => []SeenBounded
<1>1. Init => SeenBounded
  BY FS_EmptySet, BulkCrawlerAssumption
     DEF Init, SeenBounded, BulkCrawlerAssumption
<1>2. TypeInv /\ SeenBounded /\ [Next]_vars => SeenBounded'
  <2> SUFFICES ASSUME TypeInv, SeenBounded, [Next]_vars PROVE SeenBounded'
    OBVIOUS
  <2>1. CASE UNCHANGED seen
    BY <2>1 DEF SeenBounded
  <2>2. ASSUME NEW item \in todo, Discover(item), Enqueues(item)
        PROVE  SeenBounded'
    <3> DEFINE d == Key(item)
    <3>1. d \in Domains /\ item.url \in Urls
      BY <2>2, ItemType DEF Discover
    <3>2. /\ seen' = [seen EXCEPT ![d] = @ \cup {item.url}]
          /\ item.url \notin seen[d]
          /\ Cardinality(seen[d]) < MaxPages
      BY <2>2 DEF Discover, Enqueues
    <3>3. seen \in [Domains -> SUBSET Urls]
      BY DEF TypeInv, TypeOK
    <3>4. IsFiniteSet(seen[d]) /\ Cardinality(seen[d]) \in Nat
      BY <3>1, <3>3, UrlsFinite
    <3> HIDE DEF d
    <3>5. Cardinality(seen[d] \cup {item.url}) = Cardinality(seen[d]) + 1
      BY <3>2, <3>4, FS_AddElement
    <3>6. Cardinality(seen'[d]) <= MaxPages
      BY <3>1, <3>2, <3>3, <3>4, <3>5, BulkCrawlerAssumption
         DEF BulkCrawlerAssumption
    <3>7. \A e \in Domains : e # d => seen'[e] = seen[e]
      BY <3>2, <3>3
    <3>8. QED
      BY <3>6, <3>7 DEF SeenBounded
  <2>3. QED
    BY <2>1, <2>2
       DEF Next, StartSeed, Discover, MapDone, Select, EndSeed, Skip, Fetch,
           Abort, Finish, EndRequest, Promote, Terminated, vars, Crawl, Begin, Commit, Rollback, crawlerVars
<1>3. QED
  BY TypeInvariant, <1>1, <1>2, PTL DEF Spec

-----------------------------------------------------------------------------
(* No page is fetched twice *)

LEMMA InitFetch == Init => FetchInv
BY DEF Init, FetchInv, TodoAtHome, QueueAtHome, FetchedSeen, FetchedOnce,
       FetchBound

LEMMA StartSeedFetch == TypeInv /\ OwnHosts /\ FetchInv /\ StartSeed => FetchInv'
<1> SUFFICES ASSUME TypeInv, OwnHosts, FetchInv, StartSeed PROVE FetchInv'
  OBVIOUS
<1>1. /\ phase' = "map" /\ seedIdx' = seedIdx + 1
      /\ UNCHANGED <<web, queue, seen, fetches>>
  BY DEF StartSeed
<1>2. seedIdx + 1 \in 1..Len(Seeds)
  BY BulkCrawlerAssumption
     DEF StartSeed, TypeInv, TypeOK, BulkCrawlerAssumption
<1>3. DomainOf[Seeds[seedIdx + 1]] \in Domains
  BY <1>2, SeedType
<1>4. \A item \in todo' : DomainOf[item.url] = DomainOf[Seeds[seedIdx + 1]]
  BY <1>3 DEF StartSeed, OwnHosts, SitemapOf, LlmsOf
<1>5. TodoAtHome'
  BY <1>1, <1>4 DEF TodoAtHome, Seed
<1>6. QED
  BY <1>1, <1>5 DEF FetchInv, QueueAtHome, FetchedSeen, FetchedOnce, OwnHosts

LEMMA DiscoverFetch ==
    ASSUME TypeInv, OwnHosts, FetchInv, NEW item \in todo, Discover(item)
    PROVE  FetchInv'
<1>1. phase \in {"map", "links"}
  BY DEF Discover
<1>2. item.url \in Urls /\ Key(item) \in Domains
  BY <1>1, ItemType
<1>3. Key(item) = DomainOf[item.url]
  BY <1>1 DEF Key, FetchInv, TodoAtHome, TypeInv, Phased, IsLink
<1>4. /\ UNCHANGED <<web, phase, cur, seedIdx, fetches>>
      /\ todo' \subseteq todo
  BY DEF Discover, crawlVars
<1>5. TodoAtHome'
  BY <1>4 DEF FetchInv, TodoAtHome, Seed
<1>6. CASE UNCHANGED <<queue, seen>>
  BY <1>4, <1>5, <1>6
     DEF FetchInv, QueueAtHome, FetchedSeen, FetchedOnce, OwnHosts
<1>7. CASE Enqueues(item)
  <2> DEFINE entry ==
        [url |-> item.url, depth |-> DepthOf(item), rel |-> RelOf(item)]
  <2>1. /\ queue' = [queue EXCEPT ![Key(item)] = @ \cup {entry}]
        /\ seen' = [seen EXCEPT ![Key(item)] = @ \cup {item.url}]
        /\ item.url \notin seen[Key(item)]
    BY <1>7 DEF Discover, Enqueues
  <2>2. entry.url = item.url
    OBVIOUS
  <2>3. fetches[item.url] = 0
    BY <1>2, <1>3, <2>1
       DEF FetchInv, FetchedSeen, TypeInv, TypeOK, FetchBound
  <2> HIDE DEF entry
  <2>4. QueueAtHome'
    BY <1>2, <1>3, <1>4, <2>1, <2>2, <2>3
       DEF FetchInv, QueueAtHome, TypeInv, TypeOK
  <2>5. FetchedSeen'
    BY <1>2, <1>4, <2>1 DEF FetchInv, FetchedSeen, TypeInv, TypeOK
  <2>6. QED
    BY <1>4, <1>5, <2>4, <2>5 DEF FetchInv, FetchedOnce, OwnHosts
<1>8. QED
  BY <1>6, <1>7 DEF Discover

LEMMA FetchFetch == TypeInv /\ OwnHosts /\ FetchInv /\ Fetch => FetchInv'
<1> SUFFICES ASSUME TypeInv, OwnHosts, FetchInv, Fetch PROVE FetchInv'
  OBVIOUS
<1>1. cur \in Entry /\ cur.url \in Urls
  BY SelectedType DEF Fetch, Entry
<1> DEFINE u == cur.url
<1>2. PICK d \in Domains : cur \in queue[d]
  BY DEF Fetch, TypeInv, Phased
<1>3. d = DomainOf[u] /\ u \in seen[d] /\ fetches[u] = 0
  BY <1>2 DEF FetchInv, QueueAtHome
<1>4. /\ queue' = [queue EXCEPT ![d] = {e \in @ : e.url # u}]
      /\ fetches' = [fetches EXCEPT ![u] = 1]
      /\ UNCHANGED <<web, seen, cur, seedIdx>>
  BY <1>3 DEF Fetch, Dequeued, MinOf, FetchBound, crawlVars
<1>5. /\ phase' = "links" => todo' = LinkItems(u)
      /\ phase' # "map"
  BY DEF Fetch
<1>6. TodoAtHome'
  BY <1>1, <1>4, <1>5 DEF TodoAtHome, LinkItems, OwnHosts
<1> HIDE DEF u
<1>7. QueueAtHome'
  <2>1. SUFFICES ASSUME NEW f \in Domains, NEW e \in queue'[f]
                 PROVE  /\ DomainOf[e.url] = f /\ e.url \in seen[f]
                        /\ fetches'[e.url] = 0
    BY <1>4 DEF QueueAtHome
  <2>2. e \in queue[f] /\ (f = d => e.url # u)
    BY <1>2, <1>4 DEF TypeInv, TypeOK
  <2>3. DomainOf[e.url] = f /\ e.url \in seen[f] /\ fetches[e.url] = 0
    BY <2>2 DEF FetchInv, QueueAtHome
  <2>4. e.url # u
    BY <1>3, <2>2, <2>3
  <2>5. e.url \in Urls
    BY <2>3 DEF TypeInv, TypeOK
  <2>6. QED
    BY <1>4, <2>3, <2>4, <2>5 DEF TypeInv, TypeOK
<1>8. FetchedSeen'
  BY <1>3, <1>4 DEF FetchInv, FetchedSeen, TypeInv, TypeOK
<1>9. FetchedOnce'
  BY <1>4 DEF FetchInv, FetchedOnce, TypeInv, TypeOK
<1>10. QED
  BY <1>6, <1>7, <1>8, <1>9 DEF FetchInv

LEMMA StepFetch == TypeInv /\ FetchInv /\ [Next]_vars => FetchInv'
<1> SUFFICES ASSUME TypeInv, FetchInv, [Next]_vars PROVE FetchInv'
  OBVIOUS
<1>1. web' = web
  BY DEF Next, StartSeed, Discover, MapDone, Select, EndSeed, Skip, Fetch, Abort,
         Finish, EndRequest, Promote, Terminated, vars, Crawl, Begin, Commit, Rollback, crawlerVars
<1>2. CASE ~OwnHosts
  BY <1>1, <1>2 DEF FetchInv, OwnHosts
<1>3. CASE OwnHosts
  <2> USE <1>3
  <2>1. CASE StartSeed
    BY <2>1, StartSeedFetch
  <2>2. ASSUME NEW item \in todo, Discover(item) PROVE FetchInv'
    BY <2>2, DiscoverFetch
  <2>3. CASE Fetch
    BY <2>3, FetchFetch
  <2>4. CASE Skip
    <3>1. cur.url \in Urls
      BY <2>4, SelectedType DEF Skip, Entry
    <3>2. \A d \in Domains : queue'[d] \subseteq queue[d]
      BY <2>4, <3>1 DEF Skip, Dequeued, TypeInv, TypeOK
    <3>3. phase' = "loop" /\ UNCHANGED <<web, seen, fetches>>
      BY <2>4 DEF Skip
    <3>4. QED
      BY <3>2, <3>3 DEF FetchInv, TodoAtHome, QueueAtHome, FetchedSeen,
                        FetchedOnce, OwnHosts
  <2>5. CASE \/ MapDone \/ Select \/ EndSeed \/ Abort \/ Finish \/ EndRequest
             \/ (\E u \in Urls : Promote(u)) \/ Begin \/ Commit \/ Rollback \/ Terminated
           \/ UNCHANGED vars
    <3>1. /\ UNCHANGED <<web, queue, seen, fetches>>
          /\ \/ phase' \notin {"map", "links"}
             \/ UNCHANGED <<phase, todo, cur, seedIdx>>
      BY <2>5 DEF MapDone, Select, EndSeed, Abort, Finish, EndRequest,
                  Promote, Terminated, vars, Crawl, Begin, Commit, Rollback, crawlerVars, crawlVars
    <3>2. QED
      BY <3>1 DEF FetchInv, TodoAtHome, QueueAtHome, FetchedSeen, FetchedOnce,
                  OwnHosts, Seed
  <2>6. QED
    BY <2>1, <2>2, <2>3, <2>4, <2>5 DEF Next, Crawl
<1>4. QED
  BY <1>2, <1>3

\* If sites map their own hosts and redirect nowhere else, no page is fetched
\* twice in a request, although recording a URL again makes the graph forget
\* that it is crawled: the frontier's record of what it saw is what prevents it.
THEOREM NeverFetchedTwice == Spec => []FetchedOnce
<1>1. FetchInv => FetchedOnce
  BY DEF FetchInv, FetchedOnce
<1>2. QED
  BY TypeInvariant, InitFetch, StepFetch, <1>1, PTL DEF Spec

-----------------------------------------------------------------------------
(* robots.txt is obeyed within the seeds' own sites *)

Asked(d) == d \notin web.down => policy[d] = "rules"

\* The rules of every site with a frontier are known, and no entry of it is
\* disallowed by them.
RobotsInv ==
    OwnHosts /\ RespectRobots /\ ~web.follow =>
        /\ phase = "map" => Asked(DomainOf[Seed])
        /\ phase = "links" => /\ Asked(DomainOf[cur.url])
                              /\ \A item \in todo : item.kind = "internal"
        /\ \A d \in Domains : \A e \in queue[d] :
              Asked(d) /\ (d \notin web.down => e.url \notin web.forbids[d])
        /\ \A u \in Urls : fetches[u] > 0 /\ DomainOf[u] \notin web.down =>
              u \notin web.forbids[DomainOf[u]]

LEMMA StepRobots == TypeInv /\ FetchInv /\ RobotsInv /\ [Next]_vars => RobotsInv'
<1> SUFFICES ASSUME TypeInv, FetchInv, RobotsInv, [Next]_vars,
                    OwnHosts', RespectRobots, ~web'.follow
             PROVE  RobotsInv'
  BY DEF RobotsInv
<1>1. web' = web
  BY DEF Next, StartSeed, Discover, MapDone, Select, EndSeed, Skip, Fetch, Abort,
         Finish, EndRequest, Promote, Terminated, vars, Crawl, Begin, Commit, Rollback, crawlerVars
<1>2. OwnHosts /\ ~web.follow
  BY <1>1 DEF OwnHosts
<1>3. CASE StartSeed
  <2> DEFINE d == DomainOf[Seeds[seedIdx + 1]]
  <2>1. seedIdx + 1 \in 1..Len(Seeds)
    BY <1>3, BulkCrawlerAssumption
       DEF StartSeed, TypeInv, TypeOK, BulkCrawlerAssumption
  <2>2. d \in Domains
    BY <2>1, SeedType
  <2>3. policy' = [policy EXCEPT ![d] =
                     IF d \notin web.down THEN "rules" ELSE "open"]
    BY <1>3 DEF StartSeed, Explored
  <2>4. /\ phase' = "map" /\ seedIdx' = seedIdx + 1
        /\ UNCHANGED <<queue, fetches>>
    BY <1>3 DEF StartSeed
  <2>5. \A f \in Domains : Asked(f) \/ f = d =>
            (f \notin web.down => policy'[f] = "rules")
    BY <2>2, <2>3 DEF Asked, TypeInv, TypeOK
  <2>6. QED
    BY <1>1, <1>2, <2>2, <2>4, <2>5 DEF RobotsInv, Seed, Asked
<1>4. ASSUME NEW item \in todo, Discover(item) PROVE RobotsInv'
  <2>1. phase \in {"map", "links"}
    BY <1>4 DEF Discover
  <2>2. item.url \in Urls /\ Key(item) \in Domains
    BY <2>1, ItemType
  <2>3. /\ todo' \subseteq todo
        /\ UNCHANGED <<phase, policy, cur, seedIdx, fetches>>
    BY <1>4 DEF Discover, crawlVars
  <2>4. Asked(Key(item))
    BY <1>2, <2>1 DEF Key, RobotsInv, TypeInv, Phased
  <2>5. CASE queue' = queue
    BY <1>1, <1>2, <2>3, <2>5 DEF RobotsInv, Asked, Seed
  <2>6. CASE Enqueues(item)
    <3> DEFINE entry ==
          [url |-> item.url, depth |-> DepthOf(item), rel |-> RelOf(item)]
    <3>1. queue' = [queue EXCEPT ![Key(item)] = @ \cup {entry}]
      BY <1>4, <2>6 DEF Discover
    <3>2. Key(item) \notin web.down => entry.url \notin web.forbids[Key(item)]
      BY <2>4, <2>6 DEF Enqueues, Allowed, Asked
    <3> HIDE DEF entry
    <3>3. \A d \in Domains : \A e \in queue'[d] :
              Asked(d) /\ (d \notin web.down => e.url \notin web.forbids[d])
      BY <1>2, <2>2, <2>4, <3>1, <3>2 DEF RobotsInv, TypeInv, TypeOK
    <3>4. QED
      BY <1>1, <1>2, <2>3, <3>3 DEF RobotsInv, Asked, Seed
  <2>7. QED
    BY <1>4, <2>5, <2>6 DEF Discover
<1>5. CASE Fetch
  <2>1. cur.url \in Urls
    BY <1>5, SelectedType DEF Fetch, Entry
  <2>2. PICK d \in Domains : cur \in queue[d]
    BY <1>5 DEF Fetch, TypeInv, Phased
  <2>3. d = DomainOf[cur.url]
    BY <1>2, <2>2 DEF FetchInv, QueueAtHome
  <2>4. Asked(d) /\ (d \notin web.down => cur.url \notin web.forbids[d])
    BY <1>2, <2>2 DEF RobotsInv
  <2>5. \A f \in Domains : queue'[f] \subseteq queue[f]
    BY <1>5, <2>1 DEF Fetch, Dequeued, TypeInv, TypeOK
  <2>6. \A v \in Urls : v # cur.url => fetches'[v] = fetches[v]
    BY <1>5 DEF Fetch, TypeInv, TypeOK
  <2>7. /\ phase' # "map"
        /\ phase' = "links" => \A item \in todo' : item.kind = "internal"
        /\ UNCHANGED <<policy, cur>>
    BY <1>5 DEF Fetch, LinkItems
  <2>8. QED
    BY <1>1, <1>2, <2>1, <2>3, <2>4, <2>5, <2>6, <2>7 DEF RobotsInv, Asked
<1>6. CASE Skip
  <2>1. cur.url \in Urls
    BY <1>6, SelectedType DEF Skip, Entry
  <2>2. \A d \in Domains : queue'[d] \subseteq queue[d]
    BY <1>6, <2>1 DEF Skip, Dequeued, TypeInv, TypeOK
  <2>3. QED
    BY <1>1, <1>2, <1>6, <2>2 DEF Skip, RobotsInv, Asked
<1>7. CASE \/ MapDone \/ Select \/ EndSeed \/ Abort \/ Finish \/ EndRequest
           \/ (\E u \in Urls : Promote(u)) \/ Begin \/ Commit \/ Rollback \/ Terminated
           \/ UNCHANGED vars
  <2>1. /\ UNCHANGED <<queue, fetches, policy>>
        /\ \/ phase' \notin {"map", "links"}
           \/ UNCHANGED <<phase, todo, cur, seedIdx>>
    BY <1>7 DEF MapDone, Select, EndSeed, Abort, Finish, EndRequest, Promote,
                Terminated, vars, Crawl, Begin, Commit, Rollback, crawlerVars, crawlVars
  <2>2. QED
    BY <1>1, <1>2, <2>1 DEF RobotsInv, Asked, Seed
<1>8. QED
  BY <1>3, <1>4, <1>5, <1>6, <1>7 DEF Next, Crawl

\* While links stay on the seeds' sites and sites map their own hosts, nothing
\* is fetched that the robots.txt of its domain disallows.
THEOREM RobotsAlwaysObeyed == Spec => []RobotsObeyed
<1>1. Init => RobotsInv
  BY DEF Init, RobotsInv
<1>2. RobotsInv => RobotsObeyed
  BY DEF RobotsInv, RobotsObeyed
<1>3. QED
  BY TypeInvariant, InitFetch, StepFetch, StepRobots, <1>1, <1>2, PTL DEF Spec

-----------------------------------------------------------------------------
(* Link-following stays on the maps of the seeds' sites *)

\* The scope, once a seed has set it, what is mapped, what is queued and what was
\* fetched are all on the surface.
ScopeInv ==
    AllMapped =>
        /\ phase \in {"map", "loop", "selected", "links"} =>
             \A u \in Urls : Normal[u] \in scope => OnSurface(u)
        /\ phase = "map" => \A item \in todo : OnSurface(item.url)
        /\ \A d \in Domains : \A e \in queue[d] : OnSurface(e.url)
        /\ \A u \in Urls : fetches[u] > 0 => OnSurface(u)

\* Exploring a seed's site yields its map, which is its scope.
LEMMA StartSeedScope == TypeInv /\ AllMapped /\ ScopeInv /\ StartSeed => ScopeInv'
<1> SUFFICES ASSUME TypeInv, AllMapped, ScopeInv, StartSeed PROVE ScopeInv'
  OBVIOUS
<1> DEFINE s == Seeds[seedIdx + 1]
           d == DomainOf[s]
           map == SitemapOf(d) \cup LlmsOf(d)
           mapped == AutoDepth /\ map # {}
<1>1. seedIdx + 1 \in 1..Len(Seeds)
  BY BulkCrawlerAssumption DEF StartSeed, TypeInv, TypeOK, BulkCrawlerAssumption
<1>2. SitemapOf(d) = web.sitemap[d] /\ LlmsOf(d) = web.llms[d]
  BY <1>1 DEF AllMapped, SitemapOf, LlmsOf, Explored
<1>3. map = MapOf(s) /\ map # {}
  BY <1>1, <1>2 DEF AllMapped, MapOf
<1>4. OnSurface(s) /\ \A u \in map : OnSurface(u)
  BY <1>1, <1>3 DEF OnSurface
<1>5. scope' = (IF mapped THEN ScopeOf(map) ELSE Normals) /\ UNCHANGED <<web, queue, fetches>>
  BY DEF StartSeed
<1>6. scope' = {Normal[v] : v \in map}
  BY <1>3, <1>5 DEF AllMapped, ScopeOf
<1>7. \A item \in todo' : item.url = s \/ item.url \in map
  BY DEF StartSeed
<1>8. \A u \in Urls : Normal[u] \in scope' => OnSurface(u)
  BY <1>1, <1>3, <1>6 DEF OnSurface
<1>9. \A u : OnSurface(u)' <=> OnSurface(u)
  BY <1>5 DEF OnSurface, MapOf
<1> HIDE DEF s, d, map
<1>10. \A item \in todo' : OnSurface(item.url)
  BY <1>4, <1>7
<1>11. QED
  BY <1>4, <1>5, <1>9, <1>10, <1>8 DEF ScopeInv

\* A link that is queued is within the scope.
LEMMA DiscoverScope ==
    ASSUME TypeInv, AllMapped, ScopeInv, NEW item \in todo, Discover(item) PROVE ScopeInv'
<1>1. phase \in {"map", "links"}
  BY DEF Discover
<1>2. item.url \in Urls /\ Key(item) \in Domains
  BY <1>1, ItemType
<1>3. todo' \subseteq todo /\ UNCHANGED <<web, phase, scope, fetches>>
  BY DEF Discover, crawlVars
<1>4. \A u : OnSurface(u)' <=> OnSurface(u)
  BY <1>3 DEF OnSurface, MapOf
<1>5. CASE queue' = queue
  BY <1>3, <1>4, <1>5 DEF ScopeInv
<1>6. CASE Enqueues(item)
  <2>1. OnSurface(item.url)
    <3>1. CASE phase = "map"
      BY <3>1 DEF ScopeInv
    <3>2. CASE phase = "links"
      <4>1. IsLink(item)
        BY <3>2 DEF TypeInv, Phased
      <4>2. Normal[item.url] \in scope
        BY <1>6, <4>1 DEF Enqueues, Eligible
      <4>3. QED
        BY <1>2, <3>2, <4>2 DEF ScopeInv
    <3>3. QED
      BY <1>1, <3>1, <3>2
  <2> DEFINE entry == [url |-> item.url, depth |-> DepthOf(item), rel |-> RelOf(item)]
  <2>2. queue' = [queue EXCEPT ![Key(item)] = @ \cup {entry}] /\ entry.url = item.url
    BY <1>6 DEF Discover
  <2> HIDE DEF entry
  <2>3. \A d \in Domains : \A e \in queue'[d] : e \in queue[d] \/ e = entry
    BY <1>2, <2>2 DEF TypeInv, TypeOK
  <2>4. \A d \in Domains : \A e \in queue'[d] : OnSurface(e.url)
    BY <2>1, <2>2, <2>3 DEF ScopeInv
  <2>5. QED
    BY <1>3, <1>4, <2>4 DEF ScopeInv
<1>7. QED
  BY <1>5, <1>6 DEF Discover

LEMMA StepScope == TypeInv /\ ScopeInv /\ [Next]_vars => ScopeInv'
<1> SUFFICES ASSUME TypeInv, ScopeInv, [Next]_vars, AllMapped' PROVE ScopeInv'
  BY DEF ScopeInv
<1>1. web' = web
  BY DEF Next, StartSeed, Discover, MapDone, Select, EndSeed, Skip, Fetch, Abort,
         Finish, EndRequest, Promote, Terminated, vars, Crawl, Begin, Commit, Rollback, crawlerVars
<1>2. AllMapped
  BY <1>1 DEF AllMapped, MapOf
<1>3. \A u : OnSurface(u)' <=> OnSurface(u)
  BY <1>1 DEF OnSurface, MapOf
<1>4. CASE StartSeed
  BY <1>2, <1>4, StartSeedScope
<1>5. ASSUME NEW item \in todo, Discover(item) PROVE ScopeInv'
  BY <1>2, <1>5, DiscoverScope
<1>6. CASE Skip \/ Fetch
  <2>1. cur.url \in Urls
    BY <1>6, SelectedType DEF Skip, Fetch, Entry
  <2>2. OnSurface(cur.url)
    BY <1>2, <1>6 DEF Skip, Fetch, TypeInv, Phased, ScopeInv
  <2>3. \A d \in Domains : queue'[d] \subseteq queue[d]
    <3>1. queue' = Dequeued(cur.url)
      BY <1>6 DEF Skip, Fetch
    <3>2. QED
      BY <3>1 DEF Dequeued, TypeInv, TypeOK
  <2>4. \A u \in Urls : u # cur.url => fetches'[u] = fetches[u]
    BY <1>6 DEF Skip, Fetch, TypeInv, TypeOK
  <2>5. phase = "selected" /\ phase' # "map" /\ UNCHANGED scope
    BY <1>6 DEF Skip, Fetch, crawlVars
  <2>6. QED
    BY <1>2, <1>3, <2>2, <2>3, <2>4, <2>5 DEF ScopeInv
<1>7. CASE \/ MapDone \/ Select \/ EndSeed \/ Abort \/ Finish \/ EndRequest
           \/ (\E u \in Urls : Promote(u)) \/ Begin \/ Commit \/ Rollback \/ Terminated
           \/ UNCHANGED vars
  <2>1. /\ UNCHANGED <<queue, fetches, scope>>
        /\ phase' \in {"map", "loop", "selected", "links"}
              => phase \in {"map", "loop", "selected", "links"}
        /\ phase' = "map" => phase = "map" /\ todo' = todo
    BY <1>7 DEF MapDone, Select, EndSeed, Abort, Finish, EndRequest, Promote,
                Terminated, vars, Crawl, Begin, Commit, Rollback, crawlerVars, crawlVars
  <2>2. QED
    BY <1>2, <1>3, <2>1 DEF ScopeInv
<1>8. QED
  BY <1>4, <1>5, <1>6, <1>7 DEF Next, Crawl

\* With auto depth and a map for every seed's site, nothing is fetched that is neither
\* a seed nor, once normalized, the same as a page of such a map (bulk_crawler.rs:578),
\* whoever links to it, for any web, any seeds, any budget and any normalization.
THEOREM ScopeIsKept == Spec => []ScopeKept
<1>1. Init => ScopeInv
  BY DEF Init, ScopeInv
<1>2. ScopeInv => ScopeKept
  BY DEF ScopeInv, ScopeKept
<1>3. QED
  BY TypeInvariant, StepScope, <1>1, <1>2, PTL DEF Spec

-----------------------------------------------------------------------------
(* What is fetched is in the graph *)

\* Writing the node of u was tried, and it is there unless the graph failed.
Tried(u) == store[u] = "absent" => u \in lost

\* Whatever is queued, worked on or reported was to be a node of the graph.
InGraph ==
    /\ \A d \in Domains : \A e \in queue[d] : Tried(e.url)
    /\ phase = "links" => Tried(cur.url)
    /\ phase = "map" => \A item \in todo : item.kind = "seed" => Tried(item.url)
    /\ ResultsRecorded

\* What was tried once stays so.
LEMMA StepTried ==
    ASSUME TypeInv, [Next]_vars, NEW u \in Urls, Tried(u) PROVE Tried(u)'
<1>1. CASE UNCHANGED <<store, lost>>
  BY <1>1 DEF Tried
<1>2. CASE StartSeed
  <2> DEFINE s == Seeds[seedIdx + 1]
  <2>1. PICK put : store' = [store EXCEPT ![s] = IF s \in put THEN "known" ELSE @]
    BY <1>2 DEF StartSeed
  <2>2. store'[u] = "absent" => store[u] = "absent"
    BY <2>1 DEF TypeInv, TypeOK
  <2>3. lost' = StillMissing({s})
    BY <1>2 DEF StartSeed
  <2>4. QED
    BY <2>2, <2>3 DEF Tried, StillMissing
<1>3. ASSUME NEW item \in todo, Discover(item) PROVE Tried(u)'
  <2>1. store'[u] = "absent" => store[u] = "absent"
    BY <1>3 DEF Discover
  <2>2. QED
    BY <1>3, <2>1 DEF Discover, Tried, StillMissing
<1>4. CASE Finish \/ \E v \in Urls : Promote(v)
  <2>1. lost' = lost
    BY <1>4 DEF Finish, Promote, txVars
  <2>2. store'[u] = "absent" => store[u] = "absent"
    BY <1>4 DEF Finish, Promote, TypeInv, TypeOK
  <2>3. QED
    BY <2>1, <2>2 DEF Tried
<1>5. CASE Rollback
  BY <1>5 DEF Rollback, Tried, StillMissing, Nodes
<1>6. QED
  BY <1>1, <1>2, <1>3, <1>4, <1>5
     DEF Next, Crawl, MapDone, Select, EndSeed, Skip, Fetch, Abort, EndRequest, Begin,
         Commit, Terminated, vars, txVars

\* A URL whose write was tried in this step.
LEMMA WrittenTried ==
    ASSUME NEW nodes, NEW u \in nodes, lost' = StillMissing(nodes) PROVE Tried(u)'
BY DEF Tried, StillMissing

LEMMA StepInGraph == TypeInv /\ InGraph /\ [Next]_vars => InGraph'
<1> SUFFICES ASSUME TypeInv, InGraph, [Next]_vars PROVE InGraph'
  OBVIOUS
<1> DEFINE Kept == \A u \in Urls : Tried(u) => Tried(u)'
<1>1. Kept
  BY StepTried
<1>2. CASE StartSeed
  <2>1. seedIdx + 1 \in 1..Len(Seeds)
    BY <1>2, BulkCrawlerAssumption
       DEF StartSeed, TypeInv, TypeOK, BulkCrawlerAssumption
  <2>2. PICK s \in Urls : s = Seeds[seedIdx + 1]
    BY <2>1, SeedType
  <2>3. Tried(s)'
    <3>1. lost' = StillMissing({s})
      BY <1>2, <2>2 DEF StartSeed
    <3>2. QED
      BY <3>1, WrittenTried
  <2>4. \A item \in todo' : item.kind = "seed" => item.url = s
    BY <1>2, <2>2 DEF StartSeed
  <2>5. phase' = "map" /\ got' = {} /\ UNCHANGED <<queue, contents>>
    BY <1>2 DEF StartSeed
  <2>6. \A item \in todo' : item.kind = "seed" => Tried(item.url)'
    BY <2>3, <2>4
  <2>7. \A d \in Domains : \A e \in queue'[d] : Tried(e.url)'
    BY <1>1, <2>5 DEF InGraph, TypeInv, TypeOK, Entry
  <2>8. ResultsRecorded'
    BY <1>1, <2>5 DEF InGraph, ResultsRecorded, Tried, TypeInv, TypeOK
  <2>9. QED
    BY <2>5, <2>6, <2>7, <2>8 DEF InGraph
<1>3. ASSUME NEW item \in todo, Discover(item) PROVE InGraph'
  <2>1. phase \in {"map", "links"}
    BY <1>3 DEF Discover
  <2>2. item \in Item /\ item.url \in Urls /\ Key(item) \in Domains
    BY <2>1, ItemType
  <2>3. Enqueues(item) => Tried(item.url)'
    <3>1. CASE item.kind = "seed"
      <4>1. Tried(item.url)
        BY <2>1, <3>1 DEF InGraph, TypeInv, Phased, IsLink
      <4>2. QED
        BY <1>1, <2>2, <4>1
    <3>2. CASE item.kind # "seed"
      <4>1. Enqueues(item) => item.url \in Rewrites(item) \cup Endpoints(item)
        BY <2>2, <3>2 DEF Rewrites, IsLink, Item, Kinds
      <4>2. lost' = StillMissing(Rewrites(item) \cup Endpoints(item))
        BY <1>3 DEF Discover
      <4>3. QED
        BY <4>1, <4>2, WrittenTried
    <3>3. QED
      BY <3>1, <3>2
  <2>4. \A d \in Domains : \A e \in queue'[d] :
            e \in queue[d] \/ (Enqueues(item) /\ e.url = item.url)
    BY <1>3, <2>2 DEF Discover, TypeInv, TypeOK
  <2>5. todo' \subseteq todo /\ UNCHANGED <<phase, cur, got, contents>>
    BY <1>3 DEF Discover, crawlVars
  <2>6. \A d \in Domains : \A e \in queue'[d] : Tried(e.url)'
    BY <1>1, <2>3, <2>4 DEF InGraph, TypeInv, TypeOK, Entry
  <2>7. phase' = "links" => Tried(cur.url)'
    BY <1>1, <2>5 DEF InGraph, TypeInv, Phased, Entry, Tried
  <2>8. phase' = "map" => \A i \in todo' : i.kind = "seed" => Tried(i.url)'
    BY <1>1, <2>5 DEF InGraph, TypeInv, TypeOK, Item
  <2>9. ResultsRecorded'
    BY <1>1, <2>5 DEF InGraph, ResultsRecorded, Tried, TypeInv, TypeOK
  <2>10. QED
    BY <2>6, <2>7, <2>8, <2>9 DEF InGraph
<1>4. CASE Skip \/ Fetch
  <2>1. cur \in Entry /\ cur.url \in Urls
    BY <1>4, SelectedType DEF Skip, Fetch, Entry
  <2>2. \A d \in Domains : queue'[d] \subseteq queue[d]
    <3>1. queue' = Dequeued(cur.url)
      BY <1>4 DEF Skip, Fetch
    <3>2. queue \in [Domains -> SUBSET Entry]
      BY DEF TypeInv, TypeOK
    <3>3. QED
      BY <3>1, <3>2 DEF Dequeued
  <2>3. Tried(cur.url)
    BY <1>4 DEF Skip, Fetch, TypeInv, Phased, InGraph
  <2>4. phase' # "map" /\ UNCHANGED <<store, lost, cur, got, contents>>
    BY <1>4 DEF Skip, Fetch, crawlVars, txVars
  <2>5. QED
    BY <2>2, <2>3, <2>4 DEF InGraph, ResultsRecorded, Tried
<1>5. CASE Finish
  <2>1. cur.url \in Urls /\ Tried(cur.url)
    BY <1>5 DEF Finish, TypeInv, Phased, Entry, InGraph
  <2>2. phase' = "loop" /\ got' = got \cup {cur.url} /\ UNCHANGED <<queue, contents>>
    BY <1>5 DEF Finish, crawlVars
  <2>3. ResultsRecorded'
    BY <1>1, <2>1, <2>2 DEF InGraph, ResultsRecorded, Tried, TypeInv, TypeOK
  <2>4. QED
    BY <1>1, <2>2, <2>3 DEF InGraph, TypeInv, TypeOK, Entry
<1>6. CASE EndSeed
  BY <1>6 DEF EndSeed, InGraph, ResultsRecorded, Tried, txVars
<1>7. CASE \/ MapDone \/ Select \/ Abort \/ EndRequest \/ Begin \/ Commit \/ Terminated
           \/ UNCHANGED vars
  <2>1. /\ UNCHANGED <<queue, store, lost, got, contents>>
        /\ phase' \notin {"map", "links"} \/ UNCHANGED <<phase, todo, cur>>
    BY <1>7 DEF MapDone, Select, Abort, EndRequest, Begin, Commit, Terminated, vars,
                crawlerVars, crawlVars, txVars
  <2>2. QED
    BY <2>1 DEF InGraph, ResultsRecorded, Tried
<1>8. CASE Rollback \/ \E u \in Urls : Promote(u)
  <2>1. UNCHANGED <<queue, phase, todo, cur, got, contents>>
    BY <1>8 DEF Promote, Rollback, crawlerVars, crawlVars
  <2>2. \A d \in Domains : \A e \in queue'[d] : Tried(e.url)'
    BY <1>1, <2>1 DEF InGraph, TypeInv, TypeOK, Entry
  <2>3. phase' = "links" => Tried(cur.url)'
    BY <1>1, <2>1 DEF InGraph, TypeInv, Phased, Entry, Tried
  <2>4. phase' = "map" => \A i \in todo' : i.kind = "seed" => Tried(i.url)'
    BY <1>1, <2>1 DEF InGraph, TypeInv, TypeOK, Item
  <2>5. ResultsRecorded'
    BY <1>1, <2>1 DEF InGraph, ResultsRecorded, Tried, TypeInv, TypeOK
  <2>6. QED
    BY <2>2, <2>3, <2>4, <2>5 DEF InGraph
<1>9. QED
  BY <1>2, <1>3, <1>4, <1>5, <1>6, <1>7, <1>8 DEF Next, Crawl

\* The crawl itself forgets no page: one of the results that is no node of the graph
\* is so because its last write failed or was undone, however the reads and writes
\* of the graph fail and whenever the worker's transaction is rolled back.
THEOREM ResultsAlwaysRecorded == Spec => []ResultsRecorded
<1>1. Init => InGraph
  BY DEF Init, InGraph, ResultsRecorded
<1>2. InGraph => ResultsRecorded
  BY DEF InGraph
<1>3. QED
  BY TypeInvariant, StepInGraph, <1>1, <1>2, PTL DEF Spec
=============================================================================
