------------------------- MODULE PageLifecycleProofs -------------------------
(***************************************************************************)
(* What holds of the pages in the database for any number of requests,     *)
(* daemons and searches, any sites, and any faults and crashes.            *)
(***************************************************************************)
EXTENDS PageLifecycle, TLAPS

\* A page in hand is a page, and one that is marked as stored is stored.
InHand ==
    /\ \A c \in Crawls :
        /\ phase[c] \in {"loop", "fetching", "marked"} => source[c] \in Sources
        /\ phase[c] \in {"fetching", "marked"} => page[c] \in Urls
    /\ \A c \in Crawls : stored[c] => at[c] \in Urls /\ Stored(at[c])

TypeInv == TypeOK /\ InHand

\* What a search has read as crawled is accounted for when it is written back.
ReadsAccounted ==
    \A s \in Searches : snap[s] = "crawled" => hit[s] \in Urls /\ Accounted(hit[s])

AccountInv == CrawledAccounted /\ ReadsAccounted

-----------------------------------------------------------------------------
(* Types *)

LEMMA InitType == Init => TypeInv
BY PageLifecycleAssumption
DEF PageLifecycleAssumption, Init, TypeInv, TypeOK, InHand, Crawls

\* A text that is stored stays in the store, full or stripped.
LEMMA StoredStays ==
    ASSUME TypeInv, [Next]_vars, NEW t \in Texts, text[t] # "none"
    PROVE  text'[t] # "none"
<1> USE DEF TypeInv, TypeOK
<1>1. \/ text' = text
      \/ \E v \in Texts, kept \in {"full", "stripped"} : text' = [text EXCEPT ![v] = kept]
  <2>1. ASSUME NEW c \in Crawls, NEW u \in Urls, Store(c, u)
        PROVE  \E v \in Texts : text' = [text EXCEPT ![v] = "full"]
    BY <2>1 DEF Store, Texts
  <2>2. ASSUME NEW v \in Texts, Evict(v)
        PROVE  text' = [text EXCEPT ![v] = "stripped"]
    BY <2>2 DEF Evict
  <2>3. \/ text' = text
        \/ \E c \in Crawls, u \in Urls : Store(c, u)
        \/ \E v \in Texts : Evict(v)
    BY ZenonT(30)
       DEF Next, CrawlStep, WorkerStep, SearchStep, Record, Choose, Fetch, Finish, HandOver,
           Closed, EndCrawl, Take, Reject, StoreFails, MarkStored, Abort, Exit, Refuse,
           Look, Refresh, Ingest, EnqueueHit, Request, Sweep, Elapse, Begin, database, vars
  <2>4. QED
    BY <2>1, <2>2, <2>3
<1>2. QED
  BY <1>1

LEMMA TextOfUrl == \A u \in Urls : TextOf[u] \in Texts
BY DEF Texts

LEMMA CrawlTypes ==
    ASSUME TypeInv, NEW c \in Crawls, CrawlStep(c) \/ EndCrawl(c) \/ Abort(c)
    PROVE  TypeInv'
<1>1. \A u \in Urls : Stored(u) => Stored(u)'
  BY StoredStays, TextOfUrl DEF Stored, Next
<1> USE PageLifecycleAssumption DEF PageLifecycleAssumption, TypeInv, TypeOK, InHand, Stored,
        Written,
        database, workerVars, searchVars, counters
<1>2. ASSUME NEW u \in Urls, Record(c, u) PROVE TypeInv'
  <2>1. page[c] \in Urls \cup {NoUrl} /\ source[c] \in Sources
    BY <1>2 DEF Record
  <2>2. HostFor(c, u) \in Hosts
    BY <2>1 DEF HostFor, Hosts
  <2> DEFINE entry == [host |-> HostFor(c, u), url |-> u]
  <2>3. entry \in Queued
    BY <2>2 DEF Queued
  <2>4. PICK new \in {{}, {entry}} : /\ queue' = [queue EXCEPT ![c] = @ \cup new]
                                   /\ seen' = [seen EXCEPT ![c] = @ \cup new]
    <3>1. PICK accepted \in {FALSE, entry \notin seen[c]} :
            LET new == IF accepted THEN {entry} ELSE {}
            IN /\ queue' = [queue EXCEPT ![c] = @ \cup new]
               /\ seen' = [seen EXCEPT ![c] = @ \cup new]
      BY ONLY <1>2 DEF Record
    <3>2. QED
      BY ONLY <3>1
  <2>5. node' \in [Urls -> {"absent", "known", "crawled"}]
    BY <1>2 DEF Record
  <2>6. queue' \in [Crawls -> SUBSET Queued] /\ seen' \in [Crawls -> SUBSET Queued]
    BY <2>3, <2>4
  <2>7. todo' \in [Crawls -> SUBSET Urls]
    BY <1>2 DEF Record
  <2>8. UNCHANGED <<map, text, owner, job, phase, source, page, workerVars, due,
                    searchVars, dropped, counters>>
    BY <1>2 DEF Record
  <2>9. QED
    BY <2>5, <2>6, <2>7, <2>8 DEF Stored
<1>3. ASSUME NEW e \in queue[c], Choose(c, e) PROVE TypeInv'
  <2>1. e.url \in Urls
    BY DEF Queued
  <2>2. /\ queue' \in [Crawls -> SUBSET Queued]
        /\ UNCHANGED <<database, source, todo, seen, workerVars, due, searchVars, dropped,
                       counters>>
        /\ \/ UNCHANGED <<page, phase>>
           \/ /\ page' = [page EXCEPT ![c] = e.url]
              /\ phase' = [phase EXCEPT ![c] = "fetching"]
    BY <1>3 DEF Choose
  <2>3. CASE UNCHANGED <<page, phase>>
    BY <1>1, <2>2, <2>3
  <2>4. CASE /\ page' = [page EXCEPT ![c] = e.url]
             /\ phase' = [phase EXCEPT ![c] = "fetching"]
    <3>1. TypeOK'
      BY <2>1, <2>2, <2>4
    <3>2. phase[c] = "loop"
      BY <1>3 DEF Choose
    <3>3. InHand'
      BY <1>1, <2>1, <2>2, <2>4, <3>2
    <3>4. QED
      BY <3>1, <3>3
  <2>5. QED
    BY <2>2, <2>3, <2>4
<1>4. CASE Fetch(c)
  <2>1. /\ phase[c] = "fetching" /\ phase' = [phase EXCEPT ![c] = "loop"]
        /\ todo' \in [Crawls -> SUBSET Urls]
        /\ page' = page \/ page' = [page EXCEPT ![c] = NoUrl]
        /\ UNCHANGED <<database, source, queue, seen, workerVars, due, searchVars, dropped,
                       counters>>
    BY <1>4 DEF Fetch
  <2>2. TypeOK'
    BY <2>1
  <2>3. InHand'
    <3>1. \A d \in Crawls : phase'[d] \in {"fetching", "marked"} => page'[d] = page[d]
      BY <2>1
    <3>2. \A d \in Crawls : phase'[d] \in {"fetching", "marked"} => phase'[d] = phase[d]
      BY <2>1
    <3>3. \A d \in Crawls : phase'[d] = "loop" => phase[d] \in {"loop", "fetching"}
      BY <2>1
    <3>4. UNCHANGED <<source, stored, at>>
      BY <2>1
    <3>5. QED
      BY <3>1, <3>2, <3>3, <3>4, <1>1
  <2>4. QED
    BY <2>2, <2>3
<1>5. CASE Finish(c)
  <2>1. TypeOK'
    <3>1. /\ node' = node \/ node' = [node EXCEPT ![page[c]] = "crawled"]
          /\ phase' = [phase EXCEPT ![c] = "marked"]
          /\ UNCHANGED <<map, text, owner, job, source, todo, queue, seen, page, workerVars,
                         due, searchVars, dropped, counters>>
      BY <1>5 DEF Finish
    <3>2. QED
      BY <3>1
  <2>2. InHand'
    BY <1>5, <1>1, ZenonT(30) DEF Finish
  <2>3. QED
    BY <2>1, <2>2
<1>6. CASE HandOver(c)
  <2>1. TypeOK'
    BY <1>6 DEF HandOver
  <2>2. InHand'
    BY <1>6, <1>1 DEF HandOver
  <2>3. QED
    BY <2>1, <2>2
<1>7. CASE Closed(c)
  <2>1. TypeOK'
    BY <1>7 DEF Closed
  <2>2. InHand'
    BY <1>7, <1>1 DEF Closed
  <2>3. QED
    BY <2>1, <2>2
<1>8. CASE EndCrawl(c)
  <2>1. TypeOK'
    BY <1>8 DEF EndCrawl, Swept, Forget
  <2>2. InHand'
    BY <1>8, <1>1 DEF EndCrawl, Swept, Forget
  <2>3. QED
    BY <2>1, <2>2
<1>9. CASE Abort(c)
  <2>1. TypeOK'
    BY <1>9 DEF Abort, Swept, Forget
  <2>2. InHand'
    BY <1>9, <1>1 DEF Abort, Swept, Forget
  <2>3. QED
    BY <2>1, <2>2
<1>10. QED
  BY <1>2, <1>3, <1>4, <1>5, <1>6, <1>7, <1>8, <1>9 DEF CrawlStep

JobStatus == {"none", "pending", "processing", "done", "failed"}

\* Whatever becomes of a statement about a job, its row has a status.
LEMMA JobTypes ==
    ASSUME TypeOK, NEW u \in Urls, NEW status \in JobStatus, Marked(u, status) \/ Enqueued(u)
    PROVE  job' \in [Urls -> JobStatus]
BY DEF TypeOK, Marked, Enqueued, JobStatus

LEMMA WorkerTypes ==
    ASSUME TypeInv, NEW c \in Crawls, WorkerStep(c) \/ Exit(c) \/ \E u \in Urls : Refuse(c, u)
    PROVE  TypeInv'
<1>1. \A u \in Urls : Stored(u) => Stored(u)'
  BY StoredStays, TextOfUrl DEF Stored, Next
<1> USE PageLifecycleAssumption DEF PageLifecycleAssumption, TypeInv, TypeOK, InHand, Stored,
        Written,
        crawlVars, searchVars, counters
<1>2. ASSUME NEW u \in Urls, Take(c, u) PROVE TypeInv'
  <2>1. TypeOK'
    <3>1. job' \in [Urls -> JobStatus]
      BY ONLY <1>2, JobTypes, TypeInv DEF Take, Marked, JobStatus, TypeInv
    <3>2. /\ waiting' = [waiting EXCEPT ![c] = @ \ {u}] /\ at' = [at EXCEPT ![c] = u]
          /\ UNCHANGED <<map, node, text, owner, crawlVars, stored, due, searchVars, dropped,
                         counters>>
      BY ONLY <1>2 DEF Take
    <3>3. QED
      BY <3>1, <3>2 DEF JobStatus
  <2>2. InHand'
    BY <1>2, <1>1, ZenonT(30) DEF Take, Enqueued
  <2>3. QED
    BY <2>1, <2>2
<1>3. ASSUME NEW u \in Urls, Reject(c, u) PROVE TypeInv'
  <2>1. TypeOK'
    <3>1. job' \in [Urls -> JobStatus]
      BY ONLY <1>3, JobTypes, TypeInv DEF Reject, JobStatus, TypeInv
    <3>2. /\ at' = [at EXCEPT ![c] = NoUrl] /\ stored' = [stored EXCEPT ![c] = FALSE]
          /\ waiting' = waiting
          /\ UNCHANGED <<map, node, text, owner, crawlVars, due, searchVars, dropped, counters>>
      BY ONLY <1>3 DEF Reject, Release
    <3>3. QED
      BY <3>1, <3>2 DEF JobStatus
  <2>2. InHand'
    BY <1>3, <1>1 DEF Reject, Release, Marked
  <2>3. QED
    BY <2>1, <2>2
<1>4. ASSUME NEW u \in Urls, Store(c, u) PROVE TypeInv'
  <2>1. /\ TextOf[u] \in Texts /\ Holds(c, u)
        /\ text' = [text EXCEPT ![TextOf[u]] = "full"]
        /\ owner' = [owner EXCEPT ![TextOf[u]] = u]
        /\ stored' = [stored EXCEPT ![c] = TRUE]
        /\ node' = node \/ node' = [node EXCEPT ![u] = "crawled"]
        /\ UNCHANGED <<map, job, crawlVars, waiting, at, due, searchVars, dropped, counters>>
    BY <1>4, TextOfUrl DEF Store
  <2>2. TypeOK'
    BY <2>1
  <2>3. \A v \in Urls : v = u \/ Stored(v) => text'[TextOf[v]] # "none"
    BY <2>1, TextOfUrl
  <2>4. \A d \in Crawls : stored'[d] => at'[d] \in Urls /\ Stored(at[d])'
    <3>1. \A d \in Crawls : stored'[d] => d = c \/ stored[d]
      BY <2>1
    <3>2. at' = at /\ at[c] = u
      BY <2>1 DEF Holds
    <3>3. QED
      BY <2>3, <3>1, <3>2
  <2>5. InHand'
    BY <2>1, <2>4
  <2>6. QED
    BY <2>2, <2>5
<1>5. ASSUME NEW u \in Urls, StoreFails(c, u) PROVE TypeInv'
  <2>1. TypeOK'
    <3>1. job' \in [Urls -> JobStatus]
      BY ONLY <1>5, JobTypes, TypeInv DEF StoreFails, JobStatus, TypeInv
    <3>2. /\ at' = [at EXCEPT ![c] = NoUrl] /\ stored' = [stored EXCEPT ![c] = FALSE]
          /\ waiting' = waiting /\ dropped' = dropped \cup {u}
          /\ UNCHANGED <<map, node, text, owner, crawlVars, due, searchVars, counters>>
      BY ONLY <1>5 DEF StoreFails, Release
    <3>3. QED
      BY <3>1, <3>2 DEF JobStatus
  <2>2. InHand'
    BY <1>5, <1>1 DEF StoreFails, Release, Marked
  <2>3. QED
    BY <2>1, <2>2
<1>6. ASSUME NEW u \in Urls, MarkStored(c, u) PROVE TypeInv'
  <2>1. TypeOK'
    <3>1. job' \in [Urls -> JobStatus]
      BY ONLY <1>6, JobTypes, TypeInv DEF MarkStored, JobStatus, TypeInv
    <3>2. /\ at' = [at EXCEPT ![c] = NoUrl] /\ stored' = [stored EXCEPT ![c] = FALSE]
          /\ waiting' = waiting
          /\ UNCHANGED <<map, node, text, owner, crawlVars, due, searchVars, dropped, counters>>
      BY ONLY <1>6 DEF MarkStored, Release
    <3>3. QED
      BY <3>1, <3>2 DEF JobStatus
  <2>2. InHand'
    BY <1>6, <1>1 DEF MarkStored, Release, Marked
  <2>3. QED
    BY <2>1, <2>2
<1>7. ASSUME NEW u \in Urls, Refuse(c, u) PROVE TypeInv'
  <2>1. TypeOK'
    BY <1>7 DEF Refuse, database
  <2>2. InHand'
    BY <1>7, <1>1 DEF Refuse, database
  <2>3. QED
    BY <2>1, <2>2
<1>8. CASE Exit(c)
  <2>1. InMemory(c) \subseteq Urls
    <3>1. waiting[c] \subseteq Urls /\ {at[c]} \ {NoUrl} \subseteq Urls
      OBVIOUS
    <3>2. phase[c] = "marked" => {page[c]} \subseteq Urls
      OBVIOUS
    <3>3. QED
      BY ONLY <3>1, <3>2 DEF InMemory
  <2>2. dropped' \subseteq Urls
    BY <1>8, <2>1 DEF Exit
  <2>3. crashes' \in 0..MaxCrashes
    BY <1>8 DEF Exit
  <2>4. QED
    BY <1>8, <2>2, <2>3 DEF Exit, Forget, database
<1>9. QED
  BY <1>2, <1>3, <1>4, <1>5, <1>6, <1>7, <1>8 DEF WorkerStep

LEMMA StartTypes ==
    ASSUME TypeInv,
           \/ \E r \in Requests, s \in Sources : Request(r, s)
           \/ \E d \in Daemons, s \in Sources : Sweep(d, s) \/ Elapse(d, s)
    PROVE  TypeInv'
<1>1. \A u \in Urls : Stored(u) => Stored(u)'
  BY StoredStays, TextOfUrl DEF Stored, Next
<1> USE PageLifecycleAssumption DEF PageLifecycleAssumption, TypeInv, TypeOK, InHand, Stored,
        Written, Crawls,
        database, crawlVars, workerVars, searchVars, counters
<1>2. ASSUME NEW r \in Requests, NEW s \in Sources, Request(r, s) PROVE TypeInv'
  <2>1. TypeOK'
    BY <1>2 DEF Request, Begin
  <2>2. InHand'
    BY <1>2, <1>1 DEF Request, Begin
  <2>3. QED
    BY <2>1, <2>2
<1>3. ASSUME NEW d \in Daemons, NEW s \in Sources, Sweep(d, s) PROVE TypeInv'
  <2>1. TypeOK'
    BY <1>3 DEF Sweep, Begin
  <2>2. InHand'
    BY <1>3, <1>1 DEF Sweep, Begin
  <2>3. QED
    BY <2>1, <2>2
<1>4. ASSUME NEW d \in Daemons, NEW s \in Sources, Elapse(d, s) PROVE TypeInv'
  <2>1. TypeOK'
    BY <1>4 DEF Elapse
  <2>2. InHand'
    BY <1>4, <1>1 DEF Elapse
  <2>3. QED
    BY <2>1, <2>2
<1>5. QED
  BY <1>2, <1>3, <1>4

LEMMA SearchTypes ==
    ASSUME TypeInv,
           \/ \E s \in Searches : SearchStep(s)
           \/ \E t \in Texts : Evict(t)
    PROVE  TypeInv'
<1>1. \A u \in Urls : Stored(u) => Stored(u)'
  BY StoredStays, TextOfUrl DEF Stored, Next
<1> USE PageLifecycleAssumption DEF PageLifecycleAssumption, TypeInv, TypeOK, InHand, Stored,
        Written,
        crawlVars, workerVars, searchVars, counters
<1>2. ASSUME NEW s \in Searches, NEW u \in Hits, Look(s, u) PROVE TypeInv'
  <2>1. TypeOK'
    <3>1. node[u] \in {"absent", "known", "crawled"}
      OBVIOUS
    <3>2. snap' \in [Searches -> {"none", "absent", "known", "crawled", "ingested"}]
      BY <1>2, <3>1 DEF Look
    <3>3. QED
      BY <1>2, <3>2 DEF Look, database
  <2>2. InHand'
    BY <1>2, <1>1 DEF Look, database
  <2>3. QED
    BY <2>1, <2>2
<1>3. ASSUME NEW s \in Searches, NEW u \in Hits, Refresh(s, u) PROVE TypeInv'
  <2>1. TypeOK'
    <3>1. node' \in [Urls -> {"absent", "known", "crawled"}]
      BY <1>3 DEF Refresh
    <3>2. snap' \in [Searches -> {"none", "absent", "known", "crawled", "ingested"}]
      BY <1>3 DEF Refresh, NextHit
    <3>3. QED
      BY <1>3, <3>1, <3>2 DEF Refresh, NextHit
  <2>2. InHand'
    BY <1>3, <1>1 DEF Refresh, NextHit
  <2>3. QED
    BY <2>1, <2>2
<1>4. ASSUME NEW s \in Searches, NEW u \in Hits, Ingest(s, u) PROVE TypeInv'
  <2>1. TypeOK'
    BY <1>4 DEF Ingest
  <2>2. InHand'
    BY <1>4, <1>1 DEF Ingest
  <2>3. QED
    BY <2>1, <2>2
<1>5. ASSUME NEW s \in Searches, NEW u \in Hits, EnqueueHit(s, u) PROVE TypeInv'
  <2>1. TypeOK'
    BY <1>5 DEF EnqueueHit, NextHit, Enqueued
  <2>2. InHand'
    BY <1>5, <1>1 DEF EnqueueHit, NextHit, Enqueued
  <2>3. QED
    BY <2>1, <2>2
<1>6. ASSUME NEW t \in Texts, Evict(t) PROVE TypeInv'
  <2>1. TypeOK'
    BY <1>6 DEF Evict
  <2>2. InHand'
    BY <1>6, <1>1 DEF Evict
  <2>3. QED
    BY <2>1, <2>2
<1>7. QED
  BY <1>2, <1>3, <1>4, <1>5, <1>6 DEF SearchStep

LEMMA StepTypes == TypeInv /\ [Next]_vars => TypeInv'
<1> SUFFICES ASSUME TypeInv, [Next]_vars PROVE TypeInv'
  OBVIOUS
<1>1. CASE UNCHANGED vars
  BY <1>1 DEF vars, database, crawlVars, workerVars, searchVars, counters, TypeInv, TypeOK,
      InHand, Stored
<1>2. CASE Next
  BY <1>2, CrawlTypes, WorkerTypes, StartTypes, SearchTypes DEF Next
<1>3. QED
  BY <1>1, <1>2

\* Every variable of the database and of the processes keeps its type, for any
\* number of processes.
THEOREM TypeCorrect == Spec => []TypeOK
<1>1. Spec => []TypeInv
  BY InitType, StepTypes, PTL DEF Spec
<1>2. TypeInv => TypeOK
  BY DEF TypeInv
<1>3. QED
  BY <1>1, <1>2, PTL

-----------------------------------------------------------------------------
(* Accounting: no step forgets a page *)

\* A page that is accounted for stays so: what leaves a process' memory has
\* been stored, rejected or noted as dropped.
LEMMA AccountedStays ==
    ASSUME TypeInv, Next, NEW u \in Urls, Accounted(u)
    PROVE  Accounted(u)'
<1> USE DEF TypeInv
<1>1. CASE u \in dropped \cup Thin
  <2>1. dropped \subseteq dropped'
    BY ZenonT(30)
       DEF Next, CrawlStep, WorkerStep, SearchStep, Record, Choose, Fetch, Finish, HandOver,
           Closed, EndCrawl, Take, Reject, Store, StoreFails, MarkStored, Abort, Exit, Refuse,
           Look, Refresh, Ingest, EnqueueHit, Evict, Request, Sweep, Elapse, Begin
  <2>2. QED
    BY <1>1, <2>1 DEF Accounted
<1>2. CASE Stored(u)
  BY <1>2, StoredStays, TextOfUrl DEF Stored, Accounted
<1>3. ASSUME NEW c \in Crawls, u \in InMemory(c), ~Stored(u), u \notin dropped \cup Thin
      PROVE  Accounted(u)'
  <2>1. /\ u # NoUrl /\ DOMAIN waiting = Crawls /\ DOMAIN at = Crawls
        /\ DOMAIN stored = Crawls /\ DOMAIN page = Crawls /\ DOMAIN phase = Crawls
    BY PageLifecycleAssumption DEF PageLifecycleAssumption, TypeOK
  <2> DEFINE Kept == u \in InMemory(c)'
             Steady == UNCHANGED <<waiting, at, stored, page, phase>>
  <2>2. ASSUME Steady PROVE Kept
    BY <1>3, <2>2 DEF InMemory
  <2>3. ASSUME NEW d \in Crawls, CrawlStep(d) \/ EndCrawl(d) \/ Abort(d) PROVE Kept
    <3> USE <1>3, <2>1 DEF InMemory, workerVars
    <3>1. ASSUME NEW v \in Urls, Record(d, v) PROVE Kept
      BY <3>1 DEF Record
    <3>2. ASSUME NEW e \in queue[d], Choose(d, e) PROVE Kept
      <4>1. phase[d] # "marked" /\ UNCHANGED workerVars
        BY <3>2 DEF Choose
      <4>2. \/ UNCHANGED <<page, phase>>
            \/ page' = [page EXCEPT ![d] = e.url] /\ phase' = [phase EXCEPT ![d] = "fetching"]
        BY <3>2 DEF Choose
      <4>3. QED
        BY <4>1, <4>2
    <3>3. CASE Fetch(d)
      <4>1. phase[d] # "marked" /\ UNCHANGED workerVars /\ phase' = [phase EXCEPT ![d] = "loop"]
            /\ (page' = page \/ page' = [page EXCEPT ![d] = NoUrl])
        BY <3>3 DEF Fetch
      <4>2. QED
        BY <4>1
    <3>4. CASE Finish(d)
      BY <3>4 DEF Finish
    <3>5. CASE HandOver(d)
      BY <3>5 DEF HandOver
    <3>6. CASE Closed(d)
      BY <3>6 DEF Closed
    <3>7. CASE EndCrawl(d)
      BY <3>7 DEF EndCrawl, Forget
    <3>8. CASE Abort(d)
      BY <3>8 DEF Abort, Forget
    <3>9. QED
      BY <2>3, <3>1, <3>2, <3>3, <3>4, <3>5, <3>6, <3>7, <3>8 DEF CrawlStep
  <2>4. ASSUME NEW d \in Crawls, WorkerStep(d) \/ Exit(d) \/ \E v \in Urls : Refuse(d, v)
        PROVE  Accounted(u)'
    <3> USE <1>3, <2>1 DEF InMemory, crawlVars
    <3>1. ASSUME NEW v \in Urls, Take(d, v) PROVE Kept
      <4>1. ~stored[d]
        BY <3>1, PageLifecycleAssumption DEF PageLifecycleAssumption, Take, TypeOK, InHand
      <4>2. QED
        BY <3>1, <4>1 DEF Take, TypeOK
    <3>2. ASSUME NEW v \in Urls, Reject(d, v) PROVE Kept
      <4>1. u # v
        BY <3>2 DEF Reject
      <4>2. QED
        BY <3>2, <4>1 DEF Reject, Release, Holds
    <3>3. ASSUME NEW v \in Urls, Store(d, v) PROVE Kept \/ Stored(u)'
      <4>1. CASE u = v
        BY <3>3, <4>1, TextOfUrl DEF Store, Stored, TypeOK
      <4>2. CASE u # v
        BY <3>3, <4>2 DEF Store, Holds
      <4>3. QED
        BY <4>1, <4>2
    <3>4. ASSUME NEW v \in Urls, StoreFails(d, v) PROVE Kept \/ u \in dropped'
      BY <3>4 DEF StoreFails, Release, Holds
    <3>5. ASSUME NEW v \in Urls, MarkStored(d, v) PROVE Kept
      BY <3>5 DEF MarkStored, Release
    <3>6. ASSUME NEW v \in Urls, Refuse(d, v) PROVE Kept \/ u \in dropped'
      BY <3>6 DEF Refuse
    <3>7. ASSUME Exit(d) PROVE Kept \/ u \in dropped'
      <4>1. CASE d = c
        BY <3>7, <4>1 DEF Exit
      <4>2. CASE d # c
        BY <3>7, <4>2 DEF Exit, Forget
      <4>3. QED
        BY <4>1, <4>2
    <3>8. QED
      BY <2>4, <3>1, <3>2, <3>3, <3>4, <3>5, <3>6, <3>7 DEF WorkerStep, Accounted
  <2>5. ASSUME NEW d \in Crawls, NEW s \in Sources, Begin(d, s) PROVE Kept
    BY <1>3, <2>1, <2>5 DEF Begin, workerVars, InMemory
  <2>6. ASSUME NEW d \in Daemons, NEW s \in Sources, Elapse(d, s) PROVE Kept
    BY <2>2, <2>6 DEF Elapse, crawlVars, workerVars
  <2>7. ASSUME NEW s \in Searches, SearchStep(s) PROVE Kept
    BY <2>2, <2>7 DEF SearchStep, Look, Refresh, Ingest, EnqueueHit, crawlVars, workerVars
  <2>8. ASSUME NEW t \in Texts, Evict(t) PROVE Kept
    BY <2>2, <2>8 DEF Evict, crawlVars, workerVars
  <2>9. Kept => Accounted(u)'
    BY DEF Accounted
  <2> HIDE DEF Kept
  <2>10. QED
    BY <2>3, <2>4, <2>5, <2>6, <2>7, <2>8, <2>9 DEF Next, Request, Sweep, Crawls
<1>4. QED
  BY <1>1, <1>2, <1>3 DEF Accounted

\* The pages a step newly marks as crawled, and what a search newly reads.
LEMMA StepAccounts == TypeInv /\ AccountInv /\ [Next]_vars => AccountInv'
<1> SUFFICES ASSUME TypeInv, AccountInv, [Next]_vars PROVE AccountInv'
  OBVIOUS
<1>1. CASE UNCHANGED vars
  BY <1>1 DEF vars, database, crawlVars, workerVars, searchVars, counters, AccountInv,
      CrawledAccounted, ReadsAccounted, Accounted, InMemory, Stored
<1>2. CASE Next
  <2>1. ASSUME NEW u \in Urls, node'[u] = "crawled" PROVE Accounted(u)'
    <3>1. CASE node[u] = "crawled"
      BY <1>2, <3>1, AccountedStays DEF AccountInv, CrawledAccounted
    <3>2. ASSUME NEW c \in Crawls, node[u] # "crawled", Finish(c) PROVE Accounted(u)'
      <4>1. u = page[c] /\ page' = page /\ phase'[c] = "marked"
        BY <2>1, <3>2 DEF Finish, Written, TypeInv, TypeOK
      <4>2. QED
        BY <4>1 DEF Accounted, InMemory
    <3>3. ASSUME NEW c \in Crawls, NEW v \in Urls, node[u] # "crawled", Store(c, v)
          PROVE  Accounted(u)'
      <4>1. u = v
        BY <2>1, <3>3 DEF Store, TypeInv, TypeOK
      <4>2. QED
        BY <3>3, <4>1, TextOfUrl DEF Store, TypeInv, TypeOK, Accounted, Stored
    <3>4. ASSUME NEW s \in Searches, NEW v \in Urls, node[u] # "crawled", Refresh(s, v)
          PROVE  Accounted(u)'
      <4>1. u = v /\ snap[s] = "crawled" /\ hit[s] = u
        BY <2>1, <3>4 DEF Refresh, Written, TypeInv, TypeOK
      <4>2. QED
        BY <1>2, <4>1, AccountedStays DEF AccountInv, ReadsAccounted
    <3>5. \/ node[u] = "crawled"
          \/ \E c \in Crawls : Finish(c)
          \/ \E c \in Crawls, v \in Urls : Store(c, v)
          \/ \E s \in Searches, v \in Hits : Refresh(s, v)
      <4>1. ASSUME NEW c \in Crawls, NEW v \in Urls, Record(c, v) PROVE node[u] = "crawled"
        BY <2>1, <4>1 DEF Record, TypeInv, TypeOK
      <4>2. ASSUME NEW s \in Searches, NEW v \in Hits, Ingest(s, v) PROVE node[u] = "crawled"
        BY <2>1, <4>2 DEF Ingest, Written, TypeInv, TypeOK
      <4>3. CASE node' = node
        BY <2>1, <4>3
      <4>4. QED
        BY <1>2, <4>1, <4>2, <4>3
        DEF Next, CrawlStep, WorkerStep, SearchStep, Choose, Fetch, HandOver, Closed, EndCrawl,
            Take, Reject, StoreFails, MarkStored, Abort, Exit, Refuse, Look, EnqueueHit, Evict,
            Request, Sweep, Elapse, Begin, database
    <3>6. Hits \subseteq Urls
      BY PageLifecycleAssumption DEF PageLifecycleAssumption
    <3>7. QED
      BY <3>1, <3>2, <3>3, <3>4, <3>5, <3>6
  <2>2. ASSUME NEW s \in Searches, snap'[s] = "crawled"
        PROVE  hit'[s] \in Urls /\ Accounted(hit[s])'
    <3> DEFINE Read == \/ snap[s] = "crawled" /\ hit'[s] = hit[s]
                       \/ \E v \in Hits : hit'[s] = v /\ node[v] = "crawled"
    <3>1. Read
      <4>1. CASE UNCHANGED searchVars
        BY <2>2, <4>1 DEF searchVars
      <4>2. ASSUME NEW t \in Searches, NEW v \in Hits,
                   Look(t, v) \/ Refresh(t, v) \/ Ingest(t, v) \/ EnqueueHit(t, v)
            PROVE  Read
        BY <2>2, <4>2 DEF Look, Refresh, Ingest, EnqueueHit, NextHit, TypeInv, TypeOK
      <4>3. QED
        BY <1>2, <4>1, <4>2, ZenonT(30)
        DEF Next, CrawlStep, WorkerStep, SearchStep, Record, Choose, Fetch, Finish, HandOver,
            Closed, EndCrawl, Take, Reject, Store, StoreFails, MarkStored, Abort, Exit, Refuse,
            Evict, Request, Sweep, Elapse, Begin
    <3>2. hit'[s] \in Urls /\ Accounted(hit'[s])
      BY <3>1, PageLifecycleAssumption
      DEF PageLifecycleAssumption, AccountInv, CrawledAccounted, ReadsAccounted
    <3>3. \A u \in Urls : Accounted(u) => Accounted(u)'
      BY <1>2, AccountedStays
    <3>4. QED
      BY <3>2, <3>3
  <2>3. QED
    BY <2>1, <2>2 DEF AccountInv, CrawledAccounted, ReadsAccounted
<1>3. QED
  BY <1>1, <1>2

\* A page that the database has as crawled has its text stored, its own row or
\* one another page took over, or is on its way, or was rejected or dropped: over
\* any number of crawls, workers and searches that write the same node, pages
\* that share a text, and any crashes.
THEOREM CrawledPagesAccounted == Spec => []CrawledAccounted
<1>1. Init => AccountInv
  BY DEF Init, AccountInv, CrawledAccounted, ReadsAccounted
<1>2. AccountInv => CrawledAccounted
  BY DEF AccountInv
<1>3. Spec => []TypeInv
  BY InitType, StepTypes, PTL DEF Spec
<1>4. QED
  BY <1>1, <1>2, <1>3, StepAccounts, PTL DEF Spec

-----------------------------------------------------------------------------
(* Jobs *)

LEMMA StepJobs == TypeInv /\ JobsTruthful /\ [Next]_vars => JobsTruthful'
<1> SUFFICES ASSUME TypeInv, JobsTruthful, [Next]_vars,
                    NEW u \in Urls, job'[u] = "done", u \notin Thin
             PROVE  Stored(u)'
  BY DEF JobsTruthful
<1>1. Stored(u) => Stored(u)'
  BY StoredStays, TextOfUrl DEF Stored
<1>2. CASE UNCHANGED vars
  BY <1>1, <1>2 DEF vars, database, JobsTruthful
<1>3. CASE Next
  <2> USE DEF TypeInv, TypeOK
  <2>1. ASSUME NEW c \in Crawls, NEW v \in Urls, MarkStored(c, v), job[u] # "done"
        PROVE  Stored(u)
    <3>1. u = v
      BY <2>1 DEF MarkStored, Marked
    <3>2. QED
      BY <2>1, <3>1 DEF MarkStored, InHand
  <2>2. ASSUME NEW c \in Crawls, NEW v \in Urls, Take(c, v) \/ StoreFails(c, v) \/ Reject(c, v)
        PROVE  job[u] = "done"
    BY <2>2 DEF Take, StoreFails, Reject, Marked, Enqueued
  <2>3. ASSUME NEW s \in Searches, NEW v \in Hits, EnqueueHit(s, v) PROVE job[u] = "done"
    BY <2>3 DEF EnqueueHit, Enqueued
  <2>4. \/ job[u] = "done"
        \/ \E c \in Crawls, v \in Urls : MarkStored(c, v)
    BY <1>3, <2>2, <2>3, ZenonT(30)
    DEF Next, CrawlStep, WorkerStep, SearchStep, Record, Choose, Fetch, Finish, HandOver,
        Closed, EndCrawl, Store, Abort, Exit, Refuse, Look, Refresh, Ingest, Evict, Request,
        Sweep, Elapse, Begin, database
  <2>5. QED
    BY <1>1, <2>1, <2>4 DEF JobsTruthful
<1>4. QED
  BY <1>2, <1>3

\* No process marks a job as done whose page has no text in the store and is not
\* thin, although all of them share one row per URL and pages share texts.
THEOREM JobsStayTruthful == Spec => []JobsTruthful
<1>1. Init => JobsTruthful
  BY DEF Init, JobsTruthful
<1>2. Spec => []TypeInv
  BY InitType, StepTypes, PTL DEF Spec
<1>3. QED
  BY <1>1, <1>2, StepJobs, PTL DEF Spec
=============================================================================
