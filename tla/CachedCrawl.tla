------------------------------ MODULE CachedCrawl ------------------------------
(***************************************************************************)
(* `webfind crawl` with its URL cache: the pipeline of engine/crawler.rs,  *)
(* which receives the spider's pages over a broadcast channel, indexes     *)
(* them in batches and remembers them in the cache, and the cache of       *)
(* storage/cache_store.rs, a file rewritten as a whole for every entry.    *)
(*                                                                         *)
(* Runs follow one another over the same file; a run may be killed at any  *)
(* point.  The index of a run is in memory and dies with it, so only the   *)
(* file tells the next run what has been done.                             *)
(***************************************************************************)
EXTENDS Naturals, Sequences, FiniteSets

CONSTANTS
    Urls,           \* pages as the site spells them
    Keys, KeyOf,    \* CacheStore::normalize_url: spellings share a key
    Bodies,         \* what a page can contain
    Valid,          \* the bodies that pass the filters: status 200, extracted, not thin
    Similar,        \* pairs of bodies within NEAR_DUP_THRESHOLD of each other
    Policy, Days,   \* the re-crawl policy, and the interval of "fixed"
    SkipCached,     \* the flag --skip-cached
    BatchSize,      \* 50
    Capacity,       \* of the broadcast channel, 100
    IndexMayFail, WriteMayFail,
    MaxRuns, MaxCrashes, MaxDay     \* bounds

VARIABLES
    phase,          \* of the run: idle, receive, index, persist, rewrite or join
    final,          \* whether the run has left its receiving loop
    unsent, spider, \* pages the spider may still publish; whether it crawls
    channel, lagged,    \* pages published and not received; whether some were overwritten
    batch,          \* pages to be indexed together
    todo,           \* indexed pages whose cache entries are to be inserted
    unwritten,      \* entries that the rewrite of the file has yet to write
    cache,          \* the entries in memory
    file, torn,     \* the entries in the file; whether its last line is cut off
    indexed,        \* history: pages indexed, with the run and the day
    lost,           \* history: keys whose entry a crash or a failed write lost
    day, run, crashes

spiderVars == <<unsent, spider, channel, lagged>>
cacheVars == <<cache, file, torn>>
history == <<indexed, lost>>
clock == <<day, run, crashes>>
vars == <<phase, final, spiderVars, batch, todo, unwritten, cacheVars, history, clock>>

ASSUME CachedCrawlAssumption ==
    /\ KeyOf \in [Urls -> Keys]
    /\ Valid \subseteq Bodies
    /\ Similar \subseteq Bodies \X Bodies
    /\ Policy \in {"never", "fixed", "adaptive"} /\ Days \in Nat
    /\ SkipCached \in BOOLEAN /\ IndexMayFail \in BOOLEAN /\ WriteMayFail \in BOOLEAN
    /\ BatchSize \in Nat \ {0} /\ Capacity \in Nat \ {0}
    /\ MaxRuns \in Nat /\ MaxCrashes \in Nat /\ MaxDay \in Nat

Pages == [url : Urls, body : Bodies]
Entries == [key : Keys, body : Bodies, day : Nat, count : Nat]

Key(p) == KeyOf[p.url]

Init ==
    /\ phase = "idle" /\ final = FALSE
    /\ unsent = {} /\ spider = FALSE /\ channel = <<>> /\ lagged = FALSE
    /\ batch = <<>> /\ todo = <<>> /\ unwritten = {}
    /\ cache = {} /\ file = {} /\ torn = FALSE
    /\ indexed = {} /\ lost = {}
    /\ day = 0 /\ run = 0 /\ crashes = 0

-----------------------------------------------------------------------------
(* Between runs *)

Tick ==
    /\ phase = "idle" /\ day < MaxDay
    /\ day' = day + 1
    /\ UNCHANGED <<phase, final, spiderVars, batch, todo, unwritten, cacheVars, history,
                   run, crashes>>

\* A run loads the file, or fails when a line of it does not parse; then it
\* subscribes to the spider and starts it.
Open ==
    /\ phase = "idle" /\ run < MaxRuns
    /\ ~torn
    /\ phase' = "receive" /\ final' = FALSE
    /\ unsent' = Urls /\ spider' = TRUE /\ channel' = <<>> /\ lagged' = FALSE
    /\ cache' = file
    /\ run' = run + 1
    /\ UNCHANGED <<batch, todo, unwritten, file, torn, history, day, crashes>>

-----------------------------------------------------------------------------
(* The spider (an external crate) publishes each page of the site at most   *)
(* once in a run.  It never waits for the receiver: a full channel loses    *)
(* its oldest page, and the receiver is told that it lags.  What it         *)
(* publishes once the receiver has left its loop is received by nobody.     *)

Publish(u, b) ==
    /\ spider /\ ~final /\ u \in unsent
    /\ unsent' = unsent \ {u}
    /\ LET full == Len(channel) = Capacity IN
       /\ channel' = Append(IF full THEN Tail(channel) ELSE channel, [url |-> u, body |-> b])
       /\ lagged' = (lagged \/ full)
    /\ UNCHANGED <<phase, final, spider, batch, todo, unwritten, cacheVars, history, clock>>

SpiderEnds ==
    /\ spider
    /\ spider' = FALSE
    /\ UNCHANGED <<phase, final, unsent, channel, lagged, batch, todo, unwritten, cacheVars,
                   history, clock>>

-----------------------------------------------------------------------------
(* The receiving loop *)

\* should_fetch: whether a cached page is due again.  A day of the model is an
\* instant at which everything in it happens.
Interval(e) == IF e.count <= 1 THEN 1 ELSE 2 ^ (IF e.count > 5 THEN 4 ELSE e.count - 1)

\* The mutant refetches on the last day of the interval.
ShouldFetchEarly(k) ==
    \A e \in cache : e.key = k =>
        \/ Policy = "fixed" /\ day - e.day >= Days
        \/ Policy = "adaptive" /\ day - e.day > Interval(e)

ShouldFetch(k) ==
    \A e \in cache : e.key = k =>
        \/ Policy = "fixed" /\ day - e.day > Days
        \/ Policy = "adaptive" /\ day - e.day > Interval(e)

Due(p) == SkipCached => ShouldFetch(Key(p))

\* Compared with the cached entry of the same URL, as it was before this run's batch.
NearDuplicate(p) == \E e \in cache : e.key = Key(p) /\ <<e.body, p.body>> \in Similar

\* What is indexed: a page that is due, with content, and not as it was.
Wanted(p) == p.body \in Valid /\ Due(p) /\ ~NearDuplicate(p)

Receive(p) ==
    /\ phase = "receive" /\ ~lagged
    /\ channel # <<>> /\ p = Head(channel)
    /\ channel' = Tail(channel)
    /\ UNCHANGED <<final, unsent, spider, lagged, todo, unwritten, cacheVars, history, clock>>

Skip(p) ==
    /\ Receive(p)
    /\ ~Wanted(p)
    /\ UNCHANGED <<phase, batch>>

\* A full batch is indexed at once.
Keep(p) ==
    /\ Receive(p)
    /\ Wanted(p)
    /\ batch' = Append(batch, p)
    /\ phase' = IF Len(batch') >= BatchSize THEN "index" ELSE "receive"

\* The mutant waits on when the receiver lags.
LeaveLoopClosed ==
    /\ phase = "receive"
    /\ channel = <<>> /\ ~spider /\ ~lagged
    /\ final' = TRUE
    /\ unsent' = {} /\ channel' = <<>> /\ lagged' = FALSE
    /\ phase' = IF batch = <<>> THEN "join" ELSE "index"
    /\ UNCHANGED <<spider, batch, todo, unwritten, cacheVars, history, clock>>

\* The loop ends when the spider has gone and all it left is received, and just
\* as well when the receiver lags: `while let Ok(page)` takes no error.
LeaveLoop ==
    /\ phase = "receive"
    /\ lagged \/ (channel = <<>> /\ ~spider)
    /\ final' = TRUE
    /\ unsent' = {} /\ channel' = <<>> /\ lagged' = FALSE
    /\ phase' = IF batch = <<>> THEN "join" ELSE "index"
    /\ UNCHANGED <<spider, batch, todo, unwritten, cacheVars, history, clock>>

-----------------------------------------------------------------------------
(* index_batch, then a cache entry for each page that it took *)

AfterBatch == IF final THEN "join" ELSE "receive"

ItemsOf(s) == {s[i] : i \in 1..Len(s)}

Index ==
    /\ phase = "index"
    /\ indexed' = indexed \cup
           {[key |-> Key(p), body |-> p.body, day |-> day, run |-> run] : p \in ItemsOf(batch)}
    /\ todo' = batch /\ batch' = <<>>
    /\ phase' = "persist"
    /\ UNCHANGED <<final, spiderVars, unwritten, cacheVars, lost, clock>>

\* The embedder fails; none of the batch is in the index or in the cache.
IndexFailsCached ==
    /\ phase = "index" /\ IndexMayFail
    /\ todo' = batch /\ batch' = <<>>
    /\ phase' = "persist"
    /\ UNCHANGED <<final, spiderVars, unwritten, cacheVars, history, clock>>

IndexFails ==
    /\ phase = "index" /\ IndexMayFail
    /\ batch' = <<>>
    /\ phase' = AfterBatch
    /\ UNCHANGED <<final, spiderVars, todo, unwritten, cacheVars, history, clock>>

-----------------------------------------------------------------------------
(* CacheStore::insert: the entry goes into the map, then persist() truncates *)
(* the file and writes all entries of the map to it, a line each.            *)

Entry(p) == [key |-> Key(p), body |-> p.body, day |-> day, count |-> 1]

Remember(p) ==
    /\ phase = "persist"
    /\ todo # <<>> /\ p = Head(todo)
    /\ todo' = Tail(todo)
    /\ cache' = {e \in cache : e.key # Key(p)} \cup {Entry(p)}
    /\ UNCHANGED <<final, spiderVars, batch, indexed, clock>>

Rewrite(p, entries) ==
    /\ Remember(p)
    /\ phase' = "rewrite"
    /\ file' = {} /\ torn' = FALSE
    /\ unwritten' = entries
    /\ UNCHANGED lost

Truncate(p) == Rewrite(p, cache')

\* The file does not open for writing: it stays as it is.
TruncateFails(p) ==
    /\ WriteMayFail
    /\ Remember(p)
    /\ lost' = lost \cup {e.key : e \in cache' \ file}
    /\ UNCHANGED <<phase, unwritten, file, torn>>

WriteLine(e) ==
    /\ phase = "rewrite" /\ e \in unwritten
    /\ file' = file \cup {e}
    /\ unwritten' = unwritten \ {e}
    /\ UNCHANGED <<phase, final, spiderVars, batch, todo, cache, torn, history, clock>>

\* A line goes out in part or not at all, and the rest is not tried.
WriteFails ==
    /\ WriteMayFail
    /\ phase = "rewrite" /\ unwritten # {}
    /\ torn' \in BOOLEAN
    /\ phase' = "persist" /\ unwritten' = {}
    /\ lost' = lost \cup {e.key : e \in unwritten}
    /\ UNCHANGED <<final, spiderVars, batch, todo, cache, file, indexed, clock>>

Written ==
    /\ phase = "rewrite" /\ unwritten = {}
    /\ phase' = "persist"
    /\ UNCHANGED <<final, spiderVars, batch, todo, unwritten, cacheVars, history, clock>>

Persisted ==
    /\ phase = "persist" /\ todo = <<>>
    /\ phase' = AfterBatch
    /\ UNCHANGED <<final, spiderVars, batch, todo, unwritten, cacheVars, history, clock>>

-----------------------------------------------------------------------------
(* The end of a run *)

\* crawl_handle.await: the run is over when the spider is.
Join ==
    /\ phase = "join" /\ ~spider
    /\ phase' = "idle" /\ final' = FALSE
    /\ cache' = {}
    /\ UNCHANGED <<spiderVars, batch, todo, unwritten, file, torn, history, clock>>

\* The process is killed.  The file keeps the lines that were written.
Crash ==
    /\ phase # "idle" /\ crashes < MaxCrashes
    /\ crashes' = crashes + 1
    /\ phase' = "idle" /\ final' = FALSE
    /\ unsent' = {} /\ spider' = FALSE /\ channel' = <<>> /\ lagged' = FALSE
    /\ batch' = <<>> /\ todo' = <<>> /\ unwritten' = {}
    /\ cache' = {}
    /\ lost' = lost \cup {e.key : e \in unwritten} \cup {Key(p) : p \in ItemsOf(todo)}
    /\ UNCHANGED <<file, torn, indexed, day, run>>

Spider == SpiderEnds \/ \E u \in Urls, b \in Bodies : Publish(u, b)

Loop == LeaveLoop \/ \E p \in Pages : Skip(p) \/ Keep(p)

Flush ==
    \/ Index \/ IndexFails
    \/ WriteFails \/ Written \/ Persisted
    \/ \E p \in Pages : Truncate(p) \/ TruncateFails(p)
    \/ \E e \in unwritten : WriteLine(e)

Next == Tick \/ Open \/ Spider \/ Loop \/ Flush \/ Join \/ Crash

\* The run and the spider are tasks of one runtime.
Fairness == WF_vars(SpiderEnds) /\ WF_vars(Loop) /\ WF_vars(Flush) /\ WF_vars(Join)

Spec == Init /\ [][Next]_vars /\ Fairness

-----------------------------------------------------------------------------
(* Properties *)

TypeOK ==
    /\ phase \in {"idle", "receive", "index", "persist", "rewrite", "join"} /\ final \in BOOLEAN
    /\ unsent \subseteq Urls /\ spider \in BOOLEAN
    /\ channel \in Seq(Pages) /\ lagged \in BOOLEAN
    /\ batch \in Seq(Pages) /\ todo \in Seq(Pages)
    /\ unwritten \subseteq cache
    /\ \A e, f \in cache : e.key = f.key => e = f
    /\ cache \subseteq Entries /\ file \subseteq Entries /\ torn \in BOOLEAN
    /\ indexed \subseteq [key : Keys, body : Bodies, day : Nat, run : Nat] /\ lost \subseteq Keys
    /\ day \in Nat /\ run \in Nat /\ crashes \in Nat

\* The cache never remembers a page that was not indexed: not when the embedder
\* fails on its batch, not when the run dies between the two, in memory or in the file
\* (crawler.rs calls persist_cache_entries in the Ok arm of index_batch only).
CachedWasIndexed ==
    \A e \in cache \cup file :
        \E i \in indexed : i.key = e.key /\ i.body = e.body /\ i.day = e.day

\* With --skip-cached a page that an earlier run indexed is not indexed again within
\* the interval of the policy, unless a run was killed, or a write failed, while the
\* entries were being rewritten.  A crash at any other point costs nothing.
NoEarlyRefetch ==
    SkipCached /\ Policy = "fixed" =>
        \A i, j \in indexed :
            i.key = j.key /\ i.run < j.run /\ j.day - i.day <= Days => i.key \in lost

\* Every run ends, also one whose receiver the spider overruns.
RunsEnd == phase # "idle" ~> phase = "idle"
=============================================================================
