---------------------------- MODULE PersistWorker ----------------------------
(***************************************************************************)
(* The background persistence pipeline of engine/bg_worker.rs, as the      *)
(* crawl loop (engine/bulk_crawler.rs) feeds it and the research service   *)
(* (engine/research_service.rs) closes it.                                 *)
(*                                                                         *)
(* The crawl loop marks a fetched page crawled and then spawns a task that *)
(* calls persist(): the task clones the channel's sender under a mutex and *)
(* awaits a free slot of the bounded channel.  One consumer task takes the *)
(* pages in order and runs process_job() on each.  close() takes the       *)
(* sender away and waits for the consumer, which ends when the channel is  *)
(* empty and the last clone of the sender is gone.                         *)
(*                                                                         *)
(* A call is one spawned persist(): its page has a URL and a body; a body  *)
(* stands for the page's text, which is all that the gates and the content *)
(* hash look at.                                                           *)
(***************************************************************************)
EXTENDS Naturals, Sequences

CONSTANTS
    Calls,        \* the persist() calls the crawl loop spawns
    Urls,
    Bodies,
    UrlOf,        \* the page's URL, a function of the call
    BodyOf,       \* the page's text, a function of the call
    FirstSeen,    \* when each URL was discovered, a number
    Thin,         \* bodies under check_quality's word floor
    Capacity,     \* slots of the mpsc channel
    HasEmbedder,  \* whether the worker was given an embedder
    Faults,       \* the operations that may fail for the pages of each URL
    NoUrl, NoCall

FaultKinds == {"enqueue", "mark", "content", "embed", "novectors"}

ASSUME PersistWorkerAssumption ==
    /\ UrlOf \in [Calls -> Urls]
    /\ BodyOf \in [Calls -> Bodies]
    /\ FirstSeen \in [Urls -> Nat]
    /\ Thin \subseteq Bodies
    /\ Capacity \in Nat \ {0}
    /\ HasEmbedder \in BOOLEAN
    /\ Faults \in [Urls -> SUBSET FaultKinds]
    /\ NoUrl \notin Urls
    /\ NoCall \notin Calls

VARIABLES
    task,        \* where each persist() call stands
    senderOpen,  \* the Mutex<Option<Sender>> still holds the sender
    queue,       \* the channel's buffer
    pc,          \* where the consumer task stands
    current,     \* the call it is processing
    knownId,     \* the job id it holds is the id of a crawl_jobs row
    jobs,        \* status of the crawl_jobs row of each URL
    owner,       \* page_content: the URL the row of each body belongs to
    embedded,    \* URLs with an embedding
    closer       \* the crawl loop, then its call of close()

vars == <<task, senderOpen, queue, pc, current, knownId, jobs, owner,
          embedded, closer>>
consumerVars == <<pc, current, knownId, jobs, owner, embedded>>

TaskStates == {"none", "spawned", "sending", "refused", "queued", "running",
               "handled"}
JobStates == {"none", "pending", "processing", "done", "failed"}
Steps == {"enqueue", "start", "gate", "content", "embed", "finish", "fail"}

\* The URL may have a pending row: live search ingestion queues what it finds.
Init ==
    /\ task = [c \in Calls |-> "none"]
    /\ senderOpen = TRUE
    /\ queue = <<>>
    /\ pc = "idle"
    /\ current = NoCall
    /\ knownId = FALSE
    /\ jobs \in [Urls -> {"none", "pending"}]
    /\ owner = [b \in Bodies |-> NoUrl]
    /\ embedded = {}
    /\ closer = "crawling"

-----------------------------------------------------------------------------
(* The crawl loop and its spawned tasks *)

\* The loop has the page; it marks it crawled and spawns worker.persist().
Spawn(c) ==
    /\ closer = "crawling"
    /\ task[c] = "none"
    /\ task' = [task EXCEPT ![c] = "spawned"]
    /\ UNCHANGED <<senderOpen, queue, consumerVars, closer>>

\* persist() locks the sender: a clone of it, or the error "worker is closed".
CloneSender(c) ==
    /\ task[c] = "spawned"
    /\ task' = [task EXCEPT ![c] = IF senderOpen THEN "sending" ELSE "refused"]
    /\ UNCHANGED <<senderOpen, queue, consumerVars, closer>>

\* persist() gets a slot of the channel and drops its clone.
Send(c) ==
    /\ task[c] = "sending"
    /\ Len(queue) < Capacity
    /\ queue' = Append(queue, c)
    /\ task' = [task EXCEPT ![c] = "queued"]
    /\ UNCHANGED <<senderOpen, consumerVars, closer>>

\* TakeSender that closes but forgets to drop the sender (mutant).
TakeSenderKept ==
    /\ closer = "crawling"
    /\ closer' = "closing"
    /\ UNCHANGED <<task, senderOpen, queue, consumerVars>>

\* The crawl loop is over: close() takes the sender out of the mutex.
TakeSender ==
    /\ closer = "crawling"
    /\ senderOpen' = FALSE
    /\ closer' = "closing"
    /\ UNCHANGED <<task, queue, consumerVars>>

\* close() has awaited the consumer's handle.
CloseReturns ==
    /\ closer = "closing"
    /\ pc = "exited"
    /\ closer' = "returned"
    /\ UNCHANGED <<task, senderOpen, queue, consumerVars>>

-----------------------------------------------------------------------------
(* The consumer task: receive, then the steps of process_job() *)

Url == UrlOf[current]
Body == BodyOf[current]

\* Receive that takes the newest page (mutant).
ReceiveNewest ==
    /\ pc = "idle"
    /\ queue # <<>>
    /\ LET newest == queue[Len(queue)] IN
        /\ current' = newest
        /\ task' = [task EXCEPT ![newest] = "running"]
    /\ queue' = SubSeq(queue, 1, Len(queue) - 1)
    /\ pc' = "enqueue"
    /\ UNCHANGED <<senderOpen, knownId, jobs, owner, embedded, closer>>

Receive ==
    /\ pc = "idle"
    /\ queue # <<>>
    /\ current' = Head(queue)
    /\ queue' = Tail(queue)
    /\ task' = [task EXCEPT ![Head(queue)] = "running"]
    /\ pc' = "enqueue"
    /\ UNCHANGED <<senderOpen, knownId, jobs, owner, embedded, closer>>

\* Exit as soon as the channel is closed, full or not (mutant).
ExitUndrained ==
    /\ pc = "idle"
    /\ ~senderOpen
    /\ pc' = "exited"
    /\ UNCHANGED <<task, senderOpen, queue, current, knownId, jobs, owner,
                   embedded, closer>>

\* recv() returns None: the buffer is empty and every sender is dropped.
Exit ==
    /\ pc = "idle"
    /\ queue = <<>>
    /\ ~senderOpen
    /\ \A c \in Calls : task[c] # "sending"
    /\ pc' = "exited"
    /\ UNCHANGED <<task, senderOpen, queue, current, knownId, jobs, owner,
                   embedded, closer>>

\* enqueue_crawl_job() inserts a pending row or finds the URL's row and leaves
\* its status; on an error the hash of the URL serves as an id no row has.
EnqueueJob ==
    /\ pc = "enqueue"
    /\ \/ /\ knownId' = TRUE
          /\ jobs' = [jobs EXCEPT ![Url] = IF @ = "none" THEN "pending" ELSE @]
       \/ /\ "enqueue" \in Faults[Url]
          /\ knownId' = FALSE
          /\ UNCHANGED jobs
    /\ pc' = "start"
    /\ UNCHANGED <<task, senderOpen, queue, current, owner, embedded, closer>>

\* mark_crawl_job_status(), whose errors process_job() drops or only logs.
Mark(status) ==
    \/ jobs' = IF knownId THEN [jobs EXCEPT ![Url] = status] ELSE jobs
    \/ "mark" \in Faults[Url] /\ UNCHANGED jobs

MarkProcessing ==
    /\ pc = "start"
    /\ Mark("processing")
    /\ pc' = "gate"
    /\ UNCHANGED <<task, senderOpen, queue, current, knownId, owner, embedded,
                   closer>>

\* A gate that rejects every other page of a stored URL (mutant).
FindDuplicateByUrl(u, b) == {x \in Bodies : owner[x] = u}

\* The trait's default, which no store behind the worker overrides: no page is
\* ever the duplicate of another.
FindDuplicate(u, b) == {}

\* A page that either gate rejects is done without being stored.
Gate ==
    /\ pc = "gate"
    /\ pc' = IF FindDuplicate(Url, Body) # {} \/ Body \in Thin
             THEN "finish" ELSE "content"
    /\ UNCHANGED <<task, senderOpen, queue, current, knownId, jobs, owner,
                   embedded, closer>>

\* RecordContent that goes on after an error (mutant).
RecordContentAnyway ==
    /\ pc = "content"
    /\ \/ owner' = [owner EXCEPT ![Body] = Url]
       \/ "content" \in Faults[Url] /\ UNCHANGED owner
    /\ pc' = IF HasEmbedder THEN "embed" ELSE "finish"
    /\ UNCHANGED <<task, senderOpen, queue, current, knownId, jobs, embedded,
                   closer>>

\* record_page_content(): the row of this body, which is keyed by the hash of
\* the text alone, now belongs to this URL.
RecordContent ==
    /\ pc = "content"
    /\ \/ /\ owner' = [owner EXCEPT ![Body] = Url]
          /\ pc' = IF HasEmbedder THEN "embed" ELSE "finish"
       \/ /\ "content" \in Faults[Url]
          /\ pc' = "fail"
          /\ UNCHANGED owner
    /\ UNCHANGED <<task, senderOpen, queue, current, knownId, jobs, embedded,
                   closer>>

\* The embedder's vector is stored; or the embedder or the store fails; or the
\* embedder returns no vector, and the job is marked failed and runs on.
Embed ==
    /\ pc = "embed"
    /\ \/ /\ embedded' = embedded \cup {Url}
          /\ pc' = "finish"
          /\ UNCHANGED jobs
       \/ /\ "embed" \in Faults[Url]
          /\ pc' = "fail"
          /\ UNCHANGED <<jobs, embedded>>
       \/ /\ "novectors" \in Faults[Url]
          /\ Mark("failed")
          /\ pc' = "finish"
          /\ UNCHANGED embedded
    /\ UNCHANGED <<task, senderOpen, queue, current, knownId, owner, closer>>

\* The last mark of a job, after which the consumer receives again.
End(step, status) ==
    /\ pc = step
    /\ Mark(status)
    /\ pc' = "idle"
    /\ task' = [task EXCEPT ![current] = "handled"]
    /\ current' = NoCall
    /\ knownId' = FALSE
    /\ UNCHANGED <<senderOpen, queue, owner, embedded, closer>>

\* Fail that returns without marking the row (mutant).
FailUnmarked ==
    /\ pc = "fail"
    /\ pc' = "idle"
    /\ task' = [task EXCEPT ![current] = "handled"]
    /\ current' = NoCall
    /\ knownId' = FALSE
    /\ UNCHANGED <<senderOpen, queue, jobs, owner, embedded, closer>>

\* Fail that ends the consumer (mutant).
FailStops ==
    /\ pc = "fail"
    /\ Mark("failed")
    /\ pc' = "exited"
    /\ task' = [task EXCEPT ![current] = "handled"]
    /\ current' = NoCall
    /\ knownId' = FALSE
    /\ UNCHANGED <<senderOpen, queue, owner, embedded, closer>>

Finish == End("finish", "done")
Fail == End("fail", "failed")

Consumer ==
    \/ Receive \/ Exit \/ EnqueueJob \/ MarkProcessing \/ Gate
    \/ RecordContent \/ Embed \/ Finish \/ Fail

\* close() has returned and no spawned task is left to run.
Terminated ==
    /\ closer = "returned"
    /\ \A c \in Calls : task[c] # "spawned"
    /\ UNCHANGED vars

Next ==
    \/ \E c \in Calls : Spawn(c) \/ CloneSender(c) \/ Send(c)
    \/ TakeSender
    \/ CloseReturns
    \/ Consumer
    \/ Terminated

Spec == Init /\ [][Next]_vars

\* The runtime polls every task that can make progress.  Nothing obliges the
\* crawl loop to find another page, or to end.
FairSpec ==
    /\ Spec
    /\ WF_vars(Consumer)
    /\ WF_vars(CloseReturns)
    /\ \A c \in Calls : WF_vars(CloneSender(c)) /\ WF_vars(Send(c))

-----------------------------------------------------------------------------
(* Properties *)

TypeOK ==
    /\ task \in [Calls -> TaskStates]
    /\ senderOpen \in BOOLEAN
    /\ queue \in Seq(Calls)
    /\ Len(queue) <= Capacity
    /\ pc \in {"idle", "exited"} \cup Steps
    /\ current \in Calls \cup {NoCall}
    /\ knownId \in BOOLEAN
    /\ jobs \in [Urls -> JobStates]
    /\ owner \in [Bodies -> Urls \cup {NoUrl}]
    /\ embedded \subseteq Urls
    /\ closer \in {"crawling", "closing", "returned"}

\* The channel and the consumer account for every call that was sent: each is
\* in the buffer exactly once, or being processed, or handled
\* (bg_worker.rs persist() and the recv loop).
Accounted ==
    /\ \A i, j \in 1..Len(queue) : queue[i] = queue[j] => i = j
    /\ \A c \in Calls : task[c] = "queued" <=> \E i \in 1..Len(queue) : queue[i] = c
    /\ \A c \in Calls : task[c] = "running" <=> current = c
    /\ pc \in Steps <=> current # NoCall

\* When close() returns, every page whose persist() got hold of the sender has
\* been processed: none is left in the channel or on its way into it
\* (bg_worker.rs:69 "wait for all queued jobs to finish processing").
CloseDrains ==
    closer = "returned" =>
        \A c \in Calls : task[c] \notin {"sending", "queued", "running"}

\* A job row says done only if a page of its URL was processed and its text is
\* stored, or was rejected as thin (bg_worker.rs:95-98: a rejection is a
\* success-with-skip; any other page must not be reported done unstored).
DoneJustified ==
    \A u \in Urls : jobs[u] = "done" =>
        \E c \in Calls : /\ UrlOf[c] = u
                         /\ task[c] \in {"running", "handled"}
                         /\ BodyOf[c] \in Thin \/ owner[BodyOf[c]] # NoUrl

\* While marking works for a page, no early return of process_job() leaves the
\* row of its URL pending or processing, which nothing would ever pick up again,
\* whatever fails for other pages.
NoJobLeftOpen ==
    \A c \in Calls :
        /\ Faults[UrlOf[c]] \cap {"enqueue", "mark"} = {}
        /\ task[c] = "handled"
        /\ (current # NoCall => Url # UrlOf[c])
        => jobs[UrlOf[c]] \in {"done", "failed"}

\* While the store takes the texts of a page, it is stored once it is handled and
\* not thin, whatever becomes of its embedding and its job row, or of other pages.
HandledIsStored ==
    \A c \in Calls :
        "content" \notin Faults[UrlOf[c]] /\ task[c] = "handled" /\ BodyOf[c] \notin Thin =>
            owner[BodyOf[c]] # NoUrl

\* Once persist() holds a sender its page is processed, however many tasks
\* compete for the slots of the channel.
SentIsHandled == \A c \in Calls : task[c] = "sending" ~> task[c] = "handled"

\* close() never hangs: the consumer drains the channel and ends.
CloseTerminates == closer = "closing" ~> closer = "returned"

\* The service as its callers see it: waiting for a slot, in line, processed.
Service == INSTANCE PersistService WITH
    waiting <- {c \in Calls : task[c] = "sending"},
    line    <- IF current = NoCall THEN queue ELSE <<current>> \o queue,
    handled <- {c \in Calls : task[c] = "handled"},
    status  <- closer

\* The worker implements the service: pages are processed exactly once and in
\* order, whatever fails, and close() lets nobody in and leaves nobody behind.
ImplementsService == Service!Spec

\* What the research service and command say of close(): every page the crawl
\* loop handed over is persisted (research_service.rs:259, research.rs:158).
EveryPagePersisted ==
    closer = "returned" =>
        \A c \in Calls : task[c] # "none" => task[c] = "handled"

\* The near-duplicate gate's comment (bg_worker.rs:95 "reject syndicated/near-
\* identical pages before they are persisted") with the first-seen rule of
\* dedup.rs: a stored text is never taken over by a page discovered later.
DuplicateRejected ==
    [][\A b \in Bodies :
          owner[b] \in Urls /\ owner'[b] # owner[b]
          => FirstSeen[owner'[b]] < FirstSeen[owner[b]]]_vars
=============================================================================
