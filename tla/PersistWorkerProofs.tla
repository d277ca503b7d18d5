------------------------- MODULE PersistWorkerProofs -------------------------
(***************************************************************************)
(* What PersistWorker guarantees for every number of calls, every channel  *)
(* capacity and every set of faults.                                       *)
(***************************************************************************)
EXTENDS PersistWorker, TLAPS

\* The consumer ends only after close() took the sender and the last clone of
\* it is gone, and close() returns only after the consumer ended.
Shutdown ==
    /\ closer = "crawling" <=> senderOpen
    /\ pc = "exited" => /\ ~senderOpen
                        /\ queue = <<>>
                        /\ \A c \in Calls : task[c] # "sending"
    /\ closer = "returned" => pc = "exited"

\* A job that is about to be marked done is of a thin page or of a stored one.
FinishJustified ==
    pc \in {"embed", "finish"} => Body \in Thin \/ owner[Body] # NoUrl

\* What a failed job of a page the store takes has stored, it has stored.
FailStored ==
    pc = "fail" /\ "content" \notin Faults[Url] => Body \in Thin \/ owner[Body] # NoUrl

\* While enqueueing works, a job past its first step has the id of its row.
IdKnown ==
    pc \in Steps \ {"enqueue"} /\ "enqueue" \notin Faults[Url] => knownId

ChannelInv == TypeOK /\ Accounted /\ Shutdown
IInv == ChannelInv /\ FinishJustified /\ DoneJustified /\ IdKnown /\ NoJobLeftOpen
StoredInv == FailStored /\ HandledIsStored

-----------------------------------------------------------------------------

LEMMA InitChannel == Init => ChannelInv
<1> SUFFICES ASSUME Init PROVE ChannelInv
  OBVIOUS
<1> USE PersistWorkerAssumption DEF Init
<1>1. TypeOK
  <2>1. jobs \in [Urls -> JobStates]
    BY DEF JobStates
  <2>2. queue \in Seq(Calls) /\ Len(queue) <= Capacity
    OBVIOUS
  <2>3. QED
    BY <2>1, <2>2 DEF TypeOK, TaskStates
<1>2. Accounted
  BY DEF Accounted, Steps
<1>3. Shutdown
  BY DEF Shutdown
<1>4. QED
  BY <1>1, <1>2, <1>3 DEF ChannelInv

\* While a job is processed there is a call to process.
LEMMA CurrentCall ==
    ASSUME TypeOK, Accounted, pc \in Steps
    PROVE  current \in Calls /\ Url \in Urls /\ Body \in Bodies
BY PersistWorkerAssumption DEF TypeOK, Accounted, Url, Body

\* A step of the consumer leaves the buffer and what close() has done alone.
LEMMA ConsumerType ==
    ASSUME TypeOK, UNCHANGED <<senderOpen, queue, closer>>,
           task' \in [Calls -> TaskStates], pc' \in {"idle", "exited"} \cup Steps,
           current' \in Calls \cup {NoCall}, knownId' \in BOOLEAN,
           jobs' \in [Urls -> JobStates], owner' \in [Bodies -> Urls \cup {NoUrl}],
           embedded' \subseteq Urls
    PROVE  TypeOK'
BY DEF TypeOK

\* The row of a job is marked with a status, or it is not.
LEMMA MarkType ==
    ASSUME TypeOK, NEW status \in JobStates, Mark(status)
    PROVE  jobs' \in [Urls -> JobStates]
BY DEF TypeOK, Mark

LEMMA StepType == TypeOK /\ Accounted /\ [Next]_vars => TypeOK'
<1> SUFFICES ASSUME TypeOK, Accounted, [Next]_vars PROVE TypeOK'
  OBVIOUS
<1>0. /\ task \in [Calls -> TaskStates] /\ pc \in {"idle", "exited"} \cup Steps
      /\ current \in Calls \cup {NoCall} /\ knownId \in BOOLEAN
      /\ jobs \in [Urls -> JobStates] /\ owner \in [Bodies -> Urls \cup {NoUrl}]
      /\ embedded \subseteq Urls
  BY DEF TypeOK
<1>1. ASSUME NEW c \in Calls, Spawn(c) PROVE TypeOK'
  BY <1>1 DEF Spawn, consumerVars, TypeOK, TaskStates
<1>2. ASSUME NEW c \in Calls, CloneSender(c) PROVE TypeOK'
  BY <1>2 DEF CloneSender, consumerVars, TypeOK, TaskStates
<1>3. ASSUME NEW c \in Calls, Send(c) PROVE TypeOK'
  <2>1. queue' \in Seq(Calls) /\ Len(queue') <= Capacity
    BY <1>3, PersistWorkerAssumption DEF Send, TypeOK
  <2>2. task' \in [Calls -> TaskStates]
    BY <1>0, <1>3 DEF Send, TaskStates
  <2>3. QED
    BY <1>3, <2>1, <2>2 DEF Send, consumerVars, TypeOK
<1>4. CASE TakeSender \/ CloseReturns
  BY <1>4 DEF TakeSender, CloseReturns, consumerVars, TypeOK
<1>5. CASE Receive
  <2>1. Head(queue) \in Calls /\ queue' \in Seq(Calls) /\ Len(queue') <= Capacity
    BY <1>5, PersistWorkerAssumption DEF Receive, TypeOK
  <2>2. task' \in [Calls -> TaskStates] /\ current' \in Calls /\ pc' \in Steps
    BY <1>0, <1>5, <2>1 DEF Receive, TaskStates, Steps
  <2>3. QED
    BY <1>5, <2>1, <2>2 DEF Receive, TypeOK
<1>6. CASE Exit
  BY <1>0, <1>6, ConsumerType DEF Exit
<1>7. CASE EnqueueJob
  <2>1. jobs' \in [Urls -> JobStates] /\ knownId' \in BOOLEAN
    BY <1>0, <1>7 DEF EnqueueJob, JobStates
  <2>2. pc' \in Steps /\ UNCHANGED <<task, senderOpen, queue, current, owner, embedded, closer>>
    BY <1>7 DEF EnqueueJob, Steps
  <2>3. QED
    BY <1>0, <2>1, <2>2, ConsumerType
<1>8. CASE MarkProcessing
  <2>1. jobs' \in [Urls -> JobStates]
    BY <1>8, MarkType DEF MarkProcessing, JobStates
  <2>2. /\ pc' \in Steps
        /\ UNCHANGED <<task, senderOpen, queue, current, knownId, owner, embedded, closer>>
    BY <1>8 DEF MarkProcessing, Steps
  <2>3. QED
    BY <1>0, <2>1, <2>2, ConsumerType
<1>9. CASE Gate
  BY <1>0, <1>9, ConsumerType DEF Gate, Steps
<1>10. CASE RecordContent
  <2>1. pc \in Steps
    BY <1>10 DEF RecordContent, Steps
  <2>2. Url \in Urls /\ Body \in Bodies
    BY <2>1, CurrentCall
  <2>3. owner' \in [Bodies -> Urls \cup {NoUrl}]
    BY <1>0, <1>10, <2>2 DEF RecordContent
  <2>4. /\ pc' \in Steps
        /\ UNCHANGED <<task, senderOpen, queue, current, knownId, jobs, embedded, closer>>
    BY <1>10 DEF RecordContent, Steps
  <2>5. QED
    BY <1>0, <2>3, <2>4, ConsumerType
<1>11. CASE Embed
  <2>1. pc \in Steps /\ Url \in Urls
    BY <1>11, CurrentCall DEF Embed, Steps
  <2>2. jobs' \in [Urls -> JobStates]
    BY <1>0, <1>11, MarkType DEF Embed, JobStates
  <2>3. embedded' \subseteq Urls
    BY <1>0, <1>11, <2>1 DEF Embed
  <2>4. /\ pc' \in Steps
        /\ UNCHANGED <<task, senderOpen, queue, current, knownId, owner, closer>>
    BY <1>11 DEF Embed, Steps
  <2>5. QED
    BY <1>0, <2>2, <2>3, <2>4, ConsumerType
<1>12. ASSUME NEW step, NEW status \in JobStates, End(step, status) PROVE TypeOK'
  <2>1. jobs' \in [Urls -> JobStates]
    BY <1>12, MarkType DEF End
  <2>2. task' \in [Calls -> TaskStates]
    BY <1>0, <1>12 DEF End, TaskStates
  <2>3. /\ pc' = "idle" /\ current' = NoCall /\ knownId' = FALSE
        /\ UNCHANGED <<senderOpen, queue, owner, embedded, closer>>
    BY <1>12 DEF End
  <2>4. QED
    BY <1>0, <2>1, <2>2, <2>3, ConsumerType
<1>13. CASE Finish \/ Fail
  BY <1>12, <1>13 DEF Finish, Fail, JobStates
<1>14. CASE UNCHANGED vars
  BY <1>14 DEF vars, TypeOK
<1>15. QED
  BY <1>1, <1>2, <1>3, <1>4, <1>5, <1>6, <1>7, <1>8, <1>9, <1>10, <1>11, <1>13,
     <1>14 DEF Next, Consumer, Terminated

\* A call that a clone is sent for joins the end of the buffer.
LEMMA SendAccounted ==
    ASSUME TypeOK, Accounted, NEW c \in Calls, Send(c)
    PROVE  Accounted'
<1> USE DEF TypeOK, Accounted, Send, consumerVars
<1>1. c # current /\ \A i \in 1..Len(queue) : queue[i] # c
  OBVIOUS
<1>2. /\ Len(queue') = Len(queue) + 1
      /\ \A i \in 1..Len(queue) : queue'[i] = queue[i]
      /\ queue'[Len(queue')] = c
      /\ Len(queue) \in Nat
  OBVIOUS
<1>3. \A i, j \in 1..Len(queue') : queue'[i] = queue'[j] => i = j
  BY <1>1, <1>2
<1>4. ASSUME NEW d \in Calls
      PROVE  task'[d] = "queued" <=> \E i \in 1..Len(queue') : queue'[i] = d
  <2>1. CASE d = c
    BY <1>2, <2>1
  <2>2. CASE d # c
    BY <1>2, <2>2
  <2>3. QED
    BY <2>1, <2>2
<1>5. QED
  BY <1>1, <1>3, <1>4

\* The call the consumer receives leaves the buffer, and the others stay.
LEMMA ReceiveAccounted ==
    ASSUME TypeOK, Accounted, Receive
    PROVE  Accounted'
<1> USE PersistWorkerAssumption DEF TypeOK, Accounted, Receive
<1> DEFINE c == Head(queue)
<1>1. /\ c \in Calls
      /\ c = queue[1]
      /\ Len(queue) \in Nat /\ 1 \in 1..Len(queue)
      /\ Len(queue') = Len(queue) - 1
      /\ \A i \in 1..Len(queue') : queue'[i] = queue[i + 1]
  OBVIOUS
<1>2. current = NoCall /\ pc \notin Steps
  BY DEF Steps
<1>3. \A i, j \in 1..Len(queue') : queue'[i] = queue'[j] => i = j
  BY <1>1
<1>4. ASSUME NEW d \in Calls
      PROVE  task'[d] = "queued" <=> \E i \in 1..Len(queue') : queue'[i] = d
  <2>1. CASE d = c
    <3>1. \A i \in 1..Len(queue') : i + 1 \in 1..Len(queue) /\ i + 1 # 1
      BY <1>1
    <3>2. QED
      BY <1>1, <2>1, <3>1
  <2>2. CASE d # c
    <3>1. task'[d] = task[d]
      BY <2>2
    <3>2. ASSUME NEW i \in 1..Len(queue), queue[i] = d
          PROVE  i - 1 \in 1..Len(queue') /\ queue'[i - 1] = d
      BY <1>1, <2>2, <3>2
    <3>3. ASSUME NEW i \in 1..Len(queue'), queue'[i] = d
          PROVE  i + 1 \in 1..Len(queue) /\ queue[i + 1] = d
      BY <1>1, <3>3
    <3>4. task[d] = "queued" <=> \E i \in 1..Len(queue) : queue[i] = d
      OBVIOUS
    <3> HIDE DEF TypeOK, Accounted, Receive
    <3>5. QED
      BY <3>1, <3>2, <3>3, <3>4
  <2>3. QED
    BY <2>1, <2>2
<1>5. \A d \in Calls : task'[d] = "running" <=> current' = d
  BY <1>1, <1>2
<1>6. pc' \in Steps <=> current' # NoCall
  BY <1>1 DEF Steps
<1>7. QED
  BY <1>3, <1>4, <1>5, <1>6

\* The books do not depend on anything but the calls, the buffer and the call in hand.
LEMMA AccountedKept ==
    ASSUME Accounted, UNCHANGED <<task, queue, current>>, pc' \in Steps <=> pc \in Steps
    PROVE  Accounted'
BY DEF Accounted

\* A call that is neither queued nor running changes hands before it is sent.
LEMMA ClientAccounted ==
    ASSUME TypeOK, Accounted, NEW c \in Calls, task[c] \in {"none", "spawned"},
           NEW s \in {"spawned", "sending", "refused"}, task' = [task EXCEPT ![c] = s],
           UNCHANGED <<queue, current, pc>>
    PROVE  Accounted'
<1>1. task \in [Calls -> TaskStates]
  BY DEF TypeOK
<1>2. \A d \in Calls : task'[d] = IF d = c THEN s ELSE task[d]
  BY <1>1
<1>3. \A d \in Calls : /\ task'[d] = "queued" <=> task[d] = "queued"
                     /\ task'[d] = "running" <=> task[d] = "running"
  BY <1>2
<1>4. QED
  BY <1>3 DEF Accounted

\* The last mark of a job ends the call in hand.
LEMMA EndAccounted ==
    ASSUME TypeOK, Accounted, NEW step \in Steps, NEW status, End(step, status)
    PROVE  Accounted'
<1>1. /\ pc \in Steps /\ pc' = "idle" /\ current' = NoCall /\ UNCHANGED queue
      /\ task' = [task EXCEPT ![current] = "handled"]
  BY DEF End
<1>2. pc' \notin Steps
  BY <1>1 DEF Steps
<1>3. current \in Calls /\ task[current] = "running"
  BY <1>1, CurrentCall DEF Accounted
<1>4. \A d \in Calls : task'[d] = IF d = current THEN "handled" ELSE task[d]
  BY <1>1 DEF TypeOK
<1>5. \A d \in Calls : task'[d] = "queued" <=> task[d] = "queued"
  BY <1>3, <1>4
<1>6. \A d \in Calls : task'[d] # "running" /\ current' # d
  BY <1>1, <1>4, PersistWorkerAssumption DEF Accounted
<1>7. QED
  BY <1>1, <1>2, <1>5, <1>6 DEF Accounted

LEMMA StepAccounted == TypeOK /\ Accounted /\ [Next]_vars => Accounted'
<1> SUFFICES ASSUME TypeOK, Accounted, [Next]_vars PROVE Accounted'
  OBVIOUS
<1>1. ASSUME NEW c \in Calls, Spawn(c) PROVE Accounted'
  <2>1. /\ task[c] = "none" /\ task' = [task EXCEPT ![c] = "spawned"]
        /\ UNCHANGED <<queue, current, pc>>
    BY <1>1 DEF Spawn, consumerVars
  <2>2. QED
    BY <2>1, ClientAccounted
<1>2. ASSUME NEW c \in Calls, CloneSender(c) PROVE Accounted'
  <2>1. /\ task[c] = "spawned"
        /\ task' = [task EXCEPT ![c] = IF senderOpen THEN "sending" ELSE "refused"]
        /\ UNCHANGED <<queue, current, pc>>
    BY <1>2 DEF CloneSender, consumerVars
  <2>2. QED
    BY <2>1, ClientAccounted
<1>3. ASSUME NEW c \in Calls, Send(c) PROVE Accounted'
  BY <1>3, SendAccounted
<1>4. CASE TakeSender \/ CloseReturns
  BY <1>4, AccountedKept DEF TakeSender, CloseReturns, consumerVars
<1>5. CASE Receive
  BY <1>5, ReceiveAccounted
<1>6. CASE Exit
  BY <1>6, AccountedKept DEF Exit, Steps
<1>7. CASE EnqueueJob \/ MarkProcessing
  BY <1>7, AccountedKept DEF EnqueueJob, MarkProcessing, Steps
<1>8. CASE Gate
  BY <1>8, AccountedKept DEF Gate, Steps
<1>9. CASE RecordContent
  BY <1>9, AccountedKept DEF RecordContent, Steps
<1>10. CASE Embed
  BY <1>10, AccountedKept DEF Embed, Steps
<1>11. CASE Finish \/ Fail
  BY <1>11, EndAccounted DEF Finish, Fail, Steps
<1>12. CASE UNCHANGED vars
  BY <1>12, AccountedKept DEF vars, consumerVars
<1>13. QED
  BY <1>1, <1>2, <1>3, <1>4, <1>5, <1>6, <1>7, <1>8, <1>9, <1>10, <1>11, <1>12
     DEF Next, Consumer, Terminated

\* No clone of the sender appears once close() has taken it.
LEMMA StepShutdown == ChannelInv /\ [Next]_vars => Shutdown'
<1> SUFFICES ASSUME TypeOK, Accounted, Shutdown, [Next]_vars PROVE Shutdown'
  BY DEF ChannelInv
<1> USE DEF TypeOK, Shutdown
<1>1. ASSUME NEW c \in Calls, Spawn(c) PROVE Shutdown'
  BY <1>1 DEF Spawn, consumerVars
<1>2. ASSUME NEW c \in Calls, CloneSender(c) PROVE Shutdown'
  BY <1>2 DEF CloneSender, consumerVars
<1>3. ASSUME NEW c \in Calls, Send(c) PROVE Shutdown'
  BY <1>3 DEF Send, consumerVars
<1>4. CASE TakeSender
  BY <1>4 DEF TakeSender, consumerVars
<1>5. CASE CloseReturns
  BY <1>5 DEF CloseReturns, consumerVars
<1>6. CASE Receive
  BY <1>6 DEF Receive
<1>7. CASE Exit
  BY <1>7 DEF Exit
<1>8. CASE EnqueueJob \/ MarkProcessing \/ Gate \/ RecordContent \/ Embed
  BY <1>8 DEF EnqueueJob, MarkProcessing, Gate, RecordContent, Embed
<1>9. CASE Finish \/ Fail
  BY <1>9 DEF Finish, Fail, End
<1>10. CASE UNCHANGED vars
  BY <1>10 DEF vars
<1>11. QED
  BY <1>1, <1>2, <1>3, <1>4, <1>5, <1>6, <1>7, <1>8, <1>9, <1>10
     DEF Next, Consumer, Terminated

\* TypeOK, Accounted and Shutdown hold together along every behaviour.
THEOREM ChannelIsInvariant == Spec => []ChannelInv
<1>1. ChannelInv /\ [Next]_vars => ChannelInv'
  BY StepType, StepAccounted, StepShutdown DEF ChannelInv
<1>2. QED
  BY InitChannel, <1>1, PTL DEF Spec

\* The state of the pipeline is always well-formed.
THEOREM TypeCorrect == Spec => []TypeOK
BY ChannelIsInvariant, PTL DEF ChannelInv

\* No call that was sent is dropped or taken twice (bg_worker.rs).
THEOREM AccountedAlways == Spec => []Accounted
BY ChannelIsInvariant, PTL DEF ChannelInv

\* close() returns only when the channel is drained (bg_worker.rs:69).
THEOREM CloseAlwaysDrains == Spec => []CloseDrains
<1>1. ChannelInv => CloseDrains
  <2> SUFFICES ASSUME ChannelInv, closer = "returned", NEW c \in Calls
               PROVE  task[c] \notin {"sending", "queued", "running"}
    BY DEF CloseDrains
  <2>1. pc = "exited" /\ queue = <<>> /\ task[c] # "sending"
    BY DEF ChannelInv, Shutdown
  <2>2. current = NoCall
    BY <2>1 DEF ChannelInv, Accounted, Steps
  <2>3. task[c] # "queued" /\ task[c] # "running"
    BY <2>1, <2>2, PersistWorkerAssumption DEF ChannelInv, Accounted
  <2>4. QED
    BY <2>1, <2>3
<1>2. QED
  BY ChannelIsInvariant, <1>1, PTL

-----------------------------------------------------------------------------
(* Job rows *)

\* The page of this call has been taken, and is thin or has its text stored.
Justified(c) ==
    /\ task[c] \in {"running", "handled"}
    /\ BodyOf[c] \in Thin \/ owner[BodyOf[c]] # NoUrl

LEMMA JustifiedStays ==
    ASSUME ChannelInv, [Next]_vars, NEW c \in Calls, Justified(c)
    PROVE  Justified(c)'
<1> USE PersistWorkerAssumption DEF ChannelInv, TypeOK, Justified
<1>1. ASSUME NEW d \in Calls, Spawn(d) \/ CloneSender(d) \/ Send(d)
      PROVE  Justified(c)'
  BY <1>1 DEF Spawn, CloneSender, Send, consumerVars
<1>2. CASE TakeSender \/ CloseReturns
  BY <1>2 DEF TakeSender, CloseReturns, consumerVars
<1>3. CASE Receive
  <2>1. Head(queue) \in Calls
    BY <1>3 DEF Receive
  <2>2. QED
    BY <1>3, <2>1 DEF Receive
<1>4. CASE Exit \/ EnqueueJob \/ MarkProcessing \/ Gate \/ Embed
  BY <1>4 DEF Exit, EnqueueJob, MarkProcessing, Gate, Embed
<1>5. CASE RecordContent
  <2>1. pc \in Steps
    BY <1>5 DEF RecordContent, Steps
  <2>2. Url \in Urls /\ Body \in Bodies
    BY <2>1, CurrentCall
  <2>3. QED
    BY <1>5, <2>2 DEF RecordContent
<1>6. CASE Finish \/ Fail
  BY <1>6 DEF Finish, Fail, End
<1>7. CASE UNCHANGED vars
  BY <1>7 DEF vars
<1>8. QED
  BY <1>1, <1>2, <1>3, <1>4, <1>5, <1>6, <1>7 DEF Next, Consumer, Terminated

LEMMA StepFinishJustified ==
    ChannelInv /\ FinishJustified /\ [Next]_vars => FinishJustified'
<1> SUFFICES ASSUME ChannelInv, FinishJustified, [Next]_vars
             PROVE  FinishJustified'
  OBVIOUS
<1> USE DEF FinishJustified, Body
<1>1. ASSUME NEW d \in Calls, Spawn(d) \/ CloneSender(d) \/ Send(d)
      PROVE  FinishJustified'
  BY <1>1 DEF Spawn, CloneSender, Send, consumerVars
<1>2. CASE TakeSender \/ CloseReturns \/ UNCHANGED vars
  BY <1>2 DEF TakeSender, CloseReturns, consumerVars, vars
<1>3. CASE Receive \/ Exit \/ EnqueueJob \/ MarkProcessing \/ Finish \/ Fail
  BY <1>3 DEF Receive, Exit, EnqueueJob, MarkProcessing, Finish, Fail, End
<1>4. CASE Gate
  BY <1>4 DEF Gate, FindDuplicate
<1>5. CASE RecordContent
  <2>1. pc \in Steps
    BY <1>5 DEF RecordContent, Steps
  <2>2. Url \in Urls /\ Body \in Bodies
    BY <2>1, CurrentCall DEF ChannelInv
  <2>3. QED
    BY <1>5, <2>2, PersistWorkerAssumption
       DEF RecordContent, ChannelInv, TypeOK
<1>6. CASE Embed
  BY <1>6 DEF Embed
<1>7. QED
  BY <1>1, <1>2, <1>3, <1>4, <1>5, <1>6 DEF Next, Consumer, Terminated

\* A row becomes done only at the end of a job that got past the gates or was
\* rejected there.
LEMMA StepDoneJustified ==
    ChannelInv /\ FinishJustified /\ DoneJustified /\ [Next]_vars => DoneJustified'
<1> SUFFICES ASSUME ChannelInv, FinishJustified, DoneJustified, [Next]_vars,
                    NEW u \in Urls, jobs'[u] = "done"
             PROVE  \E c \in Calls : UrlOf[c] = u /\ Justified(c)'
  BY DEF DoneJustified, Justified
<1>1. CASE jobs[u] = "done"
  <2>1. PICK c \in Calls : UrlOf[c] = u /\ Justified(c)
    BY <1>1 DEF DoneJustified, Justified
  <2>2. QED
    BY <2>1, JustifiedStays
<1>2. CASE jobs[u] # "done"
  <2>1. ~(\E c \in Calls : Spawn(c) \/ CloneSender(c) \/ Send(c))
    BY <1>2 DEF Spawn, CloneSender, Send, consumerVars
  <2>2. ~(TakeSender \/ CloseReturns \/ Receive \/ Exit \/ UNCHANGED vars)
    BY <1>2 DEF TakeSender, CloseReturns, Receive, Exit, consumerVars, vars
  <2>3. ~(Gate \/ RecordContent)
    BY <1>2 DEF Gate, RecordContent
  <2>4. ~(EnqueueJob \/ MarkProcessing \/ Embed \/ Fail)
    BY <1>2 DEF EnqueueJob, MarkProcessing, Embed, Fail, End, Mark, ChannelInv,
                TypeOK
  <2>5. Finish
    BY <2>1, <2>2, <2>3, <2>4 DEF Next, Consumer, Terminated
  <2>6. pc = "finish" /\ pc \in Steps
    BY <2>5 DEF Finish, End, Steps
  <2>7. current \in Calls /\ Url \in Urls
    BY <2>6, CurrentCall DEF ChannelInv
  <2>8. UrlOf[current] = u
    BY <1>2, <2>5, <2>7 DEF Finish, End, Mark, Url, ChannelInv, TypeOK
  <2>9. task'[current] = "handled" /\ owner' = owner
    BY <2>5, <2>7 DEF Finish, End, ChannelInv, TypeOK
  <2>10. BodyOf[current] \in Thin \/ owner[BodyOf[current]] # NoUrl
    BY <2>6 DEF FinishJustified, Body
  <2>11. QED
    BY <2>7, <2>8, <2>9, <2>10 DEF Justified
<1>3. QED
  BY <1>1, <1>2

\* While enqueueing works, a job past its first step knows its row.
LEMMA StepIdKnown == IdKnown /\ [Next]_vars => IdKnown'
<1> SUFFICES ASSUME IdKnown, [Next]_vars PROVE IdKnown'
  OBVIOUS
<1> USE DEF IdKnown, Steps, Url
<1>1. ASSUME NEW d \in Calls, Spawn(d) \/ CloneSender(d) \/ Send(d)
      PROVE  IdKnown'
  BY <1>1 DEF Spawn, CloneSender, Send, consumerVars
<1>2. CASE TakeSender \/ CloseReturns \/ UNCHANGED vars
  BY <1>2 DEF TakeSender, CloseReturns, consumerVars, vars
<1>3. CASE Receive \/ Exit \/ EnqueueJob \/ MarkProcessing \/ Finish \/ Fail
  BY <1>3 DEF Receive, Exit, EnqueueJob, MarkProcessing, Finish, Fail, End
<1>4. CASE Gate \/ RecordContent \/ Embed
  BY <1>4 DEF Gate, RecordContent, Embed
<1>5. QED
  BY <1>1, <1>2, <1>3, <1>4 DEF Next, Consumer, Terminated

\* The early returns of process_job() all mark the row.
LEMMA StepNoJobLeftOpen ==
    ChannelInv /\ IdKnown /\ NoJobLeftOpen /\ [Next]_vars => NoJobLeftOpen'
<1> SUFFICES ASSUME ChannelInv, IdKnown, NoJobLeftOpen, [Next]_vars, NEW c \in Calls,
                    "enqueue" \notin Faults[UrlOf[c]], "mark" \notin Faults[UrlOf[c]],
                    task'[c] = "handled",
                    (current # NoCall => Url # UrlOf[c])'
             PROVE  jobs'[UrlOf[c]] \in {"done", "failed"}
  BY DEF NoJobLeftOpen
<1> USE PersistWorkerAssumption DEF ChannelInv, TypeOK
<1> DEFINE Closed == jobs[UrlOf[c]] \in {"done", "failed"}
<1>0. task[c] = "handled" /\ (current # NoCall => Url # UrlOf[c]) => Closed
  <2>1. Faults[UrlOf[c]] \cap {"enqueue", "mark"} = {}
    OBVIOUS
  <2>2. QED
    BY <2>1 DEF NoJobLeftOpen
<1>1. ASSUME NEW d \in Calls, Spawn(d) \/ CloneSender(d) \/ Send(d)
      PROVE  jobs'[UrlOf[c]] \in {"done", "failed"}
  BY <1>0, <1>1 DEF Spawn, CloneSender, Send, consumerVars, Url
<1>2. CASE TakeSender \/ CloseReturns \/ UNCHANGED vars
  BY <1>0, <1>2 DEF TakeSender, CloseReturns, consumerVars, vars, Url
<1>3. CASE Receive
  <2>1. Head(queue) \in Calls /\ current = NoCall
    BY <1>3 DEF Receive, Accounted, Steps
  <2>2. QED
    BY <1>0, <1>3, <2>1 DEF Receive, Url
<1>4. CASE Exit \/ Gate \/ RecordContent
  BY <1>0, <1>4 DEF Exit, Gate, RecordContent, Url
<1>5. CASE EnqueueJob \/ MarkProcessing \/ Embed
  <2>1. pc \in Steps /\ current' = current /\ task' = task
    BY <1>5 DEF EnqueueJob, MarkProcessing, Embed, Steps
  <2>2. current \in Calls /\ Url \in Urls /\ current # NoCall
    BY <2>1, CurrentCall
  <2>3. Url # UrlOf[c]
    BY <2>1, <2>2 DEF Url
  <2>4. jobs'[UrlOf[c]] = jobs[UrlOf[c]]
    BY <1>5, <2>2, <2>3 DEF EnqueueJob, MarkProcessing, Embed, Mark
  <2>5. QED
    BY <1>0, <2>1, <2>3, <2>4
<1>6. CASE Finish \/ Fail
  <2>1. pc \in Steps \ {"enqueue"}
    BY <1>6 DEF Finish, Fail, End, Steps
  <2>2. current \in Calls /\ Url \in Urls
    BY <2>1, CurrentCall
  <2>3. CASE UrlOf[c] = Url
    <3>1. knownId
      BY <2>1, <2>3 DEF IdKnown
    <3>2. jobs' = [jobs EXCEPT ![Url] = "done"] \/ jobs' = [jobs EXCEPT ![Url] = "failed"]
      BY <1>6, <2>3, <3>1 DEF Finish, Fail, End, Mark
    <3>3. QED
      BY <2>2, <2>3, <3>2
  <2>4. CASE UrlOf[c] # Url
    <3>1. c # current
      BY <2>4 DEF Url
    <3>2. task[c] = "handled"
      BY <1>6, <2>2, <3>1 DEF Finish, Fail, End
    <3>3. jobs'[UrlOf[c]] = jobs[UrlOf[c]]
      BY <1>6, <2>2, <2>4 DEF Finish, Fail, End, Mark
    <3>4. QED
      BY <1>0, <2>2, <2>4, <3>2, <3>3
  <2>5. QED
    BY <2>3, <2>4
<1>7. QED
  BY <1>1, <1>2, <1>3, <1>4, <1>5, <1>6 DEF Next, Consumer, Terminated

LEMMA InitInv == Init => IInv
<1> SUFFICES ASSUME Init PROVE IInv
  OBVIOUS
<1>1. ChannelInv
  BY InitChannel
<1>2. FinishJustified /\ IdKnown
  BY DEF Init, FinishJustified, IdKnown, Steps
<1>3. DoneJustified /\ NoJobLeftOpen
  BY DEF Init, DoneJustified, NoJobLeftOpen
<1>4. QED
  BY <1>1, <1>2, <1>3 DEF IInv

\* The whole inductive invariant.
THEOREM InductiveInvariant == Spec => []IInv
<1>1. IInv /\ [Next]_vars => IInv'
  <2> SUFFICES ASSUME IInv, [Next]_vars PROVE IInv'
    OBVIOUS
  <2>1. ChannelInv'
    BY StepType, StepAccounted, StepShutdown DEF IInv, ChannelInv
  <2>2. FinishJustified' /\ DoneJustified'
    BY StepFinishJustified, StepDoneJustified DEF IInv
  <2>3. IdKnown' /\ NoJobLeftOpen'
    BY StepIdKnown, StepNoJobLeftOpen DEF IInv
  <2>4. QED
    BY <2>1, <2>2, <2>3 DEF IInv
<1>2. QED
  BY InitInv, <1>1, PTL DEF Spec

\* A row that says done is of a page that was stored or rejected as thin, even
\* when any of the store's and embedder's operations fail.
THEOREM DoneAlwaysJustified == Spec => []DoneJustified
BY InductiveInvariant, PTL DEF IInv

\* If enqueueing and marking work for a page, no other failure leaves its row
\* pending or processing.
THEOREM NoJobEverLeftOpen == Spec => []NoJobLeftOpen
BY InductiveInvariant, PTL DEF IInv

-----------------------------------------------------------------------------
(* A handled page is stored *)

LEMMA StepStored ==
    ChannelInv /\ FinishJustified /\ StoredInv /\ [Next]_vars => StoredInv'
<1> SUFFICES ASSUME ChannelInv, FinishJustified, StoredInv, [Next]_vars PROVE StoredInv'
  OBVIOUS
<1> USE PersistWorkerAssumption DEF ChannelInv, TypeOK, StoredInv, FailStored, HandledIsStored
<1>1. ASSUME NEW d \in Calls, Spawn(d) \/ CloneSender(d) \/ Send(d)
      PROVE  StoredInv'
  BY <1>1 DEF Spawn, CloneSender, Send, consumerVars, Url, Body
<1>2. CASE TakeSender \/ CloseReturns \/ UNCHANGED vars
  BY <1>2 DEF TakeSender, CloseReturns, consumerVars, vars, Url, Body
<1>3. CASE Receive
  <2>1. Head(queue) \in Calls /\ pc' = "enqueue"
    BY <1>3 DEF Receive
  <2>2. QED
    BY <1>3, <2>1 DEF Receive
<1>4. CASE Exit \/ EnqueueJob \/ MarkProcessing \/ Gate
  BY <1>4 DEF Exit, EnqueueJob, MarkProcessing, Gate, Url, Body
<1>5. CASE RecordContent
  <2>1. pc \in Steps
    BY <1>5 DEF RecordContent, Steps
  <2>2. current \in Calls /\ Url \in Urls /\ Body \in Bodies
    BY <2>1, CurrentCall DEF Body
  <2>3. \A b \in Bodies : owner[b] # NoUrl => owner'[b] # NoUrl
    BY <1>5, <2>2 DEF RecordContent
  <2>4. pc' = "fail" => "content" \in Faults[Url]
    BY <1>5 DEF RecordContent
  <2>5. UNCHANGED <<current, task>>
    BY <1>5 DEF RecordContent
  <2>6. QED
    BY <2>3, <2>4, <2>5 DEF Url, Body
<1>6. CASE Embed
  <2>1. Body \in Thin \/ owner[Body] # NoUrl
    BY <1>6 DEF Embed, FinishJustified
  <2>2. UNCHANGED <<current, task, owner>>
    BY <1>6 DEF Embed
  <2>3. QED
    BY <2>1, <2>2 DEF Url, Body
<1>7. CASE Finish \/ Fail
  <2>1. pc \in Steps
    BY <1>7 DEF Finish, Fail, End, Steps
  <2>2. current \in Calls
    BY <2>1, CurrentCall
  <2>3. "content" \notin Faults[Url] => Body \in Thin \/ owner[Body] # NoUrl
    BY <1>7 DEF Finish, Fail, End, FinishJustified
  <2>4. task' = [task EXCEPT ![current] = "handled"] /\ owner' = owner /\ pc' = "idle"
    BY <1>7 DEF Finish, Fail, End
  <2>5. QED
    BY <2>2, <2>3, <2>4 DEF Url, Body
<1>8. QED
  BY <1>1, <1>2, <1>3, <1>4, <1>5, <1>6, <1>7 DEF Next, Consumer, Terminated

\* While the store takes the texts of a page, its text is stored once it is handled,
\* unless it is thin, whatever else fails and whatever becomes of other pages.
THEOREM HandledAlwaysStored == Spec => []HandledIsStored
<1>1. Init => StoredInv
  BY DEF Init, StoredInv, FailStored, HandledIsStored
<1>2. QED
  BY <1>1, InductiveInvariant, StepStored, PTL DEF Spec, IInv, StoredInv

-----------------------------------------------------------------------------
(* The worker implements the service its callers see *)

Waiting == {c \in Calls : task[c] = "sending"}
Line == IF current = NoCall THEN queue ELSE <<current>> \o queue
Handled == {c \in Calls : task[c] = "handled"}

LEMMA FirstInLine ==
    ASSUME NEW S, NEW e \in S, NEW q \in Seq(S)
    PROVE  /\ <<e>> \o q \in Seq(S)
           /\ <<e>> \o q # <<>>
           /\ Head(<<e>> \o q) = e
           /\ Tail(<<e>> \o q) = q
OBVIOUS

LEMMA LastInLine ==
    ASSUME NEW S, NEW e \in S, NEW q \in Seq(S), NEW c \in S
    PROVE  <<e>> \o Append(q, c) = Append(<<e>> \o q, c)
OBVIOUS

\* Whoever is in line is queued or running.
LEMMA InLine ==
    ASSUME ChannelInv, NEW i \in 1..Len(Line)
    PROVE  Line[i] \in Calls /\ task[Line[i]] \in {"queued", "running"}
<1> USE PersistWorkerAssumption DEF ChannelInv, TypeOK, Accounted
<1>1. CASE current = NoCall
  BY <1>1 DEF Line
<1>2. CASE current # NoCall
  <2>1. current \in Calls /\ Line = <<current>> \o queue
    BY <1>2 DEF Line
  <2>2. /\ Len(Line) = Len(queue) + 1
        /\ Line[i] = IF i = 1 THEN current ELSE queue[i - 1]
    BY <2>1
  <2>3. i # 1 => i - 1 \in 1..Len(queue)
    BY <2>2
  <2> QED BY <2>1, <2>2, <2>3
<1> QED BY <1>1, <1>2

LEMMA InitImplements == Init => Service!Init
<1> SUFFICES ASSUME Init PROVE Service!Init
  OBVIOUS
<1>1. Waiting = {} /\ Handled = {} /\ Line = <<>>
  BY DEF Init, Waiting, Handled, Line
<1> QED BY <1>1 DEF Init, Service!Init, Waiting, Handled, Line

\* Every step is a step of the service or leaves what its callers see as it is.
LEMMA StepImplements ==
    ASSUME ChannelInv, [Next]_vars
    PROVE  [Service!Next]_Service!vars
<1> USE PersistWorkerAssumption
<1>0. /\ task \in [Calls -> TaskStates] /\ queue \in Seq(Calls)
      /\ current \in Calls \cup {NoCall}
  BY DEF ChannelInv, TypeOK
<1>1. ASSUME Waiting' = Waiting, Line' = Line, Handled' = Handled,
             closer' = closer
      PROVE  [Service!Next]_Service!vars
  BY <1>1 DEF Service!vars, Waiting, Line, Handled
<1>2. ASSUME NEW c \in Calls, Spawn(c) PROVE [Service!Next]_Service!vars
  <2>1. Waiting' = Waiting /\ Handled' = Handled
    BY <1>0, <1>2 DEF Spawn, Waiting, Handled
  <2> QED BY <1>1, <1>2, <2>1 DEF Spawn, consumerVars, Line
<1>3. ASSUME NEW c \in Calls, CloneSender(c) PROVE [Service!Next]_Service!vars
  <2>1. CASE senderOpen
    <3>1. closer = "crawling"
      BY <2>1 DEF ChannelInv, Shutdown
    <3>2. c \notin Waiting \cup Handled
      BY <1>3 DEF CloneSender, Waiting, Handled
    <3>3. \A i \in 1..Len(Line) : Line[i] # c
      BY <1>3, InLine DEF CloneSender
    <3>4. Waiting' = Waiting \cup {c} /\ Handled' = Handled
      BY <1>0, <1>3, <2>1 DEF CloneSender, Waiting, Handled
    <3>5. Line' = Line /\ closer' = closer
      BY <1>3 DEF CloneSender, consumerVars, Line
    <3>6. Service!Accept(c)
      BY <3>1, <3>2, <3>3, <3>4, <3>5 DEF Service!Accept, Waiting, Line, Handled
    <3> QED BY <3>6 DEF Service!Next
  <2>2. CASE ~senderOpen
    <3>1. Waiting' = Waiting /\ Handled' = Handled
      BY <1>0, <1>3, <2>2 DEF CloneSender, Waiting, Handled
    <3> QED BY <1>1, <1>3, <3>1 DEF CloneSender, consumerVars, Line
  <2> QED BY <2>1, <2>2 DEF ChannelInv, TypeOK
<1>4. ASSUME NEW c \in Calls, Send(c) PROVE [Service!Next]_Service!vars
  <2>1. c \in Waiting
    BY <1>4 DEF Send, Waiting
  <2>2. Waiting' = Waiting \ {c} /\ Handled' = Handled
    BY <1>0, <1>4 DEF Send, Waiting, Handled
  <2>3. queue' = Append(queue, c) /\ current' = current /\ closer' = closer
    BY <1>4 DEF Send, consumerVars
  <2>4. Line' = Append(Line, c)
    <3>1. queue \in Seq(Calls) /\ current \in Calls \cup {NoCall}
      BY DEF ChannelInv, TypeOK
    <3>2. QED
      BY <2>3, <3>1, LastInLine DEF Line
  <2>5. Service!Enter(c)
    BY <2>1, <2>2, <2>3, <2>4 DEF Service!Enter, Waiting, Line, Handled
  <2> QED BY <2>5 DEF Service!Next
<1>5. CASE TakeSender
  <2>1. UNCHANGED <<task, queue, current>>
    BY <1>5 DEF TakeSender, consumerVars
  <2>2. Service!Close
    BY <1>5, <2>1 DEF TakeSender, Service!Close
  <2> QED BY <2>2 DEF Service!Next
<1>6. CASE CloseReturns
  <2>1. UNCHANGED <<task, queue, current>>
    BY <1>6 DEF CloseReturns, consumerVars
  <2>2. queue = <<>> /\ current = NoCall /\ Waiting = {}
    BY <1>6 DEF CloseReturns, ChannelInv, Shutdown, Accounted, Steps, Waiting
  <2>3. Service!Return
    BY <1>6, <2>1, <2>2 DEF CloseReturns, Service!Return, Waiting
  <2> QED BY <2>3 DEF Service!Next
<1>7. CASE Receive
  <2> DEFINE c == Head(queue)
  <2>1. c \in Calls /\ current = NoCall /\ task[c] = "queued"
    <3>1. c = queue[1] /\ 1 \in 1..Len(queue) /\ c \in Calls
      BY <1>0, <1>7 DEF Receive
    <3>2. current = NoCall
      BY <1>7 DEF Receive, ChannelInv, Accounted, Steps
    <3> QED BY <3>1, <3>2 DEF ChannelInv, Accounted
  <2>2. Waiting' = Waiting /\ Handled' = Handled
    BY <1>0, <1>7, <2>1 DEF Receive, Waiting, Handled
  <2>3. current' = c /\ queue' = Tail(queue) /\ queue # <<>> /\ closer' = closer
    BY <1>7 DEF Receive
  <2>4. queue = <<c>> \o Tail(queue)
    BY <1>0, <2>3
  <2>5. Line' = Line
    BY <2>1, <2>3, <2>4 DEF Line
  <2> QED BY <1>1, <2>2, <2>3, <2>5
<1>8. CASE Exit \/ EnqueueJob \/ MarkProcessing \/ Gate \/ RecordContent \/ Embed
           \/ UNCHANGED vars
  <2>1. UNCHANGED <<task, queue, current, closer>>
    BY <1>8 DEF Exit, EnqueueJob, MarkProcessing, Gate, RecordContent, Embed, vars
  <2> QED BY <1>1, <2>1 DEF Waiting, Line, Handled
<1>9. CASE Finish \/ Fail
  <2>1. /\ pc \in Steps /\ current' = NoCall
        /\ task' = [task EXCEPT ![current] = "handled"]
        /\ UNCHANGED <<queue, closer>>
    BY <1>9 DEF Finish, Fail, End, Steps
  <2>2. current \in Calls /\ task[current] = "running" /\ current # NoCall
    BY <2>1 DEF ChannelInv, Accounted, TypeOK
  <2>3. Waiting' = Waiting /\ Handled' = Handled \cup {current}
    BY <1>0, <2>1, <2>2 DEF Waiting, Handled
  <2>4. Line # <<>> /\ Head(Line) = current /\ Tail(Line) = queue
    BY <1>0, <2>2, FirstInLine DEF Line
  <2>5. Line' = Tail(Line)
    BY <2>1, <2>4 DEF Line
  <2>6. Service!Process
    BY <2>1, <2>3, <2>4, <2>5 DEF Service!Process, Waiting, Line, Handled
  <2> QED BY <2>6 DEF Service!Next
<1> QED BY <1>2, <1>3, <1>4, <1>5, <1>6, <1>7, <1>8, <1>9
        DEF Next, Consumer, Terminated

\* The worker promises what PersistService says, for any pages, any capacity of
\* the channel and any faults (BackgroundWorker of bg_worker.rs).
THEOREM WorkerImplementsService == Spec => ImplementsService
<1>1. Init => Service!Init
  BY InitImplements
<1>2. ChannelInv /\ [Next]_vars => [Service!Next]_Service!vars
  BY StepImplements
<1> QED BY <1>1, <1>2, ChannelIsInvariant, PTL
        DEF Spec, ImplementsService, Service!Spec
=============================================================================
