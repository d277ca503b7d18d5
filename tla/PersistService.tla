---------------------------- MODULE PersistService ----------------------------
(***************************************************************************)
(* What the background worker promises the crawl (engine/bg_worker.rs): a  *)
(* page whose persist() was let in is processed exactly once, pages are    *)
(* processed in the order in which they got into the channel, and close()  *)
(* lets nobody else in and returns when every page let in is processed.    *)
(***************************************************************************)
EXTENDS Naturals, Sequences

CONSTANT Calls

VARIABLES
    waiting,    \* calls that were let in and are not in line yet
    line,       \* the pages in line, the one being processed first
    handled,    \* the pages that were processed
    status      \* of the crawl, then of close()

vars == <<waiting, line, handled, status>>

Init ==
    /\ waiting = {}
    /\ line = <<>>
    /\ handled = {}
    /\ status = "crawling"

Accept(c) ==
    /\ status = "crawling"
    /\ c \notin waiting \cup handled
    /\ \A i \in 1..Len(line) : line[i] # c
    /\ waiting' = waiting \cup {c}
    /\ UNCHANGED <<line, handled, status>>

Enter(c) ==
    /\ c \in waiting
    /\ waiting' = waiting \ {c}
    /\ line' = Append(line, c)
    /\ UNCHANGED <<handled, status>>

Process ==
    /\ line # <<>>
    /\ line' = Tail(line)
    /\ handled' = handled \cup {Head(line)}
    /\ UNCHANGED <<waiting, status>>

Close ==
    /\ status = "crawling"
    /\ status' = "closing"
    /\ UNCHANGED <<waiting, line, handled>>

Return ==
    /\ status = "closing"
    /\ waiting = {} /\ line = <<>>
    /\ status' = "returned"
    /\ UNCHANGED <<waiting, line, handled>>

Next ==
    \/ \E c \in Calls : Accept(c) \/ Enter(c)
    \/ Process \/ Close \/ Return

Spec == Init /\ [][Next]_vars
=============================================================================
