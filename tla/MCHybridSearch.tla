---------------------------- MODULE MCHybridSearch ----------------------------
(* A page, under two spellings or one, and another page; two texts, both of   *)
(* which the first query matches.                                             *)
EXTENDS HybridSearch, TLC

CONSTANTS guide, guideUtm, other, t1, t2, q1, q2, blank

MCRequests == {<<q1>>, <<q2, blank, q1, q2>>}
MCMatching == [q \in Queries |-> IF q = q1 THEN Texts ELSE Texts \ {t1}]
MCRelevance == [q \in Queries |-> [t \in Texts |-> IF (q = q1) = (t = t1) THEN 2 ELSE 1]]
MCRowid == [t \in Texts |-> IF t = t1 THEN 1 ELSE 2]

Near == q1 :> (guide :> 3 @@ guideUtm :> 2 @@ other :> 1)
     @@ q2 :> (guide :> 1 @@ guideUtm :> 2 @@ other :> 3)
MCNearness == [q \in Queries |-> [u \in Urls |-> Near[q][u]]]
MCAuthority == [u \in Urls |-> IF u = other THEN 30 ELSE IF u = guide THEN 5 ELSE 1]
MCRecency == [u \in Urls |-> IF u = other THEN 2 ELSE IF u = guide THEN 1 ELSE 3]
MCCanon == [u \in Urls |-> IF u = guideUtm THEN guide ELSE u]
MCBefore == [u \in Urls |-> IF u = other THEN 3 ELSE IF u = guide THEN 1 ELSE 2]

\* With both texts stored, which is for the fusion of answers, the crawl is at rest, the
\* index was right and versions are read as they are; one text takes all the rest.
VersionsRead == {seen[q] : q \in Queries} \cup {lists[q].stamp : q \in Queries} \cup {rankVersion}
Focus == content[t1] = NoUrl \/ (version = 2 /\ intact /\ 1 \notin VersionsRead)
=============================================================================
