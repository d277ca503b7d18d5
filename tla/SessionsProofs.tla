----------------------------- MODULE SessionsProofs -----------------------------
(***************************************************************************)
(* The pace of a crawl's requests and the sessions they are made under     *)
(* (DomainSessions), for any domains, delays and bounds; and the proxies   *)
(* and identities of the rotating client (HumanClient), for any tasks,     *)
(* proxies, addresses, and hashes of the domains.                          *)
(***************************************************************************)
EXTENDS DomainSessions, HumanClient, FiniteSetTheorems, SequenceTheorems,
        WellFoundedInduction, TLAPS

\* What is past: requests, and the births of sessions.
PastInv ==
    /\ \A d \in Domains : \A t \in last[d] : t <= now
    /\ \A d \in Domains : \A s \in session[d] : s.born <= now
    /\ \A d \in Domains : until[d] <= now + MaxBackoff
    /\ pc = "fetch" => used # <<>>

\* The task sleeps as long as the domain asks for.
SleepInv ==
    pc = "wait" =>
        /\ wake >= until[dom]
        /\ \A t \in last[dom] : wake >= t + Required(dom) \/ until[dom] > t

\* A request in flight is the last one, made under the session of its domain.
InFlight ==
    pc = "fetch" =>
        /\ used # <<>>
        /\ \E s \in session[dom] :
              /\ s.id = used[Len(used)]
              /\ s.requests < MaxRequests
              /\ \A t \in last[dom] : t < s.born + MaxAge

\* Sessions are numbered: none has the number of another, or one above the last.
NumbersInv ==
    /\ \A i \in DOMAIN used : used[i] <= sessions
    /\ \A d \in Domains : \A s \in session[d] : s.id <= sessions
    /\ \A d, e \in Domains : \A s \in session[d], t \in session[e] : s.id = t.id => d = e

\* A session that may be used again has failed no request and counts all of them.
CountInv ==
    \A d \in Domains : \A s \in session[d] :
        /\ s.id \notin burned
        /\ Cardinality(Uses(used, s.id)) =
              s.requests + IF pc = "fetch" /\ d = dom THEN 1 ELSE 0
        /\ s.requests <= MaxRequests

BurnedUsed == \A id \in burned : id <= sessions

IdentityInv == InFlight /\ NumbersInv /\ CountInv /\ BurnedUsed

-----------------------------------------------------------------------------
(* Operators *)

LEMMA LeastMost ==
    ASSUME NEW a \in Nat, NEW b \in Nat
    PROVE  /\ Least(a, b) \in Nat /\ Least(a, b) <= a /\ Least(a, b) <= b
           /\ Most(a, b) \in Nat /\ Most(a, b) >= a /\ Most(a, b) >= b
           /\ Most(a, b) = a \/ Most(a, b) = b
           /\ Least(a, b) = a \/ Least(a, b) = b
BY DEF Least, Most

LEMMA RequiredNat == ASSUME NEW d \in Domains PROVE Required(d) \in Nat
BY DomainSessionsAssumption, LeastMost DEF DomainSessionsAssumption, Required

\* A back-off is a number of seconds up to the cap, whatever the excess of failures.
LEMMA BackoffCapped ==
    ASSUME NEW n \in Nat
    PROVE  Backoff(n) \in Nat /\ Backoff(n) <= MaxBackoff
<1>1. Least(n, MaxExponent) \in 0..MaxExponent
  BY DomainSessionsAssumption, LeastMost DEF DomainSessionsAssumption
<1>2. 2 ^ Least(n, MaxExponent) \in Nat
  BY <1>1, DomainSessionsAssumption DEF DomainSessionsAssumption
<1>3. QED
  BY <1>2, DomainSessionsAssumption, LeastMost DEF DomainSessionsAssumption, Backoff

\* The slot of a domain is neither before its back-off nor before its required delay,
\* nor later than both ask for.
LEMMA SlotFits ==
    ASSUME TypeOK, PastInv, NEW d \in Domains
    PROVE  /\ Slot(d) \in Nat
           /\ Slot(d) >= until[d]
           /\ \A t \in last[d] : Slot(d) >= t + Required(d) \/ until[d] > t
           /\ Slot(d) <= now + Most(MaxBackoff, Required(d))
<1> DEFINE R == Required(d)
<1>1. R \in Nat /\ now \in Nat /\ until[d] \in Nat /\ MaxBackoff \in Nat
  BY RequiredNat, DomainSessionsAssumption DEF TypeOK, DomainSessionsAssumption
<1>2. /\ Most(MaxBackoff, R) \in Nat
      /\ Most(MaxBackoff, R) >= MaxBackoff /\ Most(MaxBackoff, R) >= R
  BY <1>1, LeastMost
<1>3. \A t \in last[d] : t \in Nat /\ t <= now
  BY DEF TypeOK, PastInv
<1>4. until[d] <= now + MaxBackoff
  BY DEF PastInv
<1>5. CASE until[d] > now
  <2>1. Slot(d) = until[d]
    BY <1>5 DEF Slot
  <2>2. until[d] <= now + Most(MaxBackoff, R)
    BY <1>1, <1>2, <1>4
  <2>3. \A t \in last[d] : until[d] > t
    BY <1>1, <1>3, <1>5
  <2>4. QED
    BY <2>1, <2>2, <2>3, <1>1
<1>6. CASE ~(until[d] > now) /\ last[d] = {}
  <2>1. Slot(d) = now
    BY <1>6 DEF Slot
  <2>2. until[d] <= now /\ now <= now + Most(MaxBackoff, R)
    BY <1>1, <1>2, <1>6
  <2>3. QED
    BY <2>1, <2>2, <1>1, <1>6
<1>7. CASE ~(until[d] > now) /\ last[d] # {}
  <2>1. PICK t : t \in last[d]
    BY <1>7
  <2>2. last[d] = {t}
    <3>1. \A u, v \in last[d] : u = v
      BY DEF TypeOK
    <3>2. QED
      BY <2>1, <3>1
  <2>3. (CHOOSE x \in last[d] : TRUE) = t
    BY <2>2
  <2>4. Slot(d) = Most(now, t + R)
    BY <1>7, <2>3 DEF Slot
  <2>5. t \in Nat /\ t <= now /\ t + R \in Nat
    BY <1>1, <1>3, <2>1
  <2>6. /\ Slot(d) \in Nat /\ Slot(d) >= now /\ Slot(d) >= t + R
        /\ Slot(d) = now \/ Slot(d) = t + R
    BY <2>4, <2>5, <1>1, LeastMost
  <2>7. Slot(d) >= until[d] /\ Slot(d) <= now + Most(MaxBackoff, R)
    BY <2>5, <2>6, <1>1, <1>2, <1>7
  <2>8. QED
    BY <2>2, <2>6, <2>7
<1>8. QED
  BY <1>5, <1>6, <1>7

\* One more request is one more use of its session, and of no other.
LEMMA OneMoreUse ==
    ASSUME NEW ids \in Seq(Nat), NEW id \in Nat
    PROVE  /\ Cardinality(Uses(ids, id)) \in Nat
           /\ Cardinality(Uses(Append(ids, id), id)) = Cardinality(Uses(ids, id)) + 1
           /\ \A other \in Nat \ {id} : Uses(Append(ids, id), other) = Uses(ids, other)
<1> DEFINE n == Len(ids)
<1>1. n \in Nat /\ DOMAIN ids = 1..n /\ DOMAIN Append(ids, id) = 1..(n + 1)
  OBVIOUS
<1>2. /\ \A i \in 1..n : Append(ids, id)[i] = ids[i]
      /\ Append(ids, id)[n + 1] = id
  OBVIOUS
<1>3. IsFiniteSet(Uses(ids, id))
  <2>1. IsFiniteSet(1..n)
    BY <1>1, FS_Interval
  <2>2. Uses(ids, id) \subseteq 1..n
    BY <1>1 DEF Uses
  <2>3. QED
    BY <2>1, <2>2, FS_Subset
<1>4. Uses(Append(ids, id), id) = Uses(ids, id) \cup {n + 1} /\ n + 1 \notin Uses(ids, id)
  BY <1>1, <1>2 DEF Uses
<1>5. Cardinality(Uses(ids, id)) \in Nat
  BY <1>3, FS_CardinalityType
<1>6. Cardinality(Uses(ids, id) \cup {n + 1}) = Cardinality(Uses(ids, id)) + 1
  BY <1>3, <1>4, FS_AddElement
<1>7. ASSUME NEW other \in Nat \ {id} PROVE Uses(Append(ids, id), other) = Uses(ids, other)
  BY <1>1, <1>2 DEF Uses
<1>8. QED
  BY <1>4, <1>5, <1>6, <1>7

\* A session whose number was never used has no uses.
LEMMA NoUses ==
    ASSUME NEW ids, NEW id, \A i \in DOMAIN ids : ids[i] # id
    PROVE  Cardinality(Uses(ids, id)) = 0
<1>1. Uses(ids, id) = {}
  BY DEF Uses
<1>2. QED
  BY <1>1, FS_EmptySet

\* A session that is counted stays the session it was.
LEMMA CountedSession ==
    ASSUME NEW x \in Session, NEW ok \in BOOLEAN
    PROVE  /\ Counted(x, ok) \in Session
           /\ Counted(x, ok).id = x.id /\ Counted(x, ok).born = x.born
           /\ Counted(x, ok).requests = x.requests + 1
<1> DEFINE r == x.requests + 1
           m == IF ok THEN 0 ELSE x.failures + 1
<1>1. r \in Nat /\ m \in Nat
  BY DEF Session
<1>2. Counted(x, ok) = [x EXCEPT !.requests = r, !.failures = m]
  BY DEF Counted
<1> HIDE DEF r, m
<1>3. [x EXCEPT !.requests = r, !.failures = m] \in Session
  BY <1>1 DEF Session
<1>4. /\ [x EXCEPT !.requests = r, !.failures = m].id = x.id
      /\ [x EXCEPT !.requests = r, !.failures = m].born = x.born
      /\ [x EXCEPT !.requests = r, !.failures = m].requests = r
  BY DEF Session
<1>5. QED
  BY <1>2, <1>3, <1>4 DEF r

-----------------------------------------------------------------------------
(* Types and times *)

LEMMA InitTimes == Init => TypeOK /\ PastInv /\ SleepInv
BY DomainSessionsAssumption
DEF DomainSessionsAssumption, Init, TypeOK, PastInv, SleepInv

\* Enough for an answer to keep what is past in the past.
LEMMA PastStep ==
    ASSUME PastInv, pc' = "pick", UNCHANGED <<now, last>>,
           \A d \in Domains : \A s \in session'[d] : s.born <= now,
           \/ UNCHANGED until
           \/ \A d \in Domains : until'[d] <= now + MaxBackoff
    PROVE  PastInv'
BY DEF PastInv

LEMMA TimesKept ==
    ASSUME TypeOK, PastInv, [Next]_vars
    PROVE  TypeOK' /\ PastInv'
<1> USE DEF taskVars, siteVars, history
<1>1. /\ now \in Nat /\ sessions \in Nat /\ MaxBackoff \in Nat
      /\ until \in [Domains -> Nat] /\ session \in [Domains -> SUBSET Session]
  BY DomainSessionsAssumption DEF TypeOK, DomainSessionsAssumption
<1>2. CASE Tick
  <2>1. /\ now' \in Nat /\ now <= now'
        /\ UNCHANGED <<dom, wake, last, until, succeeded, failed, session, sessions,
                       fingerprint, used, burned, exposed>>
        /\ pc' \in {"pick", "wait", "fetch"}
    BY <1>2, <1>1 DEF Tick, TypeOK
  <2>2. TypeOK'
    BY <2>1 DEF TypeOK
  <2>3. \A n \in Nat : n <= now => n <= now'
    BY <2>1, <1>1
  <2>4. PastInv'
    <3>1. \A d \in Domains : \A t \in last'[d] : t <= now'
      <4>1. \A d \in Domains : \A t \in last[d] : t \in Nat /\ t <= now
        BY DEF TypeOK, PastInv
      <4>2. QED
        BY ONLY <2>1, <2>3, <4>1
    <3>2. \A d \in Domains : \A s \in session'[d] : s.born <= now'
      <4>1. \A d \in Domains : \A s \in session[d] : s.born \in Nat /\ s.born <= now
        BY DEF TypeOK, PastInv, Session
      <4>2. QED
        BY ONLY <2>1, <2>3, <4>1
    <3>3. \A d \in Domains : until'[d] <= now' + MaxBackoff
      <4>1. \A d \in Domains : until[d] \in Nat /\ until[d] <= now + MaxBackoff
        BY <1>1 DEF PastInv
      <4>2. QED
        BY ONLY <2>1, <1>1, <4>1
    <3>4. pc' = "fetch" => used' # <<>>
      BY <1>2, <2>1 DEF Tick, PastInv
    <3>5. QED
      BY <3>1, <3>2, <3>3, <3>4 DEF PastInv
  <2>5. QED
    BY <2>2, <2>4
<1>3. CASE Request
  <2>1. PICK s \in IF Live(dom) # {} THEN Live(dom)
                    ELSE {NewSession(f) : f \in FingerprintFor(dom)} :
            /\ session' = [session EXCEPT ![dom] = {s}]
            /\ fingerprint' = [fingerprint EXCEPT ![dom] = {s.fingerprint}]
            /\ used' = Append(used, s.id)
    BY <1>3 DEF Request
  <2>2. s \in Session /\ s.born <= now
    <3>1. ASSUME NEW f \in FingerprintFor(dom), s = NewSession(f)
          PROVE  s \in Session /\ s.born <= now
      <4>1. f \in Fingerprints
        BY DEF TypeOK, FingerprintFor
      <4>2. QED
        BY <3>1, <4>1, <1>1 DEF NewSession, Session
    <3>2. CASE s \in Live(dom)
      BY <3>2 DEF Live, TypeOK, PastInv
    <3>3. QED
      BY <2>1, <3>1, <3>2
  <2>3. /\ last' = [last EXCEPT ![dom] = {now}]
        /\ sessions' \in Nat /\ pc' = "fetch" /\ s.id \in Nat \ {0}
        /\ s.fingerprint \in Fingerprints
        /\ UNCHANGED <<now, dom, wake, until, succeeded, failed, burned, exposed>>
    BY <1>3, <1>1, <2>2 DEF Request, Session
  <2>4. TypeOK'
    BY <2>1, <2>2, <2>3 DEF TypeOK
  <2>5. PastInv'
    <3>1. \A d \in Domains : session'[d] = IF d = dom THEN {s} ELSE session[d]
      BY <2>1, <1>1
    <3>2. \A d \in Domains : last'[d] = IF d = dom THEN {now} ELSE last[d]
      BY <2>3 DEF TypeOK
    <3>3. used' # <<>>
      BY <2>1, <2>2 DEF TypeOK, Session
    <3>4. QED
      BY <2>2, <2>3, <3>1, <3>2, <3>3, <1>1 DEF PastInv
  <2>6. QED
    BY <2>4, <2>5
<1>4. ASSUME NEW ok \in BOOLEAN, Answer(ok)
      PROVE  /\ session' \in [Domains -> SUBSET Session] /\ sessions' \in Nat
             /\ \A d \in Domains : \A s, t \in session'[d] : s = t
             /\ \A d \in Domains : \A s \in session'[d] : s.born <= now
             /\ fingerprint' \in [Domains -> SUBSET Fingerprints]
             /\ pc' = "pick" /\ UNCHANGED <<now, dom, wake, last, used>>
  <2>1. PICK x \in session[dom], f \in FingerprintFor(dom) :
            /\ session' = [session EXCEPT ![dom] =
                              {IF Retired(Counted(x, ok), ok) THEN NewSession(f)
                               ELSE Counted(x, ok)}]
            /\ fingerprint' = [fingerprint EXCEPT ![dom] = {f}]
            /\ sessions' = IF Retired(Counted(x, ok), ok) THEN sessions + 1 ELSE sessions
    BY <1>4 DEF Answer
  <2>2. x \in Session /\ x.born <= now /\ dom \in Domains /\ f \in Fingerprints
    BY DEF TypeOK, PastInv, FingerprintFor
  <2>3. Counted(x, ok) \in Session /\ Counted(x, ok).born = x.born
    BY <2>2, CountedSession
  <2>4. NewSession(f) \in Session /\ NewSession(f).born = now
    BY <2>2, <1>1 DEF NewSession, Session
  <2>5. PICK s : s \in Session /\ s.born <= now /\ session' = [session EXCEPT ![dom] = {s}]
    <3>1. CASE Retired(Counted(x, ok), ok)
      <4>1. session' = [session EXCEPT ![dom] = {NewSession(f)}]
        BY <2>1, <3>1, Zenon
      <4>2. NewSession(f).born <= now
        BY <2>4, <1>1
      <4>3. QED
        BY <2>4, <4>1, <4>2
    <3>2. CASE ~Retired(Counted(x, ok), ok)
      BY <2>1, <2>2, <2>3, <3>2
    <3>3. QED
      BY <3>1, <3>2
  <2>6. \A d \in Domains : session'[d] = IF d = dom THEN {s} ELSE session[d]
    BY <2>5, <1>1
  <2>7. session' \in [Domains -> SUBSET Session]
    BY <2>2, <2>5, <1>1
  <2>8. \A d \in Domains : \A r, t \in session'[d] : r = t
    <3>1. \A d \in Domains : \A r, t \in session[d] : r = t
      BY DEF TypeOK
    <3>2. QED
      BY ONLY <2>6, <3>1
  <2>9. \A d \in Domains : \A r \in session'[d] : r.born <= now
    BY <2>5, <2>6 DEF PastInv
  <2>10. sessions' \in Nat /\ pc' = "pick" /\ UNCHANGED <<now, dom, wake, last, used>>
    BY <2>1, <1>1, <1>4 DEF Answer
  <2>11. fingerprint' \in [Domains -> SUBSET Fingerprints]
    BY <2>1, <2>2 DEF TypeOK
  <2>12. QED
    BY <2>7, <2>8, <2>9, <2>10, <2>11
<1>5. CASE Succeed
  <2>1. Answer(TRUE) /\ succeeded' = [succeeded EXCEPT ![dom] = @ + 1]
        /\ UNCHANGED <<until, failed, burned, exposed>>
    BY <1>5 DEF Succeed
  <2>2. succeeded' \in [Domains -> Nat]
    BY <2>1 DEF TypeOK
  <2>3. TypeOK'
    BY <1>4, <2>1, <2>2 DEF TypeOK
  <2>4. PastInv'
    BY <1>4, <2>1, <1>1, PastStep
  <2>5. QED
    BY <2>3, <2>4
<1>6. CASE Fail
  <2>1. /\ Answer(FALSE) /\ failed' = [failed EXCEPT ![dom] = @ + 1]
        /\ burned' = burned \cup {used[Len(used)]}
        /\ exposed' = exposed \cup fingerprint[dom]
        /\ UNCHANGED succeeded
    BY <1>6 DEF Fail
  <2>2. Excess(dom) \in Nat
    <3>1. /\ dom \in Domains /\ failed[dom] \in Nat /\ succeeded[dom] \in Nat
          /\ failed'[dom] = failed[dom] + 1
      BY <2>1 DEF TypeOK
    <3>2. QED
      BY <3>1 DEF Excess
  <2>3. Backoff(Excess(dom)) \in Nat /\ Backoff(Excess(dom)) <= MaxBackoff
    BY <2>2, BackoffCapped
  <2>4. /\ until' \in [Domains -> Nat]
        /\ \A d \in Domains : until'[d] <= now + MaxBackoff
    <3>1. CASE Deep
      BY <1>6, <3>1 DEF Fail, PastInv, TypeOK
    <3>2. CASE ~Deep
      <4>1. until' = [until EXCEPT ![dom] = now + Backoff(Excess(dom))]
        BY <1>6, <3>2 DEF Fail
      <4>2. now + Backoff(Excess(dom)) \in Nat
            /\ now + Backoff(Excess(dom)) <= now + MaxBackoff
        BY <1>1, <2>3
      <4>3. QED
        BY <1>1, <4>1, <4>2 DEF PastInv
    <3>3. QED
      BY <3>1, <3>2
  <2>5. burned' \subseteq Nat \ {0}
    <3>1. used # <<>> /\ used \in Seq(Nat \ {0})
      BY <2>1 DEF Answer, TypeOK, PastInv
    <3>2. used[Len(used)] \in Nat \ {0}
      BY <3>1
    <3>3. QED
      BY <2>1, <3>2 DEF TypeOK
  <2>6. failed' \in [Domains -> Nat] /\ exposed' \subseteq Fingerprints
    BY <2>1 DEF TypeOK
  <2>7. TypeOK'
    BY <1>4, <2>1, <2>4, <2>5, <2>6 DEF TypeOK
  <2>8. PastInv'
    BY <1>4, <2>1, <2>4, PastStep
  <2>9. QED
    BY <2>7, <2>8
<1>7. ASSUME NEW d \in Domains, Pick(d) PROVE TypeOK' /\ PastInv'
  BY <1>7, SlotFits DEF Pick, TypeOK, PastInv
<1>8. CASE UNCHANGED vars
  BY <1>8 DEF vars, TypeOK, PastInv
<1>9. QED
  BY <1>2, <1>3, <1>5, <1>6, <1>7, <1>8 DEF Next

LEMMA SleepKept ==
    ASSUME TypeOK, PastInv, SleepInv, [Next]_vars
    PROVE  SleepInv'
<1> USE DEF taskVars, siteVars, history
<1>1. ASSUME UNCHANGED <<pc, dom, wake, last, until>> PROVE SleepInv'
  BY <1>1 DEF SleepInv, Required
<1>2. ASSUME pc' # "wait" PROVE SleepInv'
  BY <1>2 DEF SleepInv
<1>3. ASSUME NEW d \in Domains, Pick(d) PROVE SleepInv'
  <2>1. /\ wake' = Slot(d) /\ dom' = d /\ last' = last /\ until' = until
    BY <1>3 DEF Pick
  <2>2. QED
    BY <2>1, SlotFits DEF SleepInv, Required
<1>4. QED
  BY <1>1, <1>2, <1>3 DEF Next, vars, Tick, Request, Succeed, Fail, Answer

\* The invariant of the times.
LEMMA Times == Spec => [](TypeOK /\ PastInv /\ SleepInv)
BY InitTimes, TimesKept, SleepKept, PTL DEF Spec

\* The types hold of every state.
THEOREM TypeCorrect == Spec => []TypeOK
BY Times, PTL

\* For any domains and delays, no request is early: not within a back-off, and not
\* within the required delay of the request before it, unless in exchange for a
\* back-off that came after that request.
THEOREM PaceIsKept == Spec => PaceKept
<1> DEFINE Paced ==
        \A d \in Domains : last'[d] # last[d] =>
            /\ now >= until[d]
            /\ \A t \in last[d] : now >= t + Required(d) \/ until[d] > t
<1>1. TypeOK /\ PastInv /\ SleepInv /\ [Next]_vars => [Paced]_vars
  <2> SUFFICES ASSUME TypeOK, SleepInv, Next, NEW d \in Domains, last'[d] # last[d]
               PROVE  /\ now >= until[d]
                      /\ \A t \in last[d] : now >= t + Required(d) \/ until[d] > t
    OBVIOUS
  <2>1. Request
    BY DEF Next, Tick, Pick, Succeed, Fail, Answer, siteVars
  <2>2. d = dom /\ pc = "wait" /\ now >= wake
    BY <2>1 DEF Request, TypeOK
  <2>3. now \in Nat /\ wake \in Nat /\ until[d] \in Nat /\ Required(d) \in Nat
    BY RequiredNat DEF TypeOK
  <2>4. wake >= until[d] /\ \A t \in last[d] : wake >= t + Required(d) \/ until[d] > t
    BY <2>2 DEF SleepInv
  <2>5. \A t \in last[d] : t + Required(d) \in Nat
    BY <2>3 DEF TypeOK
  <2>6. QED
    BY <2>2, <2>3, <2>4, <2>5
<1>2. QED
  BY <1>1, Times, PTL DEF Spec, PaceKept

-----------------------------------------------------------------------------
(* The length of a wait *)

\* For any number of failures, the task never sleeps for more than the cap of the
\* back-off, or the required delay if that is longer.
THEOREM WaitsAreBounded == Spec => []WaitBounded
<1>1. Init => WaitBounded
  BY DEF Init, WaitBounded
<1>2. TypeOK /\ PastInv /\ WaitBounded /\ [Next]_vars => WaitBounded'
  <2> SUFFICES ASSUME TypeOK, PastInv, WaitBounded, [Next]_vars, pc' = "wait"
               PROVE  wake' <= now' + Most(MaxBackoff, Required(dom'))
    BY DEF WaitBounded, Required
  <2> USE DEF taskVars, siteVars, history
  <2>1. CASE Tick
    <3>1. pc = "wait" /\ dom' = dom /\ wake' = wake /\ now' = now + 1 /\ now \in Nat
      BY <2>1 DEF Tick, TypeOK
    <3>2. Most(MaxBackoff, Required(dom)) \in Nat /\ wake \in Nat
      BY RequiredNat, LeastMost, DomainSessionsAssumption DEF TypeOK, DomainSessionsAssumption
    <3>3. wake <= now + Most(MaxBackoff, Required(dom))
      BY <3>1 DEF WaitBounded
    <3>4. QED
      BY <3>1, <3>2, <3>3
  <2>2. ASSUME NEW d \in Domains, Pick(d)
        PROVE  wake' <= now' + Most(MaxBackoff, Required(dom'))
    BY <2>2, SlotFits DEF Pick
  <2>3. CASE UNCHANGED vars
    BY <2>3 DEF vars, WaitBounded
  <2>4. QED
    BY <2>1, <2>2, <2>3 DEF Next, Request, Succeed, Fail, Answer
<1>3. QED
  BY <1>1, <1>2, Times, PTL DEF Spec

-----------------------------------------------------------------------------
(* Sessions *)

LEMMA InitIdentity == Init => IdentityInv
BY DEF Init, IdentityInv, InFlight, NumbersInv, CountInv, BurnedUsed

\* A request goes out under a session s that is new, or has been the domain's.
LEMMA RequestIdentity ==
    ASSUME TypeOK, PastInv, IdentityInv, Request
    PROVE  IdentityInv'
<1> USE DEF IdentityInv
<1>1. PICK s \in IF Live(dom) # {} THEN Live(dom)
                  ELSE {NewSession(f) : f \in FingerprintFor(dom)} :
          /\ session' = [session EXCEPT ![dom] = {s}]
          /\ used' = Append(used, s.id)
  BY DEF Request
<1>2. /\ pc = "wait" /\ pc' = "fetch" /\ dom' = dom /\ dom \in Domains
      /\ sessions' = IF Live(dom) # {} THEN sessions ELSE sessions + 1
      /\ last' = [last EXCEPT ![dom] = {now}] /\ burned' = burned
  BY DEF Request, TypeOK
<1>3. /\ now \in Nat /\ sessions \in Nat /\ sessions' \in Nat /\ sessions <= sessions'
      /\ MaxAge \in Nat \ {0} /\ MaxRequests \in Nat \ {0}
      /\ used \in Seq(Nat) /\ burned \subseteq Nat
      /\ session \in [Domains -> SUBSET Session]
  BY <1>2, DomainSessionsAssumption DEF TypeOK, DomainSessionsAssumption
<1>4. \A d \in Domains : session'[d] = IF d = dom THEN {s} ELSE session[d]
  BY <1>1, <1>2, <1>3
<1>5. /\ s \in Session /\ s.id <= sessions'
      /\ s.id \notin burned
      /\ Cardinality(Uses(used, s.id)) = s.requests
      /\ s.requests < MaxRequests /\ now < s.born + MaxAge
      /\ \A d \in Domains \ {dom} : \A r \in session[d] : r.id # s.id
  <2>1. CASE Live(dom) # {}
    <3>1. s \in session[dom] /\ ~ShouldRotate(s)
      BY <1>1, <2>1 DEF Live
    <3>2. s \in Session
      BY <1>2, <1>3, <3>1
    <3>3. s.born \in Nat /\ s.requests \in Nat
      BY <3>2 DEF Session
    <3>4. s.requests < MaxRequests /\ now < s.born + MaxAge
      BY <1>3, <3>1, <3>3 DEF ShouldRotate
    <3>5. s.id <= sessions' /\ \A d \in Domains \ {dom} : \A r \in session[d] : r.id # s.id
      BY <1>2, <2>1, <3>1 DEF NumbersInv
    <3>6. s.id \notin burned /\ Cardinality(Uses(used, s.id)) = s.requests + 0
      BY <1>2, <3>1 DEF CountInv
    <3>7. QED
      BY <3>2, <3>3, <3>4, <3>5, <3>6
  <2>2. CASE Live(dom) = {}
    <3>1. PICK f \in FingerprintFor(dom) : s = NewSession(f)
      BY <1>1, <2>2
    <3>2. sessions' = sessions + 1 /\ f \in Fingerprints
      BY <1>2, <2>2 DEF TypeOK, FingerprintFor
    <3>3. s \in Session /\ s.id = sessions + 1 /\ s.requests = 0 /\ s.born = now
      BY <1>3, <3>1, <3>2 DEF NewSession, Session
    <3>4. \A i \in DOMAIN used : used[i] # s.id
      BY <1>3, <3>3 DEF NumbersInv
    <3>5. Cardinality(Uses(used, s.id)) = 0
      BY <3>4, NoUses
    <3>6. s.id \notin burned
      BY <1>3, <3>3 DEF BurnedUsed
    <3>7. ASSUME NEW d \in Domains, NEW r \in session[d] PROVE r.id # s.id
      <4>1. r.id \in Nat /\ r.id <= sessions
        BY <1>3 DEF NumbersInv, Session
      <4>2. QED
        BY <1>3, <3>3, <4>1
    <3>8. QED
      BY <1>3, <3>2, <3>3, <3>5, <3>6, <3>7
  <2>3. QED
    BY <2>1, <2>2
<1>6. s.id \in Nat /\ s.requests \in Nat /\ s.born \in Nat
  BY <1>5 DEF Session
<1>7. InFlight'
  <2>1. used' # <<>> /\ used'[Len(used')] = s.id
    BY <1>1, <1>3, <1>6
  <2>2. last'[dom'] = {now} /\ session'[dom'] = {s}
    BY <1>2, <1>4 DEF TypeOK
  <2>3. QED
    BY <1>5, <2>1, <2>2 DEF InFlight
<1>8. NumbersInv'
  <2>1. ASSUME NEW i \in DOMAIN used' PROVE used'[i] <= sessions'
    <3>1. CASE i \in DOMAIN used
      <4>1. used'[i] = used[i] /\ used[i] \in Nat /\ used[i] <= sessions
        BY <1>1, <1>3, <1>6, <3>1 DEF NumbersInv
      <4>2. QED
        BY <1>3, <4>1
    <3>2. CASE i \notin DOMAIN used
      BY <1>1, <1>3, <1>5, <1>6, <3>2
    <3>3. QED
      BY <3>1, <3>2
  <2>2. ASSUME NEW d \in Domains, NEW r \in session'[d] PROVE r.id <= sessions'
    <3>1. CASE d = dom
      BY <1>4, <1>5, <3>1
    <3>2. CASE d # dom
      <4>1. r \in session[d] /\ r.id \in Nat /\ r.id <= sessions
        BY <1>3, <1>4, <3>2 DEF NumbersInv, Session
      <4>2. QED
        BY <1>3, <4>1
    <3>3. QED
      BY <3>1, <3>2
  <2>3. \A d, e \in Domains : \A r \in session'[d], t \in session'[e] : r.id = t.id => d = e
    BY <1>4, <1>5 DEF NumbersInv
  <2>4. QED
    BY <2>1, <2>2, <2>3 DEF NumbersInv
<1>9. CountInv'
  <2> SUFFICES ASSUME NEW d \in Domains, NEW r \in session'[d]
               PROVE  /\ r.id \notin burned'
                      /\ Cardinality(Uses(used', r.id)) = r.requests + IF d = dom THEN 1 ELSE 0
                      /\ r.requests <= MaxRequests
    BY <1>2 DEF CountInv
  <2>1. CASE d = dom
    <3>1. r = s
      BY <1>4, <2>1
    <3>2. Cardinality(Uses(used', s.id)) = Cardinality(Uses(used, s.id)) + 1
      BY <1>1, <1>3, <1>6, OneMoreUse
    <3>3. QED
      BY <1>2, <1>3, <1>5, <1>6, <2>1, <3>1, <3>2
  <2>2. CASE d # dom
    <3>1. r \in session[d] /\ r.id # s.id /\ r.id \in Nat
      BY <1>3, <1>4, <1>5, <2>2 DEF Session
    <3>2. Uses(used', r.id) = Uses(used, r.id)
      BY <1>1, <1>3, <1>6, <3>1, OneMoreUse
    <3>3. QED
      BY <1>2, <2>2, <3>1, <3>2 DEF CountInv
  <2>3. QED
    BY <2>1, <2>2
<1>10. BurnedUsed'
  BY <1>2, <1>3 DEF BurnedUsed
<1>11. QED
  BY <1>7, <1>8, <1>9, <1>10

\* An answer leaves the domain with its session, counted, or with a new one; a failed
\* one always with a new one.
LEMMA AnswerIdentity ==
    ASSUME TypeOK, PastInv, IdentityInv, NEW ok \in BOOLEAN, Answer(ok),
           burned' = IF ok THEN burned ELSE burned \cup {used[Len(used)]}
    PROVE  IdentityInv'
<1> USE DEF IdentityInv
<1>1. PICK x \in session[dom], f \in FingerprintFor(dom) :
          /\ session' = [session EXCEPT ![dom] =
                            {IF Retired(Counted(x, ok), ok) THEN NewSession(f)
                             ELSE Counted(x, ok)}]
          /\ sessions' = IF Retired(Counted(x, ok), ok) THEN sessions + 1 ELSE sessions
  BY DEF Answer
<1>2. /\ pc = "fetch" /\ pc' = "pick" /\ dom' = dom /\ dom \in Domains /\ used' = used
      /\ used # <<>>
  BY DEF Answer, TypeOK, InFlight
<1>3. /\ now \in Nat /\ sessions \in Nat /\ sessions' \in Nat /\ sessions <= sessions'
      /\ MaxRequests \in Nat \ {0} /\ used \in Seq(Nat) /\ burned \subseteq Nat
      /\ session \in [Domains -> SUBSET Session]
  BY <1>1, DomainSessionsAssumption DEF TypeOK, DomainSessionsAssumption
<1>4. /\ x \in Session /\ x.id = used[Len(used)] /\ x.id <= sessions
      /\ x.id \notin burned
      /\ Cardinality(Uses(used, x.id)) = x.requests + 1
      /\ \A d \in Domains \ {dom} : \A r \in session[d] : r.id # x.id
  <2>1. \A r, t \in session[dom] : r = t
    BY <1>2 DEF TypeOK
  <2>2. x.id = used[Len(used)]
    BY <1>2, <2>1 DEF InFlight
  <2>3. QED
    BY <1>1, <1>2, <1>3, <2>2 DEF NumbersInv, CountInv
<1>5. x.id \in Nat /\ x.requests \in Nat /\ x.born \in Nat
  BY <1>4 DEF Session
<1>6. PICK s :
          /\ session' = [session EXCEPT ![dom] = {s}]
          /\ s \in Session /\ s.id <= sessions' /\ s.id \notin burned'
          /\ Cardinality(Uses(used, s.id)) = s.requests
          /\ s.requests <= MaxRequests
          /\ \A d \in Domains \ {dom} : \A r \in session[d] : r.id # s.id
  <2>1. CASE Retired(Counted(x, ok), ok)
    <3> DEFINE new == NewSession(f)
    <3>1. f \in Fingerprints
      BY <1>2 DEF TypeOK, FingerprintFor
    <3>2. session' = [session EXCEPT ![dom] = {new}] /\ sessions' = sessions + 1
      BY <1>1, <2>1, Zenon
    <3>3. /\ new \in Session /\ new.id = sessions + 1
          /\ new.requests = 0
      BY <1>3, <3>1 DEF NewSession, Session
    <3> HIDE DEF new
    <3>4. \A i \in DOMAIN used : used[i] # new.id
      BY <1>3, <3>3 DEF NumbersInv
    <3>5. Cardinality(Uses(used, new.id)) = 0
      BY <3>4, NoUses
    <3>6. new.id \notin burned'
      <4>1. x.id # new.id
        BY <1>3, <1>4, <1>5, <3>3
      <4>2. new.id \notin burned
        BY <1>3, <3>3 DEF BurnedUsed
      <4>3. QED
        BY <1>4, <4>1, <4>2
    <3>7. ASSUME NEW d \in Domains, NEW r \in session[d] PROVE r.id # new.id
      <4>1. r.id \in Nat /\ r.id <= sessions
        BY <1>3 DEF NumbersInv, Session
      <4>2. QED
        BY <1>3, <3>3, <4>1
    <3>8. QED
      <4>1. new.id <= sessions' /\ new.requests <= MaxRequests
        BY <1>3, <3>2, <3>3
      <4>2. Cardinality(Uses(used, new.id)) = new.requests
        BY <3>3, <3>5
      <4>3. \A d \in Domains \ {dom} : \A r \in session[d] : r.id # new.id
        BY <3>7
      <4>4. QED
        BY <3>2, <3>3, <3>6, <4>1, <4>2, <4>3
  <2>2. CASE ~Retired(Counted(x, ok), ok)
    <3> DEFINE c == Counted(x, ok)
    <3>1. session' = [session EXCEPT ![dom] = {c}] /\ sessions' = sessions
      BY <1>1, <2>2, Zenon
    <3>2. /\ c \in Session /\ c.id = x.id /\ c.requests = x.requests + 1
      BY <1>4, CountedSession
    <3>3. ok /\ ~ShouldRotate(c)
      BY <2>2 DEF Retired
    <3>4. c.requests <= MaxRequests
      <4> HIDE DEF c
      <4>1. ~(c.requests >= MaxRequests)
        BY <3>3 DEF ShouldRotate
      <4>2. QED
        BY <1>3, <1>5, <3>2, <4>1
    <3>5. burned' = burned
      BY <3>3
    <3>6. QED
      BY <1>4, <3>1, <3>2, <3>4, <3>5
  <2>3. QED
    BY <2>1, <2>2
<1>7. \A d \in Domains : session'[d] = IF d = dom THEN {s} ELSE session[d]
  BY <1>2, <1>3, <1>6
<1>8. InFlight'
  BY <1>2 DEF InFlight
<1>9. NumbersInv'
  <2>1. ASSUME NEW i \in DOMAIN used' PROVE used'[i] <= sessions'
    <3>1. used'[i] = used[i] /\ used[i] \in Nat /\ used[i] <= sessions
      BY <1>2, <1>3 DEF NumbersInv
    <3>2. QED
      BY <1>3, <3>1
  <2>2. ASSUME NEW d \in Domains, NEW r \in session'[d] PROVE r.id <= sessions'
    <3>1. CASE d = dom
      BY <1>6, <1>7, <3>1
    <3>2. CASE d # dom
      <4>1. r \in session[d] /\ r.id \in Nat /\ r.id <= sessions
        BY <1>3, <1>7, <3>2 DEF NumbersInv, Session
      <4>2. QED
        BY <1>3, <4>1
    <3>3. QED
      BY <3>1, <3>2
  <2>3. \A d, e \in Domains : \A r \in session'[d], t \in session'[e] : r.id = t.id => d = e
    BY <1>6, <1>7 DEF NumbersInv
  <2>4. QED
    BY <2>1, <2>2, <2>3 DEF NumbersInv
<1>10. CountInv'
  <2> SUFFICES ASSUME NEW d \in Domains, NEW r \in session'[d]
               PROVE  /\ r.id \notin burned'
                      /\ Cardinality(Uses(used, r.id)) = r.requests + 0
                      /\ r.requests <= MaxRequests
    BY <1>2 DEF CountInv
  <2>1. CASE d = dom
    <3>1. r = s /\ s.requests \in Nat
      BY <1>6, <1>7, <2>1 DEF Session
    <3>2. QED
      BY <1>6, <3>1
  <2>2. CASE d # dom
    <3>1. r \in session[d] /\ r.id # x.id
      BY <1>4, <1>7, <2>2
    <3>2. QED
      BY <1>2, <1>4, <2>2, <3>1 DEF CountInv
  <2>3. QED
    BY <2>1, <2>2
<1>11. BurnedUsed'
  <2>1. \A id \in burned' : id \in burned \/ id = x.id
    BY <1>4
  <2>2. ASSUME NEW id \in burned' PROVE id <= sessions'
    <3>1. id \in Nat /\ id <= sessions
      BY <1>3, <1>4, <1>5, <2>1 DEF BurnedUsed
    <3>2. QED
      BY <1>3, <3>1
  <2>3. QED
    BY <2>2 DEF BurnedUsed
<1>12. QED
  BY <1>8, <1>9, <1>10, <1>11

LEMMA IdentityKept ==
    ASSUME TypeOK, PastInv, IdentityInv, [Next]_vars
    PROVE  IdentityInv'
<1> USE DEF taskVars, siteVars, history
<1>1. ASSUME \/ UNCHANGED <<pc, dom>>
             \/ pc # "fetch" /\ pc' # "fetch",
             UNCHANGED <<last, session, sessions, used, burned>>
      PROVE  IdentityInv'
  <2>1. InFlight'
    BY <1>1 DEF IdentityInv, InFlight
  <2>2. NumbersInv'
    BY <1>1 DEF IdentityInv, NumbersInv
  <2>3. CountInv'
    BY <1>1 DEF IdentityInv, CountInv
  <2>4. QED
    BY <1>1, <2>1, <2>2, <2>3 DEF IdentityInv, BurnedUsed
<1>2. CASE Tick
  BY <1>1, <1>2 DEF Tick
<1>3. ASSUME NEW d \in Domains, Pick(d) PROVE IdentityInv'
  BY <1>1, <1>3 DEF Pick
<1>4. CASE UNCHANGED vars
  BY <1>1, <1>4 DEF vars
<1>5. CASE Succeed
  BY <1>5, AnswerIdentity DEF Succeed
<1>6. CASE Fail
  BY <1>6, AnswerIdentity DEF Fail
<1>7. QED
  BY <1>2, <1>3, <1>4, <1>5, <1>6, RequestIdentity DEF Next

\* For any number of domains, requests and failures, no session that failed a request,
\* that is used up or too old, or that belongs to another domain makes a request.  What
\* the session shows of the crawler is another matter (FingerprintSpared).
THEOREM SessionsAreSpared == Spec => []SessionSpared
<1>1. IdentityInv /\ TypeOK => SessionSpared
  <2> SUFFICES ASSUME IdentityInv, TypeOK, pc = "fetch" PROVE SessionSpared
    BY DEF SessionSpared
  <2>1. PICK s \in session[dom] :
            /\ s.id = used[Len(used)] /\ s.requests < MaxRequests
            /\ \A t \in last[dom] : t < s.born + MaxAge
    BY DEF IdentityInv, InFlight
  <2>2. dom \in Domains /\ s \in Session /\ s.requests \in Nat /\ MaxRequests \in Nat
    BY <2>1, DomainSessionsAssumption DEF TypeOK, Session, DomainSessionsAssumption
  <2>3. s.id \notin burned /\ Cardinality(Uses(used, s.id)) = s.requests + 1
    BY <2>1, <2>2 DEF IdentityInv, CountInv
  <2>4. Cardinality(Uses(used, s.id)) <= MaxRequests
    BY <2>1, <2>2, <2>3
  <2>5. \A t \in last[dom], r \in session[dom] : t < r.born + MaxAge
    BY <2>1, <2>2 DEF TypeOK
  <2>6. \A d \in Domains : (\E r \in session[d] : r.id = s.id) <=> d = dom
    BY <2>1, <2>2 DEF IdentityInv, NumbersInv
  <2>7. QED
    BY <2>1, <2>3, <2>4, <2>5, <2>6 DEF SessionSpared
<1>2. QED
  BY <1>1, Times, InitIdentity, IdentityKept, PTL DEF Spec

-----------------------------------------------------------------------------
(* The pool of proxies *)

LEMMA LeastNumber ==
    ASSUME NEW T, T \subseteq Nat, T # {}
    PROVE  \E n \in T : \A k \in T : n <= k
<1>1. PICK n \in T : \A k \in T : ~(<<k, n>> \in OpToRel(<, Nat))
  BY NatLessThanWellFounded, WFMin
<1>2. \A k \in T : ~(k < n)
  BY <1>1 DEF OpToRel
<1>3. QED
  BY <1>2

\* Induction for a set of numbers in place of a predicate.
LEMMA Counting ==
    ASSUME NEW T, 0 \in T, \A n \in Nat : n \in T => n + 1 \in T
    PROVE  \A n \in Nat : n \in T
<1> SUFFICES ASSUME Nat \ T # {} PROVE FALSE
  OBVIOUS
<1>1. PICK n \in Nat \ T : \A k \in Nat \ T : n <= k
  BY LeastNumber
<1>2. n - 1 \in Nat /\ n - 1 \in T
  BY <1>1
<1>3. n \in T
  BY <1>2
<1>4. QED
  BY <1>3

LEMMA AddedType ==
    ASSUME NEW generated, NEW endpoints \in Seq(Proxies), NEW p \in Proxies
    PROVE  Added(generated, endpoints, p) \in Seq(Proxies)
<1> DEFINE same == {i \in 1..Len(endpoints) : Id(generated, endpoints[i]) = Id(generated, p)}
           i == CHOOSE i \in same : TRUE
<1>1. CASE same = {}
  BY <1>1 DEF Added
<1>2. CASE same # {}
  <2>1. i \in 1..Len(endpoints)
    BY <1>2
  <2>2. Added(generated, endpoints, p) = [endpoints EXCEPT ![i] = p]
    BY <1>2 DEF Added
  <2> HIDE DEF i
  <2>3. QED
    BY <2>1, <2>2
<1>3. QED
  BY <1>1, <1>2

\* t is the list of endpoints after each of the n adds.
Adding(t, source, n) ==
    /\ t[0] = <<>>
    /\ \A k \in 1..n : t[k] = Added(source.generated, t[k - 1], source.list[k])

LEMMA Adds ==
    ASSUME NEW source, source.list \in Seq(Proxies), NEW n \in Nat, n <= Len(source.list)
    PROVE  \E t \in [0..n -> Seq(Proxies)] : Adding(t, source, n)
<1> DEFINE T == {m \in Nat : m <= Len(source.list) =>
                     \E t \in [0..m -> Seq(Proxies)] : Adding(t, source, m)}
<1>1. 0 \in T
  <2> DEFINE t == [k \in 0..0 |-> <<>>]
  <2>1. t \in [0..0 -> Seq(Proxies)] /\ Adding(t, source, 0)
    BY DEF Adding
  <2>2. QED
    BY <2>1
<1>2. ASSUME NEW m \in Nat, m \in T PROVE m + 1 \in T
  <2> SUFFICES ASSUME m + 1 <= Len(source.list)
               PROVE  \E t \in [0..m + 1 -> Seq(Proxies)] : Adding(t, source, m + 1)
    OBVIOUS
  <2>1. PICK t \in [0..m -> Seq(Proxies)] : Adding(t, source, m)
    BY <1>2
  <2> DEFINE l == Added(source.generated, t[m], source.list[m + 1])
             s == [k \in 0..m + 1 |-> IF k = m + 1 THEN l ELSE t[k]]
  <2>2. l \in Seq(Proxies)
    <3>1. source.list[m + 1] \in Proxies /\ t[m] \in Seq(Proxies)
      OBVIOUS
    <3>2. QED
      BY <3>1, AddedType
  <2> HIDE DEF l
  <2>3. s \in [0..m + 1 -> Seq(Proxies)]
    BY <2>2
  <2>4. s[0] = <<>>
    BY <2>1 DEF Adding
  <2>5. ASSUME NEW k \in 1..m + 1
        PROVE  s[k] = Added(source.generated, s[k - 1], source.list[k])
    <3>1. CASE k = m + 1
      BY <3>1 DEF l
    <3>2. CASE k # m + 1
      BY <2>1, <3>2 DEF Adding
    <3>3. QED
      BY <3>1, <3>2
  <2> HIDE DEF s
  <2>6. QED
    BY <2>3, <2>4, <2>5 DEF Adding
<1> HIDE DEF T
<1>3. n \in T
  BY <1>1, <1>2, Counting
<1>4. QED
  BY <1>3 DEF T

\* The pool is a list of the proxies it is built from.
LEMMA BuiltType ==
    ASSUME NEW source \in Pools
    PROVE  Built(source) \in [list : Seq(Proxies), generated : BOOLEAN]
<1> DEFINE n == Len(source.list)
           A(l, i) == Added(source.generated, l, source.list[i])
           Rec(t) == t = [i \in 0..n |-> IF i = 0 THEN <<>> ELSE A(t[i - 1], i)]
<1>1. /\ source.list \in Seq(Proxies) /\ source.generated \in BOOLEAN
      /\ n \in Nat /\ n <= Len(source.list)
  BY HumanClientAssumption DEF HumanClientAssumption
<1> HIDE DEF n
<1>2. PICK t \in [0..n -> Seq(Proxies)] : Adding(t, source, n)
  BY <1>1, Adds
<1>3. ASSUME NEW i \in 0..n PROVE t[i] = IF i = 0 THEN <<>> ELSE A(t[i - 1], i)
  <2>1. CASE i = 0
    BY <1>2, <2>1 DEF Adding
  <2>2. CASE i # 0
    <3>1. i \in 1..n
      BY <2>2
    <3>2. QED
      BY <1>2, <2>2, <3>1 DEF Adding
  <2>3. QED
    BY <2>1, <2>2
<1>4. Rec(t)
  <2> HIDE DEF A
  <2>1. t = [i \in 0..n |-> t[i]]
    OBVIOUS
  <2>2. QED
    BY <1>3, <2>1
<1>5. PICK s : s = (CHOOSE r : Rec(r)) /\ Rec(s)
  BY <1>4
<1>6. Built(source) = [list |-> s[n], generated |-> source.generated]
  BY <1>5 DEF Built, n
<1>7. ASSUME NEW i \in 0..n PROVE s[i] = IF i = 0 THEN <<>> ELSE A(s[i - 1], i)
  <2>1. Rec(s)
    BY <1>5
  <2> HIDE DEF A
  <2>2. QED
    BY ONLY <2>1, Zenon
<1> HIDE DEF A
<1>8. s[n] = t[n]
  <2> DEFINE T == {i \in Nat : i <= n => s[i] = t[i]}
  <2>1. 0 \in T
    BY <1>1, <1>3, <1>7
  <2>2. ASSUME NEW i \in Nat, i \in T PROVE i + 1 \in T
    BY <1>1, <1>3, <1>7, <2>2
  <2> HIDE DEF T
  <2>3. n \in T
    BY <1>1, <2>1, <2>2, Counting
  <2>4. QED
    BY <1>1, <2>3 DEF T
<1>9. QED
  BY <1>1, <1>2, <1>6, <1>8

LEMMA ListedType == ASSUME ClientTypeOK PROVE Listed \subseteq Proxies
<1>1. pool.list \in Seq(Proxies)
  BY DEF ClientTypeOK
<1>2. \A i \in 1..Len(pool.list) : pool.list[i] \in Proxies
  BY <1>1
<1>3. QED
  BY <1>2 DEF Listed

\* What is selected is in the list, and available.
LEMMA SelectableListed ==
    ASSUME ClientTypeOK, NEW d, NEW p \in Selectable(d)
    PROVE  p = None \/ (p \in Listed /\ IsAvailable(p))
<1>1. strategy \in {"random", "roundrobin", "weighted", "sticky"}
  BY DEF ClientTypeOK, Strategy
<1>2. ASSUME Available # {} PROVE \E i \in Available : p = pool.list[i]
  BY <1>1, <1>2 DEF Selectable, Nth
<1>3. ASSUME Available = {} PROVE p = None
  BY <1>3 DEF Selectable
<1>4. QED
  BY <1>2, <1>3 DEF Available, Listed

LEMMA JudgedType ==
    ASSUME NEW h \in [failures : Nat, cooling : BOOLEAN, banned : BOOLEAN], NEW outcome \in Outcomes
    PROVE  /\ Judged(h, outcome) \in [failures : Nat, cooling : BOOLEAN, banned : BOOLEAN]
           /\ h.banned => Judged(h, outcome).banned
           /\ outcome = "refused" => Judged(h, outcome).banned
<1>1. CASE outcome = "ok"
  BY <1>1 DEF Judged
<1>2. CASE outcome = "refused"
  BY <1>2 DEF Judged
<1>3. CASE outcome = "error"
  <2>1. Judged(h, outcome) = Failed(h)
    BY <1>3 DEF Judged
  <2> DEFINE c == h.cooling \/ h.failures + 1 >= MaxFailures
  <2>2. c \in BOOLEAN
    OBVIOUS
  <2>3. Failed(h) = [h EXCEPT !.failures = h.failures + 1, !.cooling = c]
    BY DEF Failed
  <2> HIDE DEF c
  <2> DEFINE n == h.failures + 1
  <2>4. Failed(h) = [failures |-> n, cooling |-> c, banned |-> h.banned]
    BY <2>3
  <2>5. n \in Nat /\ h.banned \in BOOLEAN
    OBVIOUS
  <2> HIDE DEF n
  <2>6. Failed(h).banned = h.banned
    BY <2>4
  <2>7. Failed(h) \in [failures : Nat, cooling : BOOLEAN, banned : BOOLEAN]
    BY <2>2, <2>4, <2>5
  <2>8. QED
    BY <1>3, <2>1, <2>6, <2>7
<1>4. QED
  BY <1>1, <1>2, <1>3 DEF Outcomes

-----------------------------------------------------------------------------
(* A step of get() *)

\* Task t comes to a step, with an address; the rest of its request stays.
Moves(t, step, address) ==
    /\ request' \in [Tasks -> ClientRequest]
    /\ \A o \in Tasks \ {t} : request'[o] = request[o]
    /\ request'[t].step = step /\ request'[t].address = address
    /\ request'[t].domain = request[t].domain
    /\ request'[t].proxy = request[t].proxy /\ request'[t].shuns = request[t].shuns

LEMMA MovesType ==
    ASSUME ClientTypeOK, NEW t \in Tasks, NEW step, NEW address, Moves(t, step, address),
           request[t].step # "idle"
    PROVE  \A o \in Tasks : request'[o].step = "idle" \/ request'[o].domain \in Sites
BY DEF ClientTypeOK, Moves

LEMMA SetRequest ==
    ASSUME ClientTypeOK, NEW t \in Tasks, NEW r \in ClientRequest, request' = [request EXCEPT ![t] = r],
           r.domain = request[t].domain, r.proxy = request[t].proxy, r.shuns = request[t].shuns
    PROVE  Moves(t, r.step, r.address)
<1>1. request \in [Tasks -> ClientRequest]
  BY DEF ClientTypeOK
<1>2. QED
  BY <1>1 DEF Moves

LEMMA SetStep ==
    ASSUME ClientTypeOK, NEW t \in Tasks, NEW step \in Steps,
           request' = [request EXCEPT ![t].step = step]
    PROVE  Moves(t, step, request[t].address)
<1>1. request \in [Tasks -> ClientRequest] /\ request[t] \in ClientRequest
  BY DEF ClientTypeOK
<1> DEFINE r == [request[t] EXCEPT !.step = step]
<1>2. /\ r \in ClientRequest /\ r.step = step /\ r.address = request[t].address
      /\ r.domain = request[t].domain /\ r.proxy = request[t].proxy /\ r.shuns = request[t].shuns
  BY <1>1 DEF ClientRequest
<1>3. request' = [request EXCEPT ![t] = r]
  BY <1>1
<1> HIDE DEF r
<1>4. QED
  BY <1>2, <1>3, SetRequest

LEMMA SetAddress ==
    ASSUME ClientTypeOK, NEW t \in Tasks, NEW step \in Steps, NEW a \in Addresses,
           request' = [request EXCEPT ![t].address = a, ![t].step = step]
    PROVE  Moves(t, step, a)
<1>1. request \in [Tasks -> ClientRequest] /\ request[t] \in ClientRequest
  BY DEF ClientTypeOK
<1> DEFINE r == [request[t] EXCEPT !.address = a, !.step = step]
<1>2. /\ r \in ClientRequest /\ r.step = step /\ r.address = a
      /\ r.domain = request[t].domain /\ r.proxy = request[t].proxy /\ r.shuns = request[t].shuns
  BY <1>1 DEF ClientRequest
<1>3. request' = [request EXCEPT ![t] = r]
  BY <1>1
<1> HIDE DEF r
<1>4. QED
  BY <1>2, <1>3, SetRequest

LEMMA SetSession ==
    ASSUME ClientTypeOK, NEW t \in Tasks, NEW step \in Steps, NEW s \in SiteSession,
           request' = [request EXCEPT ![t].session = s, ![t].step = step]
    PROVE  Moves(t, step, request[t].address)
<1>1. request \in [Tasks -> ClientRequest] /\ request[t] \in ClientRequest
  BY DEF ClientTypeOK
<1> DEFINE r == [request[t] EXCEPT !.session = s, !.step = step]
<1>2. /\ r \in ClientRequest /\ r.step = step /\ r.address = request[t].address
      /\ r.domain = request[t].domain /\ r.proxy = request[t].proxy /\ r.shuns = request[t].shuns
  BY <1>1 DEF ClientRequest
<1>3. request' = [request EXCEPT ![t] = r]
  BY <1>1
<1> HIDE DEF r
<1>4. QED
  BY <1>2, <1>3, SetRequest

LEMMA LookUpMoves ==
    ASSUME ClientTypeOK, NEW t \in Tasks, LookUpSession(t)
    PROVE  \E step \in {"insert", "identity"} : Moves(t, step, request[t].address)
<1> DEFINE known == siteSessions[request[t].domain]
           new == [profile |-> made, proxy |-> request[t].proxy]
<1>1. request[t] \in ClientRequest /\ made \in Nat /\ request[t].domain \in Sites
  BY DEF ClientTypeOK, LookUpSession
<1>2. new \in SiteSession
  BY <1>1 DEF SiteSession, ClientRequest
<1>3. CASE Sticky /\ known # None
  <2>1. known \in SiteSession
    BY <1>1, <1>3 DEF ClientTypeOK
  <2>2. request' = [request EXCEPT ![t].session = known, ![t].step = "identity"]
    BY <1>3 DEF LookUpSession
  <2> HIDE DEF known
  <2>3. QED
    BY <2>1, <2>2, SetSession DEF Steps
<1>4. CASE ~(Sticky /\ known # None)
  <2> DEFINE step == IF Sticky THEN "insert" ELSE "identity"
  <2>1. step \in {"insert", "identity"} /\ step \in Steps
    BY DEF Steps
  <2>2. request' = [request EXCEPT ![t].session = new, ![t].step = step]
    BY <1>4 DEF LookUpSession
  <2> HIDE DEF new, step
  <2>3. QED
    BY <1>2, <2>1, <2>2, SetSession
<1>5. QED
  BY <1>3, <1>4

LEMMA InsertMoves ==
    ASSUME ClientTypeOK, NEW t \in Tasks, InsertSession(t)
    PROVE  /\ Moves(t, "identity", request[t].address)
           /\ siteSessions' \in [Sites -> SiteSession \cup {None}]
<1>1. request' = [request EXCEPT ![t].step = "identity"]
  BY DEF InsertSession
<1>2. request[t].session \in SiteSession \cup {None}
  BY DEF ClientTypeOK, ClientRequest
<1>3. siteSessions' \in [Sites -> SiteSession \cup {None}]
  BY <1>2 DEF InsertSession, ClientTypeOK
<1>4. QED
  BY <1>1, <1>3, SetStep DEF Steps

LEMMA ReadMoves ==
    ASSUME ClientTypeOK, NEW t \in Tasks, ReadWorking(t)
    PROVE  \/ Moves(t, "generate", request[t].address)
           \/ \E a \in Addresses : Works(a) /\ Moves(t, "reuse", a)
<1>1. CASE request' = [request EXCEPT ![t].step = "generate"]
  BY <1>1, SetStep DEF Steps
<1>2. ASSUME NEW a \in Addresses, Works(a),
             request' = [request EXCEPT ![t].address = a, ![t].step = "reuse"]
      PROVE  Moves(t, "reuse", a)
  BY <1>2, SetAddress DEF Steps
<1>3. QED
  BY <1>1, <1>2 DEF ReadWorking

LEMMA GenerateMoves ==
    ASSUME ClientTypeOK, NEW t \in Tasks, Generate(t)
    PROVE  \/ Moves(t, "sent", request[t].address) /\ UNCHANGED usedIps
           \/ \E a \in Addresses \ usedIps :
                  ~IsDiscarded(a) /\ usedIps' = usedIps \cup {a} /\ Moves(t, "sent", a)
<1>1. CASE request' = [request EXCEPT ![t].step = "sent"]
  <2>1. Moves(t, "sent", request[t].address)
    BY <1>1, SetStep DEF Steps
  <2>2. CASE UNCHANGED usedIps
    BY <2>1, <2>2
  <2>3. CASE usedIps' # usedIps
    <3>1. PICK a \in Addresses \ usedIps :
              /\ ~IsDiscarded(a) /\ usedIps' = usedIps \cup {a}
              /\ request' = [request EXCEPT ![t].address = a, ![t].step = "sent"]
      BY <2>3 DEF Generate
    <3>2. QED
      BY <3>1, SetAddress DEF Steps
  <2>4. QED
    BY <2>2, <2>3
<1>2. ASSUME NEW a \in Addresses \ usedIps, ~IsDiscarded(a), usedIps' = usedIps \cup {a},
             request' = [request EXCEPT ![t].address = a, ![t].step = "sent"]
      PROVE  Moves(t, "sent", a)
  BY <1>2, SetAddress DEF Steps
<1>3. QED
  BY <1>1, <1>2 DEF Generate

LEMMA AnswerMoves ==
    ASSUME ClientTypeOK, NEW t \in Tasks, GetAnswer(t)
    PROVE  /\ Moves(t, "report", request[t].address)
           /\ \E outcome \in Outcomes :
                /\ request'[t].outcome = outcome
                /\ health' = [p \in Proxies |->
                        IF p \in Reported(request[t].proxy) THEN Judged(health[p], outcome)
                                                            ELSE health[p]]
                /\ refused' = IF outcome = "refused" /\ request[t].proxy # None
                              THEN [refused EXCEPT !.proxies = @ \cup {request[t].proxy}]
                              ELSE refused
<1>1. request \in [Tasks -> ClientRequest] /\ request[t] \in ClientRequest
  BY DEF ClientTypeOK
<1>2. PICK outcome \in Outcomes :
        /\ request' = [request EXCEPT ![t].outcome = outcome, ![t].step = "report"]
        /\ health' = [p \in Proxies |->
                IF p \in Reported(request[t].proxy) THEN Judged(health[p], outcome)
                                                    ELSE health[p]]
        /\ refused' = IF outcome = "refused" /\ request[t].proxy # None
                      THEN [refused EXCEPT !.proxies = @ \cup {request[t].proxy}]
                      ELSE refused
  BY DEF GetAnswer
<1> DEFINE r == [request[t] EXCEPT !.outcome = outcome, !.step = "report"]
<1>3. /\ r \in ClientRequest /\ r.step = "report" /\ r.address = request[t].address /\ r.outcome = outcome
      /\ r.domain = request[t].domain /\ r.proxy = request[t].proxy /\ r.shuns = request[t].shuns
  BY <1>1 DEF ClientRequest, Steps
<1>4. request' = [request EXCEPT ![t] = r]
  BY <1>1, <1>2
<1> HIDE DEF r
<1>5. Moves(t, "report", request[t].address)
  BY <1>3, <1>4, SetRequest
<1>6. request'[t] = r
  BY <1>1, <1>4
<1>7. QED
  BY <1>2, <1>3, <1>5, <1>6

LEMMA NoRequestType == NoRequest \in ClientRequest /\ NoRequest.shuns = Shun({}, {})
BY DEF NoRequest, ClientRequest, Steps, Shuns, Shun

LEMMA BeginMoves ==
    ASSUME ClientTypeOK, NEW t \in Tasks, NEW d \in Sites, Begin(t, d)
    PROVE  /\ request' \in [Tasks -> ClientRequest]
           /\ \A o \in Tasks \ {t} : request'[o] = request[o]
           /\ request'[t].step = "lookup" /\ request'[t].domain = d
           /\ request'[t].address = None /\ request'[t].shuns = refused
           /\ \E p \in Proxies \cup {None} :
                  /\ request'[t].proxy = p
                  /\ p # None => p \in Listed /\ IsAvailable(p)
<1>1. request \in [Tasks -> ClientRequest] /\ refused \in Shuns
  BY DEF ClientTypeOK
<1>2. PICK p \in Selectable(d) :
          request' = [request EXCEPT ![t] = [NoRequest EXCEPT !.step = "lookup", !.domain = d,
                                                            !.proxy = p, !.shuns = refused]]
  BY DEF Begin
<1>3. p \in Proxies \cup {None} /\ (p # None => p \in Listed /\ IsAvailable(p))
  BY SelectableListed, ListedType
<1> DEFINE r == [NoRequest EXCEPT !.step = "lookup", !.domain = d, !.proxy = p, !.shuns = refused]
<1>4. /\ r \in ClientRequest /\ r.step = "lookup" /\ r.domain = d /\ r.address = None
      /\ r.shuns = refused /\ r.proxy = p
  BY <1>1, <1>3 DEF NoRequest, ClientRequest, Steps
<1> HIDE DEF r
<1>5. request' = [request EXCEPT ![t] = r]
  BY <1>2 DEF r
<1>6. request' \in [Tasks -> ClientRequest] /\ request'[t] = r
  BY <1>1, <1>4, <1>5
<1>7. \A o \in Tasks \ {t} : request'[o] = request[o]
  BY <1>1, <1>5
<1>8. QED
  BY <1>3, <1>4, <1>6, <1>7

LEMMA RecordedType ==
    ASSUME NEW rec \in Record, NEW outcome
    PROVE  /\ Recorded(rec, outcome) \in Record
           /\ rec.successes > 0 => Recorded(rec, outcome).successes > 0
           /\ outcome = "ok" => Recorded(rec, outcome).successes > 0
           /\ outcome = "refused" =>
                  LET new == Recorded(rec, outcome) IN new.known /\ ~new.working /\ new.discarded
           /\ outcome # "ok" /\ rec.known /\ ~rec.working /\ rec.discarded =>
                  LET new == Recorded(rec, outcome) IN new.known /\ ~new.working /\ new.discarded
<1> DEFINE n == rec.failures + 1
           out == outcome = "refused" \/ n > 2
           working == (rec.working \/ ~rec.known) /\ ~out
           discarded == rec.discarded \/ out
<1>1. /\ rec.known \in BOOLEAN /\ rec.working \in BOOLEAN /\ rec.discarded \in BOOLEAN
      /\ rec.successes \in Nat /\ rec.failures \in Nat
  BY DEF Record
<1>2. CASE outcome = "ok"
  <2>1. Recorded(rec, outcome) = [known |-> TRUE, working |-> TRUE, successes |-> 1,
                                  failures |-> 0, discarded |-> rec.discarded]
    BY <1>2 DEF Recorded, Record
  <2>2. Recorded(rec, outcome) \in Record
    BY <1>1, <2>1 DEF Record
  <2>3. Recorded(rec, outcome).successes = 1 /\ outcome # "refused"
    BY <1>2, <2>1
  <2>4. QED
    BY <1>2, <2>2, <2>3
<1>3. CASE outcome # "ok"
  <2>1. Recorded(rec, outcome) = [rec EXCEPT !.known = TRUE, !.failures = n, !.working = working,
                                             !.discarded = discarded]
    BY <1>3 DEF Recorded
  <2>2. n \in Nat /\ working \in BOOLEAN /\ discarded \in BOOLEAN
    BY <1>1
  <2>3. /\ outcome = "refused" => ~working /\ discarded
        /\ rec.known /\ ~rec.working /\ rec.discarded => ~working /\ discarded
    OBVIOUS
  <2> HIDE DEF n, working, discarded
  <2>4. Recorded(rec, outcome) = [known |-> TRUE, working |-> working,
                                  successes |-> rec.successes, failures |-> n,
                                  discarded |-> discarded]
    BY <2>1 DEF Record
  <2>5. Recorded(rec, outcome) \in Record
    BY <1>1, <2>2, <2>4 DEF Record
  <2>6. /\ Recorded(rec, outcome).known = TRUE /\ Recorded(rec, outcome).working = working
        /\ Recorded(rec, outcome).discarded = discarded
        /\ Recorded(rec, outcome).successes = rec.successes
    BY <2>4
  <2>7. QED
    BY <1>3, <2>3, <2>5, <2>6
<1>4. QED
  BY <1>2, <1>3

\* The other requests keep what they are, and forget a refusal that a success takes back.
LEMMA ReportMoves ==
    ASSUME ClientTypeOK, NEW t \in Tasks, ReportIdentity(t)
    PROVE  /\ request' \in [Tasks -> ClientRequest] /\ request'[t] = NoRequest
           /\ \A o \in Tasks \ {t} :
                /\ request'[o].step = request[o].step /\ request'[o].address = request[o].address
                /\ request'[o].domain = request[o].domain /\ request'[o].proxy = request[o].proxy
                /\ request'[o].shuns.proxies = request[o].shuns.proxies
                /\ request'[o].shuns.addresses =
                     IF request[t].outcome = "ok"
                     THEN request[o].shuns.addresses \ {request[t].address}
                     ELSE request[o].shuns.addresses
<1> DEFINE a == request[t].address
           outcome == request[t].outcome
<1>1. request \in [Tasks -> ClientRequest]
  BY DEF ClientTypeOK
<1>2. request' = [o \in Tasks |->
            IF o = t THEN NoRequest
            ELSE IF outcome = "ok" THEN [request[o] EXCEPT !.shuns.addresses = @ \ {a}]
            ELSE request[o]]
  BY DEF ReportIdentity
<1> HIDE DEF a, outcome
<1>3. ASSUME NEW r \in ClientRequest
      PROVE  LET new == [r EXCEPT !.shuns.addresses = @ \ {a}] IN
             /\ new \in ClientRequest /\ new.step = r.step /\ new.address = r.address
             /\ new.domain = r.domain /\ new.proxy = r.proxy
             /\ new.shuns.proxies = r.shuns.proxies
             /\ new.shuns.addresses = r.shuns.addresses \ {a}
  BY DEF ClientRequest, Shuns
<1>4. request' \in [Tasks -> ClientRequest]
  BY <1>1, <1>2, <1>3, NoRequestType
<1>5. request'[t] = NoRequest
  BY <1>2
<1>6. ASSUME NEW o \in Tasks \ {t}
      PROVE  request'[o] = IF outcome = "ok" THEN [request[o] EXCEPT !.shuns.addresses = @ \ {a}]
                                             ELSE request[o]
  BY <1>2
<1>7. ASSUME NEW o \in Tasks \ {t}
      PROVE  /\ request'[o].step = request[o].step /\ request'[o].address = request[o].address
             /\ request'[o].domain = request[o].domain /\ request'[o].proxy = request[o].proxy
             /\ request'[o].shuns.proxies = request[o].shuns.proxies
             /\ request'[o].shuns.addresses = IF outcome = "ok" THEN request[o].shuns.addresses \ {a}
                                              ELSE request[o].shuns.addresses
  <2>1. request[o] \in ClientRequest
    BY <1>1
  <2>2. CASE outcome = "ok"
    BY <1>3, <1>6, <2>1, <2>2
  <2>3. CASE outcome # "ok"
    BY <1>6, <2>3
  <2>4. QED
    BY <2>2, <2>3
<1>8. QED
  BY <1>4, <1>5, <1>7 DEF a, outcome

-----------------------------------------------------------------------------
(* Types of the client *)

LEMMA MoveKeepsType ==
    ASSUME ClientTypeOK, NEW t \in Tasks, NEW step, NEW address, Moves(t, step, address),
           request[t].step # "idle",
           UNCHANGED <<pool, strategy, turn, made, checked, record>>,
           health' \in [Proxies -> [failures : Nat, cooling : BOOLEAN, banned : BOOLEAN]],
           siteSessions' \in [Sites -> SiteSession \cup {None}],
           usedIps' \subseteq Addresses, refused' \in Shuns
    PROVE  ClientTypeOK'
<1>1. \A o \in Tasks : request'[o].step = "idle" \/ request'[o].domain \in Sites
  BY MovesType
<1>2. request' \in [Tasks -> ClientRequest]
  BY DEF Moves
<1>3. QED
  BY <1>1, <1>2 DEF ClientTypeOK

LEMMA AnswerType ==
    ASSUME ClientTypeOK, NEW t \in Tasks, GetAnswer(t)
    PROVE  /\ health' \in [Proxies -> [failures : Nat, cooling : BOOLEAN, banned : BOOLEAN]]
           /\ refused' \in Shuns
<1>1. PICK outcome \in Outcomes :
          /\ health' = [p \in Proxies |->
                  IF p \in Reported(request[t].proxy) THEN Judged(health[p], outcome)
                                                      ELSE health[p]]
          /\ refused' = IF outcome = "refused" /\ request[t].proxy # None
                        THEN [refused EXCEPT !.proxies = @ \cup {request[t].proxy}]
                        ELSE refused
  BY AnswerMoves
<1>2. health \in [Proxies -> [failures : Nat, cooling : BOOLEAN, banned : BOOLEAN]]
  BY DEF ClientTypeOK
<1>3. \A p \in Proxies : Judged(health[p], outcome)
                             \in [failures : Nat, cooling : BOOLEAN, banned : BOOLEAN]
  BY <1>2, JudgedType
<1>4. health' \in [Proxies -> [failures : Nat, cooling : BOOLEAN, banned : BOOLEAN]]
  BY <1>1, <1>2, <1>3
<1>5. refused \in Shuns /\ request[t].proxy \in Proxies \cup {None}
  BY DEF ClientTypeOK, ClientRequest
<1>6. refused' \in Shuns
  BY <1>1, <1>5 DEF Shuns
<1>7. QED
  BY <1>4, <1>6

LEMMA ClientTypeKept == ASSUME ClientTypeOK, [ClientNext]_clientVars PROVE ClientTypeOK'
<1> USE DEF poolVars, identityVars
<1>1. ASSUME NEW t \in Tasks, NEW d \in Sites, Begin(t, d) PROVE ClientTypeOK'
  <2>1. /\ UNCHANGED <<pool, strategy, health, siteSessions, usedIps, record, checked, refused>>
        /\ made' = made + 1 /\ turn' \in {turn, turn + 1}
    BY <1>1 DEF Begin
  <2>2. request' \in [Tasks -> ClientRequest]
    BY <1>1, BeginMoves
  <2>3. \A o \in Tasks : request'[o].step = "idle" \/ request'[o].domain \in Sites
    <3> TAKE o \in Tasks
    <3>1. CASE o = t
      BY <1>1, <3>1, BeginMoves
    <3>2. CASE o # t
      <4>1. request'[o] = request[o]
        BY <1>1, <3>2, BeginMoves
      <4>2. QED
        BY <4>1 DEF ClientTypeOK
    <3>3. QED
      BY <3>1, <3>2
  <2>4. made' \in Nat /\ turn' \in Nat
    BY <2>1 DEF ClientTypeOK
  <2>5. QED
    BY <2>1, <2>2, <2>3, <2>4 DEF ClientTypeOK
<1>2. ASSUME NEW t \in Tasks, LookUpSession(t) PROVE ClientTypeOK'
  <2>1. /\ request[t].step # "idle"
        /\ UNCHANGED <<pool, strategy, health, turn, siteSessions, usedIps, record, made, checked,
                       refused>>
    BY <1>2 DEF LookUpSession
  <2>2. QED
    BY <1>2, <2>1, LookUpMoves, MoveKeepsType DEF ClientTypeOK
<1>3. ASSUME NEW t \in Tasks, InsertSession(t) PROVE ClientTypeOK'
  <2>1. /\ request[t].step # "idle"
        /\ UNCHANGED <<pool, strategy, health, turn, usedIps, record, made, checked, refused>>
    BY <1>3 DEF InsertSession
  <2>2. QED
    BY <1>3, <2>1, InsertMoves, MoveKeepsType DEF ClientTypeOK
<1>4. ASSUME NEW t \in Tasks, ReadWorking(t) PROVE ClientTypeOK'
  <2>1. /\ request[t].step # "idle"
        /\ UNCHANGED <<pool, strategy, health, turn, siteSessions, usedIps, record, made, checked,
                       refused>>
    BY <1>4 DEF ReadWorking
  <2>2. QED
    BY <1>4, <2>1, ReadMoves, MoveKeepsType DEF ClientTypeOK
<1>5. ASSUME NEW t \in Tasks, Reuse(t) PROVE ClientTypeOK'
  <2>1. /\ request[t].step # "idle" /\ Moves(t, "sent", request[t].address)
        /\ UNCHANGED <<pool, strategy, health, turn, siteSessions, usedIps, record, made, checked,
                       refused>>
    BY <1>5, SetStep DEF Reuse, Steps
  <2>2. QED
    BY <2>1, MoveKeepsType DEF ClientTypeOK
<1>6. ASSUME NEW t \in Tasks, Generate(t) PROVE ClientTypeOK'
  <2>1. /\ request[t].step # "idle"
        /\ UNCHANGED <<pool, strategy, health, turn, siteSessions, record, made, checked, refused>>
    BY <1>6 DEF Generate
  <2>2. usedIps' \subseteq Addresses
    BY <1>6, GenerateMoves DEF ClientTypeOK
  <2>3. QED
    BY <1>6, <2>1, <2>2, GenerateMoves, MoveKeepsType DEF ClientTypeOK
<1>7. ASSUME NEW t \in Tasks, GetAnswer(t) PROVE ClientTypeOK'
  <2>1. /\ request[t].step # "idle"
        /\ UNCHANGED <<pool, strategy, turn, siteSessions, usedIps, record, made, checked>>
    BY <1>7 DEF GetAnswer
  <2>2. QED
    BY <1>7, <2>1, AnswerMoves, AnswerType, MoveKeepsType DEF ClientTypeOK
<1>8. ASSUME NEW t \in Tasks, SendFails(t) PROVE ClientTypeOK'
  <2>1. UNCHANGED <<pool, strategy, health, turn, siteSessions, usedIps, record, made, checked,
                    refused>>
    BY <1>8 DEF SendFails
  <2>2. request' = [request EXCEPT ![t] = NoRequest] /\ request \in [Tasks -> ClientRequest]
    BY <1>8 DEF SendFails, ClientTypeOK
  <2>3. request' \in [Tasks -> ClientRequest]
    BY <2>2, NoRequestType
  <2>4. \A o \in Tasks : request'[o].step = "idle" \/ request'[o].domain \in Sites
    BY <2>2 DEF ClientTypeOK, NoRequest
  <2>5. QED
    BY <2>1, <2>3, <2>4 DEF ClientTypeOK
<1>9. ASSUME NEW t \in Tasks, ReportIdentity(t) PROVE ClientTypeOK'
  <2> DEFINE a == request[t].address
             outcome == request[t].outcome
  <2>1. UNCHANGED <<pool, strategy, health, turn, siteSessions, usedIps, made, checked>>
    BY <1>9 DEF ReportIdentity
  <2>2. record' = IF a = None THEN record ELSE [record EXCEPT ![a] = Recorded(@, outcome)]
    BY <1>9 DEF ReportIdentity
  <2>3. a \in Addresses \cup {None}
    BY DEF ClientTypeOK, ClientRequest
  <2> HIDE DEF a, outcome
  <2>4. record' \in [Addresses -> Record]
    <3>1. CASE a = None
      BY <2>2, <3>1 DEF ClientTypeOK
    <3>2. CASE a # None
      <4>1. a \in Addresses /\ record[a] \in Record /\ record \in [Addresses -> Record]
        BY <2>3, <3>2 DEF ClientTypeOK
      <4>2. Recorded(record[a], outcome) \in Record
        BY <4>1, RecordedType
      <4>3. QED
        BY <2>2, <3>2, <4>1, <4>2
    <3>3. QED
      BY <3>1, <3>2
  <2>5. refused' \in Shuns
    <3>1. PICK kept \in SUBSET Addresses : refused' = [refused EXCEPT !.addresses = kept]
      <4>1. /\ refused' = [refused EXCEPT !.addresses =
                        CASE outcome = "refused" /\ a # None -> @ \cup {a}
                          [] outcome = "ok" -> @ \ {a}
                          [] OTHER -> @]
            /\ refused.addresses \subseteq Addresses
        BY <1>9 DEF ReportIdentity, ClientTypeOK, Shuns, a, outcome
      <4> DEFINE kept == CASE outcome = "refused" /\ a # None -> refused.addresses \cup {a}
                          [] outcome = "ok" -> refused.addresses \ {a}
                          [] OTHER -> refused.addresses
      <4>2. kept \subseteq Addresses
        BY <2>3, <4>1
      <4>3. refused' = [refused EXCEPT !.addresses = kept]
        BY <4>1
      <4> HIDE DEF kept
      <4>4. QED
        BY <4>2, <4>3
    <3>2. QED
      BY <3>1 DEF ClientTypeOK, Shuns
  <2>6. request' \in [Tasks -> ClientRequest]
    BY <1>9, ReportMoves
  <2>7. \A o \in Tasks : request'[o].step = "idle" \/ request'[o].domain \in Sites
    <3> TAKE o \in Tasks
    <3>1. CASE o = t
      BY <1>9, <3>1, ReportMoves DEF NoRequest
    <3>2. CASE o # t
      <4>1. request'[o].step = request[o].step /\ request'[o].domain = request[o].domain
        BY <1>9, <3>2, ReportMoves
      <4>2. QED
        BY <4>1 DEF ClientTypeOK
    <3>3. QED
      BY <3>1, <3>2
  <2>8. QED
    BY <2>1, <2>4, <2>5, <2>6, <2>7 DEF ClientTypeOK
<1>10. ASSUME NEW p \in Proxies, CoolDown(p) PROVE ClientTypeOK'
  BY <1>10 DEF CoolDown, ClientTypeOK
<1>11. ASSUME NEW p \in Proxies, HealthCheck(p) PROVE ClientTypeOK'
  <2>1. /\ UNCHANGED <<pool, strategy, turn, siteSessions, usedIps, record, request, made, refused>>
        /\ checked' = checked + 1
    BY <1>11 DEF HealthCheck
  <2>2. PICK outcome \in Outcomes : health' = [health EXCEPT ![p] = Judged(@, outcome)]
    BY <1>11 DEF HealthCheck, Outcomes
  <2>3. health' \in [Proxies -> [failures : Nat, cooling : BOOLEAN, banned : BOOLEAN]]
    BY <2>2, JudgedType DEF ClientTypeOK
  <2>4. QED
    BY <2>1, <2>3 DEF ClientTypeOK
<1>12. CASE UNCHANGED clientVars
  BY <1>12 DEF clientVars, ClientTypeOK
<1>13. QED
  BY <1>1, <1>2, <1>3, <1>4, <1>5, <1>6, <1>7, <1>8, <1>9, <1>10, <1>11, <1>12
     DEF ClientNext, Step

\* Every variable of the client keeps its type, for any pools, tasks and addresses.
THEOREM ClientTypeCorrect == ClientSpec => []ClientTypeOK
<1>1. ClientInit => ClientTypeOK
  <2> SUFFICES ASSUME ClientInit PROVE ClientTypeOK
    OBVIOUS
  <2>1. pool \in [list : Seq(Proxies), generated : BOOLEAN]
    BY BuiltType DEF ClientInit
  <2>2. strategy \in Strategy /\ refused \in Shuns
    BY HumanClientAssumption DEF ClientInit, HumanClientAssumption, Shuns, Shun
  <2>3. request \in [Tasks -> ClientRequest] /\ \A t \in Tasks : request[t].step = "idle"
    <3>1. request = [t \in Tasks |-> NoRequest] /\ NoRequest.step = "idle"
      BY DEF ClientInit, NoRequest
    <3>2. QED
      BY <3>1, NoRequestType
  <2>4. record \in [Addresses -> Record]
    BY DEF ClientInit, Record, Unknown
  <2>5. health \in [Proxies -> [failures : Nat, cooling : BOOLEAN, banned : BOOLEAN]]
    BY DEF ClientInit, Healthy
  <2>6. QED
    BY <2>1, <2>2, <2>3, <2>4, <2>5 DEF ClientInit, ClientTypeOK
<1>2. QED
  BY <1>1, ClientTypeKept, PTL DEF ClientSpec

-----------------------------------------------------------------------------
(* Bans *)

\* A generated proxy that a request was refused through is banned, and the proxy of a
\* request was in the list when it was selected, as it still is.
BanInv ==
    pool.generated =>
        /\ \A p \in refused.proxies : p \in Proxies /\ health[p].banned
        /\ \A t \in Tasks : request[t].proxy \in Listed \cup {None}
        /\ \A t \in Tasks : request[t].proxy \notin request[t].shuns.proxies

\* A step that leaves proxies and refusals alone.
LEMMA BanUnmoved ==
    ASSUME BanInv, UNCHANGED pool, refused'.proxies = refused.proxies,
           \A p \in Proxies : health[p].banned => health'[p].banned,
           \A o \in Tasks : /\ request'[o].proxy = request[o].proxy
                            /\ request'[o].shuns.proxies = request[o].shuns.proxies
    PROVE  BanInv'
BY DEF BanInv, Listed

LEMMA BanMoved ==
    ASSUME BanInv, UNCHANGED <<pool, health, refused>>,
           NEW t \in Tasks, NEW step, NEW address, Moves(t, step, address)
    PROVE  BanInv'
<1>1. \A o \in Tasks : /\ request'[o].proxy = request[o].proxy
                       /\ request'[o].shuns.proxies = request[o].shuns.proxies
  BY DEF Moves
<1>2. QED
  BY <1>1, BanUnmoved

LEMMA BanKept ==
    ASSUME ClientTypeOK, BanInv, [ClientNext]_clientVars
    PROVE  BanInv'
<1> USE DEF poolVars
<1>1. ASSUME NEW t \in Tasks, NEW d \in Sites, Begin(t, d) PROVE BanInv'
  <2> SUFFICES ASSUME pool'.generated PROVE BanInv'
    BY DEF BanInv
  <2>1. UNCHANGED <<pool, health, refused>>
    BY <1>1 DEF Begin
  <2>2. \A o \in Tasks \ {t} : request'[o] = request[o]
    BY <1>1, BeginMoves
  <2>3. /\ request'[t].shuns = refused
        /\ request'[t].proxy # None => request'[t].proxy \in Listed /\ IsAvailable(request'[t].proxy)
    BY <1>1, BeginMoves
  <2>4. /\ \A p \in refused.proxies : p \in Proxies /\ health[p].banned
        /\ \A o \in Tasks : request[o].proxy \in Listed \cup {None}
        /\ \A o \in Tasks : request[o].proxy \notin request[o].shuns.proxies
    BY <2>1 DEF BanInv
  <2>5. request'[t].proxy \notin refused.proxies
    BY <2>3, <2>4, HumanClientAssumption DEF IsAvailable, HumanClientAssumption
  <2>6. Listed' = Listed
    BY <2>1 DEF Listed
  <2>7. \A o \in Tasks : /\ request'[o].proxy \in Listed \cup {None}
                         /\ request'[o].proxy \notin request'[o].shuns.proxies
    BY <2>2, <2>3, <2>4, <2>5
  <2>8. QED
    BY <2>1, <2>4, <2>6, <2>7 DEF BanInv
<1>2. ASSUME NEW t \in Tasks, LookUpSession(t) PROVE BanInv'
  BY <1>2, LookUpMoves, BanMoved DEF LookUpSession
<1>3. ASSUME NEW t \in Tasks, InsertSession(t) PROVE BanInv'
  BY <1>3, InsertMoves, BanMoved DEF InsertSession
<1>4. ASSUME NEW t \in Tasks, ReadWorking(t) PROVE BanInv'
  BY <1>4, ReadMoves, BanMoved DEF ReadWorking
<1>5. ASSUME NEW t \in Tasks, Reuse(t) PROVE BanInv'
  BY <1>5, SetStep, BanMoved DEF Reuse, Steps
<1>6. ASSUME NEW t \in Tasks, Generate(t) PROVE BanInv'
  BY <1>6, GenerateMoves, BanMoved DEF Generate
<1>7. ASSUME NEW t \in Tasks, GetAnswer(t) PROVE BanInv'
  <2> SUFFICES ASSUME pool'.generated PROVE BanInv'
    BY DEF BanInv
  <2>1. UNCHANGED pool /\ pool.generated
    BY <1>7 DEF GetAnswer
  <2>2. PICK outcome \in Outcomes :
            /\ health' = [p \in Proxies |->
                    IF p \in Reported(request[t].proxy) THEN Judged(health[p], outcome)
                                                        ELSE health[p]]
            /\ refused' = IF outcome = "refused" /\ request[t].proxy # None
                          THEN [refused EXCEPT !.proxies = @ \cup {request[t].proxy}]
                          ELSE refused
    BY <1>7, AnswerMoves
  <2>3. \A o \in Tasks : request'[o].proxy = request[o].proxy /\ request'[o].shuns = request[o].shuns
    BY <1>7, AnswerMoves DEF Moves
  <2>4. \A p \in Proxies : health[p] \in [failures : Nat, cooling : BOOLEAN, banned : BOOLEAN]
    BY DEF ClientTypeOK
  <2>5. \A p \in Proxies : /\ health[p].banned => health'[p].banned
                           /\ outcome = "refused" /\ p \in Reported(request[t].proxy)
                                => health'[p].banned
    BY <2>2, <2>4, JudgedType
  <2>6. /\ \A p \in refused.proxies : p \in Proxies /\ health[p].banned
        /\ \A o \in Tasks : request[o].proxy \in Listed \cup {None}
        /\ \A o \in Tasks : request[o].proxy \notin request[o].shuns.proxies
    BY <2>1 DEF BanInv
  <2>7. request[t].proxy # None =>
            request[t].proxy \in Proxies /\ request[t].proxy \in Reported(request[t].proxy)
    BY <2>1, <2>6, ListedType DEF Reported, Id
  <2>8. ASSUME NEW p \in refused'.proxies PROVE p \in Proxies /\ health'[p].banned
    <3>1. refused \in Shuns
      BY DEF ClientTypeOK
    <3>2. p \in refused.proxies \/ (outcome = "refused" /\ p = request[t].proxy /\ p # None)
      BY <2>2, <3>1 DEF Shuns
    <3>3. QED
      BY <2>5, <2>6, <2>7, <3>2
  <2>9. Listed' = Listed
    BY <2>1 DEF Listed
  <2>10. QED
    BY <2>3, <2>6, <2>8, <2>9 DEF BanInv
<1>8. ASSUME NEW t \in Tasks, SendFails(t) PROVE BanInv'
  <2>1. UNCHANGED <<pool, health, refused>> /\ request' = [request EXCEPT ![t] = NoRequest]
    BY <1>8 DEF SendFails
  <2>2. request \in [Tasks -> ClientRequest]
    BY DEF ClientTypeOK
  <2>3. /\ \A o \in Tasks \ {t} : request'[o] = request[o]
        /\ request'[t].proxy = None /\ request'[t].shuns.proxies = {}
    BY <2>1, <2>2 DEF NoRequest, Shun
  <2>4. Listed' = Listed
    BY <2>1 DEF Listed
  <2>5. QED
    BY <2>1, <2>3, <2>4 DEF BanInv
<1>9. ASSUME NEW t \in Tasks, ReportIdentity(t) PROVE BanInv'
  <2>1. UNCHANGED <<pool, health>>
    BY <1>9 DEF ReportIdentity
  <2>2. refused'.proxies = refused.proxies
    <3>1. PICK kept : refused' = [refused EXCEPT !.addresses = kept]
      BY <1>9 DEF ReportIdentity
    <3>2. QED
      BY <3>1 DEF ClientTypeOK, Shuns
  <2>3. /\ request'[t].proxy = None /\ request'[t].shuns.proxies = {}
        /\ \A o \in Tasks \ {t} : /\ request'[o].proxy = request[o].proxy
                                  /\ request'[o].shuns.proxies = request[o].shuns.proxies
    <3>1. request'[t] = NoRequest
      BY <1>9, ReportMoves
    <3>2. NoRequest.proxy = None /\ NoRequest.shuns.proxies = {}
      BY DEF NoRequest, Shun
    <3>3. QED
      BY <1>9, <3>1, <3>2, ReportMoves
  <2>4. Listed' = Listed
    BY <2>1 DEF Listed
  <2>5. QED
    BY <2>1, <2>2, <2>3, <2>4 DEF BanInv
<1>10. ASSUME NEW p \in Proxies, CoolDown(p) PROVE BanInv'
  <2>1. UNCHANGED <<pool, refused, request>>
    BY <1>10 DEF CoolDown
  <2>2. health' = [health EXCEPT ![p].cooling = FALSE]
    BY <1>10 DEF CoolDown
  <2>3. \A q \in Proxies : health'[q].banned = health[q].banned
    BY <2>2 DEF ClientTypeOK
  <2>4. QED
    BY <2>1, <2>3, BanUnmoved
<1>11. ASSUME NEW p \in Proxies, HealthCheck(p) PROVE BanInv'
  <2>1. UNCHANGED <<pool, refused, request>>
    BY <1>11 DEF HealthCheck
  <2>2. PICK outcome \in Outcomes : health' = [health EXCEPT ![p] = Judged(@, outcome)]
    BY <1>11 DEF HealthCheck, Outcomes
  <2>3. \A q \in Proxies : health[q].banned => health'[q].banned
    BY <2>2, JudgedType DEF ClientTypeOK
  <2>4. QED
    BY <2>1, <2>3, BanUnmoved
<1>12. CASE UNCHANGED clientVars
  BY <1>12, BanUnmoved DEF clientVars
<1>13. QED
  BY <1>1, <1>2, <1>3, <1>4, <1>5, <1>6, <1>7, <1>8, <1>9, <1>10, <1>11, <1>12
     DEF ClientNext, Step

\* A generated proxy whose refusal had been reported when a request began is not used by
\* it, for any pool and strategy and any number of tasks: the report bans it, and neither
\* a late success, nor a health check, nor the end of a cooldown lifts the ban.
THEOREM BansHold == ClientSpec => []BanHolds
<1>1. ClientInit => BanInv
  BY DEF ClientInit, BanInv, NoRequest, Shun
<1>2. BanInv => BanHolds
  BY DEF BanInv, BanHolds
<1>3. QED
  BY <1>1, <1>2, BanKept, ClientTypeCorrect, PTL DEF ClientSpec

-----------------------------------------------------------------------------
(* Identities *)

Chosen == {"reuse", "sent", "report"}

\* A refused address is discarded until a success takes the refusal back, and no request
\* has chosen an address that it shuns.
ShunInv ==
    /\ \A a \in Addresses :
          a \in refused.addresses \/ (\E t \in Tasks : a \in request[t].shuns.addresses) =>
              record[a].known /\ ~record[a].working /\ record[a].discarded
    /\ \A t \in Tasks : request[t].step \in Chosen =>
          request[t].address \notin request[t].shuns.addresses

\* An address that is shown has worked, or was drawn, and by one request only.
FreshInv ==
    /\ \A t \in Tasks : request[t].step \notin Chosen => request[t].address = None
    /\ \A t \in Tasks : request[t].step = "reuse" => request[t].address \in Addresses
    /\ \A t \in Tasks : request[t].step = "reuse" => record[request[t].address].successes > 0
    /\ \A t \in Sent : request[t].address # None =>
          record[request[t].address].successes > 0 \/ request[t].address \in usedIps
    /\ FreshIdentities

IdentitiesInv == ShunInv /\ FreshInv

LEMMA ClientNone == \A a \in Addresses : a # None
BY HumanClientAssumption DEF HumanClientAssumption

LEMMA IdentityMoved ==
    ASSUME ClientTypeOK, IdentitiesInv, NEW t \in Tasks, NEW step, NEW address,
           Moves(t, step, address),
           UNCHANGED record, refused'.addresses = refused.addresses, usedIps \subseteq usedIps',
           step \in Chosen => address \notin request[t].shuns.addresses,
           step \notin Chosen => address = None,
           step = "reuse" => address \in Addresses /\ record[address].successes > 0,
           step \in {"sent", "report"} /\ address # None =>
               \/ record[address].successes > 0
               \/ address \in usedIps' /\ \A s \in Sent \ {t} : request[s].address # address
    PROVE  IdentitiesInv'
<1>1. /\ \A o \in Tasks \ {t} : request'[o] = request[o]
      /\ request'[t].step = step /\ request'[t].address = address
      /\ request'[t].shuns = request[t].shuns
  BY DEF Moves
<1>2. ShunInv /\ FreshInv
  BY DEF IdentitiesInv
<1>3. ShunInv'
  <2>1. \A o \in Tasks : request'[o].shuns = request[o].shuns
    BY <1>1
  <2>2. ASSUME NEW o \in Tasks, request'[o].step \in Chosen
        PROVE  request'[o].address \notin request'[o].shuns.addresses
    BY <1>1, <1>2, <2>2 DEF ShunInv
  <2>3. QED
    BY <1>2, <2>1, <2>2 DEF ShunInv
<1>4. ASSUME NEW o \in Sent' PROVE o \in Tasks /\ (o # t => o \in Sent)
  BY <1>1 DEF Sent
<1>5. t \in Sent' => step \in {"sent", "report"}
  BY <1>1 DEF Sent
<1>6. \A o \in Sent' : request'[o].address # None =>
          record[request'[o].address].successes > 0 \/ request'[o].address \in usedIps'
  BY <1>1, <1>2, <1>4, <1>5 DEF FreshInv
<1>7. FreshIdentities'
  <2> SUFFICES ASSUME NEW r \in Sent', NEW s \in Sent', r # s,
                      request'[r].address = request'[s].address, request'[r].address # None
               PROVE  record[request'[r].address].successes > 0
    BY DEF FreshIdentities
  <2>1. CASE r = t
    BY <1>1, <1>4, <1>5, <2>1
  <2>2. CASE s = t
    BY <1>1, <1>4, <1>5, <2>2
  <2>3. CASE r # t /\ s # t
    BY <1>1, <1>2, <1>4, <2>3 DEF FreshInv, FreshIdentities
  <2>4. QED
    BY <2>1, <2>2, <2>3
<1>8. \A o \in Tasks :
          /\ request'[o].step \notin Chosen => request'[o].address = None
          /\ request'[o].step = "reuse" =>
                 request'[o].address \in Addresses /\ record[request'[o].address].successes > 0
  BY <1>1, <1>2 DEF FreshInv
<1>9. FreshInv'
  BY <1>6, <1>7, <1>8 DEF FreshInv
<1>10. QED
  BY <1>3, <1>9 DEF IdentitiesInv

\* A request that begins, or ends without a report.
LEMMA IdentityReset ==
    ASSUME ClientTypeOK, IdentitiesInv, NEW t \in Tasks,
           \A o \in Tasks \ {t} : request'[o] = request[o],
           request'[t].step \notin Chosen, request'[t].address = None,
           request'[t].shuns.addresses \subseteq refused.addresses,
           UNCHANGED <<record, refused, usedIps>>
    PROVE  IdentitiesInv'
<1>1. ShunInv /\ FreshInv
  BY DEF IdentitiesInv
<1>2. ShunInv'
  BY <1>1 DEF ShunInv
<1>3. Sent' \subseteq Sent /\ t \notin Sent'
  BY DEF Sent, Chosen
<1>4. FreshIdentities'
  BY <1>1, <1>3 DEF FreshInv, FreshIdentities, Sent
<1>5. FreshInv'
  <2>1. \A o \in Sent' : request'[o] = request[o]
    BY <1>3 DEF Sent
  <2>2. request'[t].step # "reuse"
    BY DEF Chosen
  <2>3. QED
    BY <1>1, <1>3, <1>4, <2>1, <2>2 DEF FreshInv
<1>6. QED
  BY <1>2, <1>5 DEF IdentitiesInv

LEMMA IdentityReported ==
    ASSUME ClientTypeOK, IdentitiesInv, NEW t \in Tasks, ReportIdentity(t)
    PROVE  IdentitiesInv'
<1> DEFINE a == request[t].address
           outcome == request[t].outcome
<1>1. /\ record' = IF a = None THEN record ELSE [record EXCEPT ![a] = Recorded(@, outcome)]
      /\ refused' = [refused EXCEPT !.addresses =
                        CASE outcome = "refused" /\ a # None -> @ \cup {a}
                          [] outcome = "ok" -> @ \ {a}
                          [] OTHER -> @]
      /\ UNCHANGED usedIps
  BY DEF ReportIdentity
<1>2. a \in Addresses \cup {None} /\ record \in [Addresses -> Record] /\ refused \in Shuns
  BY DEF ClientTypeOK, ClientRequest
<1>3. /\ request'[t].step = "idle" /\ request'[t].address = None
      /\ request'[t].shuns.addresses = {}
  <2>1. request'[t] = NoRequest
    BY ReportMoves
  <2>2. QED
    BY <2>1 DEF NoRequest, Shun
<1>4. \A o \in Tasks \ {t} :
        /\ request'[o].step = request[o].step /\ request'[o].address = request[o].address
        /\ request'[o].shuns.addresses =
             IF outcome = "ok" THEN request[o].shuns.addresses \ {a}
             ELSE request[o].shuns.addresses
  BY ReportMoves
<1> HIDE DEF a, outcome
<1>5. ShunInv /\ FreshInv
  BY DEF IdentitiesInv
<1>6. ASSUME NEW b \in Addresses
      PROVE  /\ b # a => record'[b] = record[b]
             /\ b = a => record'[b] = Recorded(record[b], outcome)
             /\ record[b].successes > 0 => record'[b].successes > 0
  <2>1. record[b] \in Record /\ b # None
    BY <1>2, ClientNone
  <2>2. b # a => record'[b] = record[b]
    BY <1>1, <1>2
  <2>3. b = a => record'[b] = Recorded(record[b], outcome)
    BY <1>1, <1>2, <2>1
  <2>4. QED
    BY <2>1, <2>2, <2>3, RecordedType
<1>7. refused'.addresses = CASE outcome = "refused" /\ a # None -> refused.addresses \cup {a}
                             [] outcome = "ok" -> refused.addresses \ {a}
                             [] OTHER -> refused.addresses
  BY <1>1, <1>2 DEF Shuns
<1>8. ShunInv'
  <2>1. ASSUME NEW b \in Addresses,
               b \in refused'.addresses \/ \E o \in Tasks : b \in request'[o].shuns.addresses
        PROVE  record'[b].known /\ ~record'[b].working /\ record'[b].discarded
    <3>1. \/ outcome = "refused" /\ b = a
          \/ /\ b \in refused.addresses \/ \E o \in Tasks : b \in request[o].shuns.addresses
             /\ outcome = "ok" => b # a
      <4>1. CASE b \in refused'.addresses
        BY <1>7, <4>1
      <4>2. ASSUME NEW o \in Tasks, b \in request'[o].shuns.addresses
            PROVE  b \in request[o].shuns.addresses /\ (outcome = "ok" => b # a)
        BY <1>3, <1>4, <4>2
      <4>3. QED
        BY <2>1, <4>1, <4>2
    <3>2. record[b] \in Record
      BY <1>2
    <3>3. CASE outcome = "refused" /\ b = a
      BY <1>6, <3>2, <3>3, RecordedType
    <3>4. CASE /\ b \in refused.addresses \/ \E o \in Tasks : b \in request[o].shuns.addresses
               /\ outcome = "ok" => b # a
      <4>1. record[b].known /\ ~record[b].working /\ record[b].discarded
        BY <1>5, <3>4 DEF ShunInv
      <4>2. CASE b # a
        BY <1>6, <4>1, <4>2
      <4>3. CASE b = a
        BY <1>6, <3>2, <3>4, <4>1, <4>3, RecordedType
      <4>4. QED
        BY <4>2, <4>3
    <3>5. QED
      BY <3>1, <3>3, <3>4
  <2>2. ASSUME NEW o \in Tasks, request'[o].step \in Chosen
        PROVE  request'[o].address \notin request'[o].shuns.addresses
    BY <1>3, <1>4, <1>5, <2>2 DEF ShunInv, Chosen
  <2>3. QED
    BY <2>1, <2>2 DEF ShunInv
<1>9. Sent' \subseteq Sent /\ t \notin Sent'
  BY <1>3, <1>4 DEF Sent
<1>10. \A o \in Sent' : request'[o].address = request[o].address /\ o \in Tasks
  BY <1>4, <1>9 DEF Sent
<1>11. \A o \in Tasks : request[o].address \in Addresses \cup {None}
  BY DEF ClientTypeOK, ClientRequest
<1>12. FreshIdentities'
  <2> SUFFICES ASSUME NEW r \in Sent', NEW s \in Sent', r # s,
                      request'[r].address = request'[s].address, request'[r].address # None
               PROVE  record'[request'[r].address].successes > 0
    BY DEF FreshIdentities
  <2>1. record[request[r].address].successes > 0
    BY <1>5, <1>9, <1>10 DEF FreshInv, FreshIdentities
  <2>2. request[r].address \in Addresses /\ request'[r].address = request[r].address
    BY <1>10, <1>11
  <2>3. QED
    BY <1>6, <2>1, <2>2
<1>13. FreshInv'
  <2>1. \A o \in Tasks : request'[o].step \notin Chosen => request'[o].address = None
    BY <1>3, <1>4, <1>5 DEF FreshInv
  <2>2. ASSUME NEW o \in Tasks, request'[o].step = "reuse"
        PROVE  request'[o].address \in Addresses /\ record'[request'[o].address].successes > 0
    <3>1. /\ request[o].step = "reuse" /\ request'[o].address = request[o].address
      BY <1>3, <1>4, <2>2
    <3>2. request[o].address \in Addresses /\ record[request[o].address].successes > 0
      BY <1>5, <3>1 DEF FreshInv
    <3>3. QED
      BY <1>6, <3>1, <3>2
  <2>3. ASSUME NEW o \in Sent', request'[o].address # None
        PROVE  record'[request'[o].address].successes > 0 \/ request'[o].address \in usedIps'
    <3>1. o \in Sent /\ request'[o].address = request[o].address
      BY <1>9, <1>10
    <3>2. record[request[o].address].successes > 0 \/ request[o].address \in usedIps
      BY <1>5, <2>3, <3>1 DEF FreshInv
    <3>3. request[o].address \in Addresses
      BY <1>10, <1>11, <2>3
    <3>4. QED
      BY <1>1, <1>6, <3>1, <3>2, <3>3
  <2>4. QED
    BY <1>12, <2>1, <2>2, <2>3 DEF FreshInv
<1>14. QED
  BY <1>8, <1>13 DEF IdentitiesInv

LEMMA IdentitiesKept ==
    ASSUME ClientTypeOK, IdentitiesInv, [ClientNext]_clientVars
    PROVE  IdentitiesInv'
<1> USE DEF identityVars
<1>1. \A t \in Tasks : request[t].step \notin Chosen => request[t].address = None
  BY DEF IdentitiesInv, FreshInv
<1>2. \A t \in Tasks : request[t].step \in Chosen =>
          request[t].address \notin request[t].shuns.addresses
  BY DEF IdentitiesInv, ShunInv
<1>3. \A a \in Addresses : a \in refused.addresses \/ (\E t \in Tasks : a \in request[t].shuns.addresses) =>
              record[a].known /\ ~record[a].working /\ record[a].discarded
  BY DEF IdentitiesInv, ShunInv
<1>4. \A t \in Tasks : request[t].shuns.addresses \subseteq Addresses
  BY DEF ClientTypeOK, ClientRequest, Shuns
<1>5. ASSUME UNCHANGED <<request, record, refused, usedIps>> PROVE IdentitiesInv'
  BY <1>5 DEF IdentitiesInv, ShunInv, FreshInv, FreshIdentities, Sent
<1>6. ASSUME NEW t \in Tasks, NEW d \in Sites, Begin(t, d) PROVE IdentitiesInv'
  <2>1. /\ \A o \in Tasks \ {t} : request'[o] = request[o]
        /\ request'[t].step = "lookup" /\ request'[t].address = None
        /\ request'[t].shuns = refused
    BY <1>6, BeginMoves
  <2>2. UNCHANGED <<record, refused, usedIps>>
    BY <1>6 DEF Begin
  <2>3. request'[t].step \notin Chosen /\ request'[t].shuns.addresses \subseteq refused.addresses
    BY <2>1 DEF Chosen
  <2>4. QED
    BY <2>1, <2>2, <2>3, IdentityReset
<1>7. ASSUME NEW t \in Tasks, LookUpSession(t) PROVE IdentitiesInv'
  <2>1. /\ request[t].step = "lookup" /\ UNCHANGED <<record, refused, usedIps>>
    BY <1>7 DEF LookUpSession
  <2>2. request[t].address = None
    BY <1>1, <2>1 DEF Chosen
  <2>3. PICK step \in {"insert", "identity"} : Moves(t, step, None)
    BY <1>7, <2>2, LookUpMoves
  <2>4. step \notin Chosen /\ step # "reuse" /\ step \notin {"sent", "report"}
    BY DEF Chosen
  <2>5. QED
    BY <2>1, <2>3, <2>4, IdentityMoved
<1>8. ASSUME NEW t \in Tasks, InsertSession(t) PROVE IdentitiesInv'
  <2>1. /\ request[t].step = "insert" /\ UNCHANGED <<record, refused, usedIps>>
    BY <1>8 DEF InsertSession
  <2>2. request[t].address = None
    BY <1>1, <2>1 DEF Chosen
  <2>3. Moves(t, "identity", None)
    BY <1>8, <2>2, InsertMoves
  <2>4. QED
    BY <2>1, <2>3, IdentityMoved DEF Chosen
<1>9. ASSUME NEW t \in Tasks, ReadWorking(t) PROVE IdentitiesInv'
  <2>1. /\ request[t].step = "identity" /\ UNCHANGED <<record, refused, usedIps>>
    BY <1>9 DEF ReadWorking
  <2>2. request[t].address = None
    BY <1>1, <2>1 DEF Chosen
  <2>3. CASE Moves(t, "generate", None)
    BY <2>1, <2>3, IdentityMoved DEF Chosen
  <2>4. ASSUME NEW a \in Addresses, Works(a), Moves(t, "reuse", a) PROVE IdentitiesInv'
    <3>1. a \notin request[t].shuns.addresses /\ record[a].successes > 0
      BY <1>3, <2>4 DEF Works
    <3>2. QED
      BY <2>1, <2>4, <3>1, IdentityMoved DEF Chosen
  <2>5. QED
    BY <1>9, <2>2, <2>3, <2>4, ReadMoves
<1>10. ASSUME NEW t \in Tasks, Reuse(t) PROVE IdentitiesInv'
  <2>1. /\ request[t].step = "reuse" /\ UNCHANGED <<record, refused, usedIps>>
        /\ Moves(t, "sent", request[t].address)
    BY <1>10, SetStep DEF Reuse, Steps
  <2>2. record[request[t].address].successes > 0
    BY <2>1 DEF IdentitiesInv, FreshInv
  <2>3. request[t].address \notin request[t].shuns.addresses
    BY <1>2, <2>1 DEF Chosen
  <2>4. QED
    BY <2>1, <2>2, <2>3, IdentityMoved DEF Chosen
<1>11. ASSUME NEW t \in Tasks, Generate(t) PROVE IdentitiesInv'
  <2>1. request[t].step = "generate" /\ UNCHANGED <<record, refused>>
    BY <1>11 DEF Generate
  <2>2. request[t].address = None
    BY <1>1, <2>1 DEF Chosen
  <2>3. CASE Moves(t, "sent", None) /\ UNCHANGED usedIps
    <3>1. None \notin request[t].shuns.addresses
      BY <1>4, ClientNone
    <3>2. QED
      BY <2>1, <2>3, <3>1, IdentityMoved DEF Chosen
  <2>4. ASSUME NEW a \in Addresses \ usedIps, ~IsDiscarded(a), usedIps' = usedIps \cup {a},
               Moves(t, "sent", a)
        PROVE  IdentitiesInv'
    <3>1. a \notin request[t].shuns.addresses
      BY <1>3, <2>4 DEF IsDiscarded
    <3>2. record[a].successes > 0 \/ \A s \in Sent : request[s].address # a
      BY ClientNone DEF IdentitiesInv, FreshInv
    <3>3. QED
      BY <2>1, <2>4, <3>1, <3>2, IdentityMoved DEF Chosen
  <2>5. QED
    BY <1>11, <2>2, <2>3, <2>4, GenerateMoves
<1>12. ASSUME NEW t \in Tasks, GetAnswer(t) PROVE IdentitiesInv'
  <2>1. request[t].step = "sent" /\ UNCHANGED <<record, usedIps>>
    BY <1>12 DEF GetAnswer
  <2>2. Moves(t, "report", request[t].address)
    BY <1>12, AnswerMoves
  <2>3. refused'.addresses = refused.addresses
    <3>1. \E kept : refused' = refused \/ refused' = [refused EXCEPT !.proxies = kept]
      BY <1>12 DEF GetAnswer
    <3>2. QED
      BY <3>1 DEF ClientTypeOK, Shuns
  <2>4. t \in Sent /\ request[t].address \notin request[t].shuns.addresses
    BY <1>2, <2>1 DEF Sent, Chosen
  <2>5. request[t].address # None =>
            \/ record[request[t].address].successes > 0
            \/ /\ request[t].address \in usedIps
               /\ \A s \in Sent \ {t} : request[s].address # request[t].address
    BY <2>4 DEF IdentitiesInv, FreshInv, FreshIdentities
  <2>6. QED
    BY <2>1, <2>2, <2>3, <2>4, <2>5, IdentityMoved DEF Chosen
<1>13. ASSUME NEW t \in Tasks, SendFails(t) PROVE IdentitiesInv'
  <2>1. UNCHANGED <<record, refused, usedIps>> /\ request' = [request EXCEPT ![t] = NoRequest]
    BY <1>13 DEF SendFails
  <2>2. /\ \A o \in Tasks \ {t} : request'[o] = request[o]
        /\ request'[t].step = "idle" /\ request'[t].address = None
        /\ request'[t].shuns.addresses = {}
    BY <2>1 DEF ClientTypeOK, NoRequest, Shun
  <2>3. request'[t].step \notin Chosen /\ request'[t].shuns.addresses \subseteq refused.addresses
    BY <2>2 DEF Chosen
  <2>4. QED
    BY <2>1, <2>2, <2>3, IdentityReset
<1>14. ASSUME NEW t \in Tasks, ReportIdentity(t) PROVE IdentitiesInv'
  BY <1>14, IdentityReported
<1>15. CASE \E p \in Proxies : CoolDown(p) \/ HealthCheck(p)
  BY <1>5, <1>15 DEF CoolDown, HealthCheck
<1>16. CASE UNCHANGED clientVars
  BY <1>5, <1>16 DEF clientVars
<1>17. QED
  BY <1>6, <1>7, <1>8, <1>9, <1>10, <1>11, <1>12, <1>13, <1>14, <1>15, <1>16
     DEF ClientNext, Step

LEMMA IdentitiesInvariant == ClientSpec => []IdentitiesInv
<1>1. ClientInit => IdentitiesInv
  BY DEF ClientInit, IdentitiesInv, ShunInv, FreshInv, FreshIdentities, Sent, Chosen, NoRequest, Shun
<1>2. QED
  BY <1>1, IdentitiesKept, ClientTypeCorrect, PTL DEF ClientSpec

\* An identity whose refusal had been reported when a request began is not what that
\* request shows, for any number of tasks and addresses, however the steps of their
\* requests interleave, unless a success of an older request took the refusal back.
THEOREM RefusedStayOut == ClientSpec => []RefusedNotReused
<1>1. IdentitiesInv => RefusedNotReused
  BY DEF IdentitiesInv, ShunInv, RefusedNotReused, Sent, Chosen
<1>2. QED
  BY <1>1, IdentitiesInvariant, PTL

\* Two requests under way show the same identity only if it has worked: marking an
\* address as used and looking whether it is are one step.
THEOREM FreshAreDistinct == ClientSpec => []FreshIdentities
<1>1. IdentitiesInv => FreshIdentities
  BY DEF IdentitiesInv, FreshInv
<1>2. QED
  BY <1>1, IdentitiesInvariant, PTL

=============================================================================
