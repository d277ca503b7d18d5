---------------------------- MODULE DomainSessions ----------------------------
(***************************************************************************)
(* How the bulk crawler treats the sites it visits (engine/bulk_crawler.rs *)
(* from DomainState to apply_backoff): it paces the requests to a domain,  *)
(* backs off after a failure, and makes its requests under a session that  *)
(* is retired when it is used up, too old, or has failed.                  *)
(*                                                                         *)
(* One task crawls all domains, a request at a time, so the wait for one   *)
(* domain is time that passes for the others.  What is fetched is the      *)
(* subject of BulkCrawler; here a request only succeeds or fails.          *)
(***************************************************************************)
EXTENDS Naturals, Sequences, FiniteSets

CONSTANTS
    Domains,
    Delay,          \* the larger of the minimum delay and the time per request
    CrawlDelay,     \* what the robots.txt of a domain asks for, 0 when nothing
    MaxRequests,    \* pages_per_session
    MaxAge,         \* session_max_age
    MaxExponent, MaxBackoff,    \* 6 and 60 s
    Deep,           \* deep research never backs off
    Fingerprints,   \* the device profiles that may be drawn
    RequestBound, TimeBound     \* bounds of the model

VARIABLES
    now,
    pc, dom, wake,  \* the task: pick, wait or fetch; for which domain; until when it sleeps
    last,           \* last_request of a domain, a set of at most one time
    until,          \* backoff_until, 0 for none
    succeeded, failed,  \* success_count and failure_count
    session,        \* the session of a domain, a set of at most one
    sessions,       \* how many sessions there have been
    fingerprint,    \* of a domain, in the session manager: a set of at most one
    used,           \* history: the session of each request
    burned, exposed \* history: sessions, and fingerprints, with a failed request

taskVars == <<pc, dom, wake>>
siteVars == <<last, until, succeeded, failed, session, sessions, fingerprint>>
history == <<used, burned, exposed>>
vars == <<now, taskVars, siteVars, history>>

ASSUME DomainSessionsAssumption ==
    /\ Delay \in Nat /\ CrawlDelay \in [Domains -> Nat]
    /\ MaxRequests \in Nat \ {0} /\ MaxAge \in Nat \ {0}
    /\ MaxExponent \in Nat /\ MaxBackoff \in Nat \ {0}
    /\ \A n \in 0..MaxExponent : 2 ^ n \in Nat \ {0}
    /\ Deep \in BOOLEAN /\ Fingerprints # {}
    /\ RequestBound \in Nat /\ TimeBound \in Nat

Session == [id : Nat \ {0}, fingerprint : Fingerprints, born : Nat, requests : Nat, failures : Nat]

Least(a, b) == IF a < b THEN a ELSE b
Most(a, b) == IF a < b THEN b ELSE a

Init ==
    /\ now = 0
    /\ pc = "pick" /\ dom \in Domains /\ wake = 0
    /\ last = [d \in Domains |-> {}]
    /\ until = [d \in Domains |-> 0]
    /\ succeeded = [d \in Domains |-> 0] /\ failed = [d \in Domains |-> 0]
    /\ session = [d \in Domains |-> {}]
    /\ sessions = 0
    /\ fingerprint = [d \in Domains |-> {}]
    /\ used = <<>> /\ burned = {} /\ exposed = {}

-----------------------------------------------------------------------------
(* wait_for_slot *)

Required(d) == Most(Delay, CrawlDelay[d])

\* A back-off that still runs is waited for in place of the required delay.
\* The mutant only knows the delay.
SlotByDelay(d) == Most(now, IF last[d] = {} THEN now ELSE (CHOOSE t \in last[d] : TRUE) + Required(d))

Slot(d) ==
    IF until[d] > now THEN until[d]
    ELSE IF last[d] = {} THEN now
    ELSE Most(now, (CHOOSE t \in last[d] : TRUE) + Required(d))

\* The queue's most relevant URL may be of any domain.
Pick(d) ==
    /\ pc = "pick" /\ Len(used) < RequestBound
    /\ pc' = "wait" /\ dom' = d /\ wake' = Slot(d)
    /\ UNCHANGED <<now, siteVars, history>>

-----------------------------------------------------------------------------
(* session_for_domain and rotate_session *)

ShouldRotate(s) ==
    \/ s.requests >= MaxRequests
    \/ now - s.born >= MaxAge
    \/ s.failures >= 3

\* session_for() of the session manager, a Sticky one: the first fingerprint drawn for a
\* domain is that of all its sessions.
FingerprintFor(d) == IF fingerprint[d] = {} THEN Fingerprints ELSE fingerprint[d]

\* Session ids have random numbers; here each session has the next.
NewSession(f) ==
    [id |-> sessions + 1, fingerprint |-> f, born |-> now, requests |-> 0, failures |-> 0]

Live(d) == {s \in session[d] : ~ShouldRotate(s)}

\* The sleep is over: the request goes out under the session of the domain, or a
\* new one.
Request ==
    /\ pc = "wait" /\ now >= wake
    /\ \E s \in IF Live(dom) # {} THEN Live(dom) ELSE {NewSession(f) : f \in FingerprintFor(dom)} :
       /\ session' = [session EXCEPT ![dom] = {s}]
       /\ fingerprint' = [fingerprint EXCEPT ![dom] = {s.fingerprint}]
       /\ used' = Append(used, s.id)
    /\ sessions' = IF Live(dom) # {} THEN sessions ELSE sessions + 1
    /\ last' = [last EXCEPT ![dom] = {now}]
    /\ pc' = "fetch"
    /\ UNCHANGED <<now, dom, wake, until, succeeded, failed, burned, exposed>>

-----------------------------------------------------------------------------
(* The answer, and apply_backoff *)

Backoff(excess) == Least(2 ^ Least(excess, MaxExponent), MaxBackoff)

Excess(d) == IF failed'[d] > succeeded[d] THEN failed'[d] - succeeded[d] ELSE 0

Counted(s, ok) ==
    [s EXCEPT !.requests = @ + 1, !.failures = IF ok THEN 0 ELSE @ + 1]

\* The mutant leaves it to should_rotate, which waits for three failures in a row.
RetiredLate(s, ok) == ShouldRotate(s)

Retired(s, ok) == ~ok \/ ShouldRotate(s)

Answer(ok) ==
    /\ pc = "fetch"
    /\ \E x \in session[dom], f \in FingerprintFor(dom) : LET s == Counted(x, ok) IN
       /\ session' = [session EXCEPT ![dom] = {IF Retired(s, ok) THEN NewSession(f) ELSE s}]
       /\ fingerprint' = [fingerprint EXCEPT ![dom] = {f}]
       /\ sessions' = IF Retired(s, ok) THEN sessions + 1 ELSE sessions
    /\ pc' = "pick"
    /\ UNCHANGED <<now, dom, wake, last, used>>

Succeed ==
    /\ Answer(TRUE)
    /\ succeeded' = [succeeded EXCEPT ![dom] = @ + 1]
    /\ UNCHANGED <<until, failed, burned, exposed>>

\* An error, or a page without valid content.
Fail ==
    /\ Answer(FALSE)
    /\ failed' = [failed EXCEPT ![dom] = @ + 1]
    /\ until' = IF Deep THEN until ELSE [until EXCEPT ![dom] = now + Backoff(Excess(dom))]
    /\ burned' = burned \cup {used[Len(used)]}
    /\ exposed' = exposed \cup fingerprint[dom]
    /\ UNCHANGED succeeded

Tick ==
    /\ now < TimeBound
    /\ now' = now + 1
    /\ UNCHANGED <<taskVars, siteVars, history>>

Next == Tick \/ Request \/ Succeed \/ Fail \/ \E d \in Domains : Pick(d)

Spec == Init /\ [][Next]_vars

-----------------------------------------------------------------------------
(* Properties *)

TypeOK ==
    /\ now \in Nat
    /\ pc \in {"pick", "wait", "fetch"} /\ dom \in Domains /\ wake \in Nat
    /\ last \in [Domains -> SUBSET Nat]
    /\ \A d \in Domains : \A t, u \in last[d] : t = u
    /\ until \in [Domains -> Nat]
    /\ succeeded \in [Domains -> Nat] /\ failed \in [Domains -> Nat]
    /\ session \in [Domains -> SUBSET Session]
    /\ \A d \in Domains : \A s, t \in session[d] : s = t
    /\ sessions \in Nat
    /\ fingerprint \in [Domains -> SUBSET Fingerprints]
    /\ used \in Seq(Nat \ {0}) /\ burned \subseteq Nat \ {0}
    /\ exposed \subseteq Fingerprints

\* No request goes to a domain that is being backed off from, and one follows the
\* request before it by the required delay, unless a back-off after that request has
\* been waited for in its place (bulk_crawler.rs:696-731), whatever the crawler did
\* for other domains in between.
PaceKept ==
    [][\A d \in Domains : last'[d] # last[d] =>
           /\ now >= until[d]
           /\ \A t \in last[d] : now >= t + Required(d) \/ until[d] > t]_vars

\* What the doc of BulkDomainCrawler says: "Respects robots.txt `Disallow` and
\* `Crawl-delay` directives" (bulk_crawler.rs:149).
CrawlDelayKept ==
    [][\A d \in Domains : last'[d] # last[d] =>
           \A t \in last[d] : now >= t + CrawlDelay[d]]_vars

\* The requests made under a session.
Uses(ids, id) == {i \in DOMAIN ids : ids[i] = id}

\* The session of a request in flight has failed no request, serves at most MaxRequests
\* of them, was younger than MaxAge when it was used, and is of this domain only, however
\* the domains take turns (bulk_crawler.rs:89: rotated "after `max_requests` or `max_age`",
\* and 549, 564 after a failure).  Its fingerprint is not spared.
SessionSpared ==
    pc = "fetch" =>
        LET id == used[Len(used)] IN
        /\ id \notin burned
        /\ Cardinality(Uses(used, id)) <= MaxRequests
        /\ \A t \in last[dom], s \in session[dom] : t < s.born + MaxAge
        /\ \A d \in Domains : (\E s \in session[d] : s.id = id) <=> d = dom

\* The same of what a session shows: one is rotated "to avoid burning out one identity",
\* the egress IP and the device fingerprint (bulk_crawler.rs:88-89).
FingerprintSpared ==
    pc = "fetch" => \A s \in session[dom] : s.fingerprint \notin exposed

\* A domain is never waited for longer than the larger of the back-off's cap and its
\* delay, however many of its requests have failed.
WaitBounded == pc = "wait" => wake <= now + Most(MaxBackoff, Required(dom))
=============================================================================
