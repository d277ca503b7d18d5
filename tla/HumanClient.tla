----------------------------- MODULE HumanClient ------------------------------
(***************************************************************************)
(* The HTTP client that rotates proxies and identities                     *)
(* (engine/human_client.rs), used by several tasks at once: the pool of    *)
(* proxies and their health (engine/proxy_pool.rs), the session of each    *)
(* domain (engine/device_profile.rs), and the generated identities, which  *)
(* are reused when they have worked and discarded when they were refused   *)
(* (engine/fingerprint.rs).                                                *)
(*                                                                         *)
(* get() is &self: between two of its steps, each of which takes one lock, *)
(* another task may take any.  An address stands for the whole identity    *)
(* generated with it, a number for a random device profile.  The wait for  *)
(* the rate limiter decides when a request is made, and nothing else.      *)
(***************************************************************************)
EXTENDS Integers, Sequences, FiniteSets

CONSTANTS
    Tasks, Sites, Proxies,
    Pools,          \* what pools are built from: [list: sequence of proxies, generated]
    Host,           \* the host of a proxy; two of them may be ports of one host
    Hash,           \* stable_hash() of a domain
    Strategies,     \* the rotation strategies a pool may have
    Addresses,
    IspOf,          \* the provider's range an address is drawn from
    Sticky,         \* whether sessions are sticky
    GetBound,       \* bound: requests in all
    CheckBound,     \* bound: health checks of a proxy in all
    None

VARIABLES
    pool,           \* the endpoints, [list, generated]
    strategy,
    health,         \* of each proxy
    turn,           \* round_robin_counter
    siteSessions,   \* the session of each domain: [profile, proxy]
    usedIps,        \* used_ips
    record,         \* the health record of each address
    request,        \* of each task
    made, checked,  \* how many requests have begun, how many checks there were
    refused         \* history: proxies refused through, addresses reported as refused

poolVars == <<pool, strategy, health, turn>>
identityVars == <<usedIps, record>>
clientVars == <<poolVars, siteSessions, identityVars, request, made, checked, refused>>

MaxFailures == 3

Strategy == {"random", "roundrobin", "weighted", "sticky"}
Outcomes == {"ok", "refused", "error"}
Steps == {"idle", "lookup", "insert", "identity", "reuse", "generate", "sent", "report"}

SiteSession == [profile: Nat, proxy: Proxies \cup {None}]
Record == [known: BOOLEAN, working: BOOLEAN, successes: Nat, failures: Nat, discarded: BOOLEAN]
Unknown == [known |-> FALSE, working |-> FALSE, successes |-> 0, failures |-> 0,
            discarded |-> FALSE]
Healthy == [failures |-> 0, cooling |-> FALSE, banned |-> FALSE]
Shun(p, a) == [proxies |-> p, addresses |-> a]
Shuns == [proxies : SUBSET Proxies, addresses : SUBSET Addresses]

ClientRequest ==
    [step : Steps, domain : Sites \cup {None}, proxy : Proxies \cup {None},
     session : SiteSession \cup {None}, address : Addresses \cup {None},
     outcome : Outcomes \cup {None}, shuns : Shuns]
NoRequest == [step |-> "idle", domain |-> None, proxy |-> None, session |-> None,
              address |-> None, outcome |-> None, shuns |-> Shun({}, {})]

ASSUME HumanClientAssumption ==
    /\ Strategies \subseteq Strategy
    /\ Hash \in [Sites -> Nat]
    /\ Sticky \in BOOLEAN
    /\ GetBound \in Nat /\ CheckBound \in Nat
    /\ None \notin Proxies \cup Addresses \cup Sites
    /\ \A p \in Pools : p.list \in Seq(Proxies) /\ p.generated \in BOOLEAN

-----------------------------------------------------------------------------
(* The pool *)

\* from_url() takes scheme and host for the id, from_random_ip() the whole URL.
Id(generated, p) == IF generated THEN p ELSE Host[p]

\* add(): an endpoint with the same id is replaced.
Added(generated, endpoints, p) ==
    LET same == {i \in 1..Len(endpoints) : Id(generated, endpoints[i]) = Id(generated, p)} IN
    IF same = {} THEN Append(endpoints, p)
    ELSE [endpoints EXCEPT ![CHOOSE i \in same : TRUE] = p]

\* from_list() and from_cidr() add one endpoint after the other.
Built(source) ==
    LET added[i \in 0..Len(source.list)] ==
            IF i = 0 THEN <<>> ELSE Added(source.generated, added[i - 1], source.list[i])
    IN  [list |-> added[Len(source.list)], generated |-> source.generated]

Listed == {pool.list[i] : i \in 1..Len(pool.list)}

\* IsAvailable that forgets bans (mutant).
IsAvailableOnceCool(p) ==
    /\ ~health[p].cooling
    /\ health[p].failures < MaxFailures

\* is_available(): three failures keep a proxy out after its cooldown too.
IsAvailable(p) ==
    /\ ~health[p].banned
    /\ ~health[p].cooling
    /\ health[p].failures < MaxFailures

\* The places in the list of the available proxies; the one with n others before it.
Available == {i \in 1..Len(pool.list) : IsAvailable(pool.list[i])}
Nth(n) == {i \in Available : Cardinality({j \in Available : j < i}) = n}

\* The choices of select(): score() gives every available proxy a chance.
Selectable(domain) ==
    CASE Available = {} -> {None}
      [] strategy \in {"random", "weighted"} /\ Available # {} ->
             {pool.list[i] : i \in Available}
      [] strategy = "roundrobin" /\ Available # {} ->
             {pool.list[i] : i \in Nth(turn % Cardinality(Available))}
      [] strategy = "sticky" /\ Available # {} ->
             {pool.list[i] : i \in Nth(Hash[domain] % Cardinality(Available))}

\* The endpoint a report names by the URL of the proxy: a listed one is not found.
Reported(p) == {e \in Listed : Id(pool.generated, e) = p}

Failed(h) ==
    LET n == h.failures + 1 IN
    [h EXCEPT !.failures = n, !.cooling = @ \/ n >= MaxFailures]

\* report_success(), report_banned(), report_failure(): a success lifts no ban.
Judged(h, outcome) ==
    CASE outcome = "ok" -> [h EXCEPT !.failures = 0]
      [] outcome = "refused" -> [h EXCEPT !.banned = TRUE]
      [] outcome = "error" -> Failed(h)

\* The cooldown of a proxy ends.
CoolDown(p) ==
    /\ health[p].cooling
    /\ health' = [health EXCEPT ![p].cooling = FALSE]
    /\ UNCHANGED <<pool, strategy, turn, siteSessions, identityVars, request, made, checked, refused>>

\* health_check_all() reports the outcome of one probe, by the endpoint's own id.
HealthCheck(p) ==
    /\ checked < CheckBound
    /\ p \in Listed
    /\ checked' = checked + 1
    /\ \E outcome \in {"ok", "error"} : health' = [health EXCEPT ![p] = Judged(@, outcome)]
    /\ UNCHANGED <<pool, strategy, turn, siteSessions, identityVars, request, made, refused>>

-----------------------------------------------------------------------------
(* get(), step by step *)

ClientInit ==
    /\ \E source \in Pools : pool = Built(source)
    /\ strategy \in Strategies
    /\ health = [p \in Proxies |-> Healthy]
    /\ turn = 0
    /\ siteSessions = [d \in Sites |-> None]
    /\ usedIps = {}
    /\ record = [a \in Addresses |-> Unknown]
    /\ request = [t \in Tasks |-> NoRequest]
    /\ made = 0
    /\ checked = 0
    /\ refused = Shun({}, {})

\* The rate limiter lets a request through, and a proxy is selected; without an
\* available one the request is made directly.
Begin(t, d) ==
    /\ request[t].step = "idle"
    /\ made < GetBound
    /\ made' = made + 1
    /\ \E p \in Selectable(d) :
        request' = [request EXCEPT ![t] = [NoRequest EXCEPT !.step = "lookup", !.domain = d,
                                                          !.proxy = p, !.shuns = refused]]
    /\ turn' = IF strategy = "roundrobin" /\ Available # {} THEN turn + 1 ELSE turn
    /\ UNCHANGED <<pool, strategy, health, siteSessions, identityVars, checked, refused>>

\* session_for(): the lookup and the insertion lock the map by themselves.
LookUpSession(t) ==
    LET known == siteSessions[request[t].domain] IN
    /\ request[t].step = "lookup"
    /\ request' =
        IF Sticky /\ known # None
        THEN [request EXCEPT ![t].session = known, ![t].step = "identity"]
        ELSE [request EXCEPT ![t].session = [profile |-> made, proxy |-> request[t].proxy],
                             ![t].step = IF Sticky THEN "insert" ELSE "identity"]
    /\ UNCHANGED <<poolVars, siteSessions, identityVars, made, checked, refused>>

InsertSession(t) ==
    /\ request[t].step = "insert"
    /\ siteSessions' = [siteSessions EXCEPT ![request[t].domain] = request[t].session]
    /\ request' = [request EXCEPT ![t].step = "identity"]
    /\ UNCHANGED <<poolVars, identityVars, made, checked, refused>>

\* ReadWorking that takes any address that once worked (mutant).
ReadOnceWorking(t) ==
    /\ request[t].step = "identity"
    /\ \/ \E a \in {a \in Addresses : record[a].successes > 0} :
            request' = [request EXCEPT ![t].address = a, ![t].step = "reuse"]
       \/ /\ \A a \in Addresses : record[a].successes = 0
          /\ request' = [request EXCEPT ![t].step = "generate"]
    /\ UNCHANGED <<poolVars, siteSessions, identityVars, made, checked, refused>>

\* working_ips(): an address that has worked and was not discarded since.
Works(a) == record[a].working /\ record[a].successes > 0

ReadWorking(t) ==
    /\ request[t].step = "identity"
    /\ \/ \E a \in {a \in Addresses : Works(a)} :
            request' = [request EXCEPT ![t].address = a, ![t].step = "reuse"]
       \/ /\ \A a \in Addresses : ~Works(a)
          /\ request' = [request EXCEPT ![t].step = "generate"]
    /\ UNCHANGED <<poolVars, siteSessions, identityVars, made, checked, refused>>

\* all(): the record is found, whatever has become of it.
Reuse(t) ==
    /\ request[t].step = "reuse"
    /\ request' = [request EXCEPT ![t].step = "sent"]
    /\ UNCHANGED <<poolVars, siteSessions, identityVars, made, checked, refused>>

\* is_discarded()
IsDiscarded(a) == record[a].known /\ ~record[a].working /\ record[a].discarded

\* Generate that marks the address without looking whether it is (mutant).
GenerateUnmarked(t) ==
    /\ request[t].step = "generate"
    /\ \E a \in Addresses :
            /\ ~IsDiscarded(a)
            /\ usedIps' = usedIps \cup {a}
            /\ request' = [request EXCEPT ![t].address = a, ![t].step = "sent"]
    /\ UNCHANGED <<poolVars, siteSessions, record, made, checked, refused>>

\* One address is drawn from each range in turn until one is neither discarded nor
\* used; mark_used() tests and sets in one lock.  When all that were drawn are, the
\* request is made with the session's profile.
Generate(t) ==
    /\ request[t].step = "generate"
    /\ \/ \E a \in Addresses \ usedIps :
            /\ ~IsDiscarded(a)
            /\ usedIps' = usedIps \cup {a}
            /\ request' = [request EXCEPT ![t].address = a, ![t].step = "sent"]
       \/ /\ \A r \in {IspOf[a] : a \in Addresses} :
                \E a \in Addresses : IspOf[a] = r /\ (a \in usedIps \/ IsDiscarded(a))
          /\ request' = [request EXCEPT ![t].step = "sent"]
          /\ UNCHANGED usedIps
    /\ UNCHANGED <<poolVars, siteSessions, record, made, checked, refused>>

\* No answer, or no client for the proxy: an early return, and nothing is reported.
SendFails(t) ==
    /\ request[t].step = "sent"
    /\ request' = [request EXCEPT ![t] = NoRequest]
    /\ UNCHANGED <<poolVars, siteSessions, identityVars, made, checked, refused>>

\* The server answers, and the proxy is reported.
GetAnswer(t) ==
    LET r == request[t] IN
    /\ r.step = "sent"
    /\ \E outcome \in Outcomes :
        /\ request' = [request EXCEPT ![t].outcome = outcome, ![t].step = "report"]
        /\ health' = [p \in Proxies |->
                IF p \in Reported(r.proxy) THEN Judged(health[p], outcome) ELSE health[p]]
        /\ refused' = IF outcome = "refused" /\ r.proxy # None
                      THEN [refused EXCEPT !.proxies = @ \cup {r.proxy}] ELSE refused
    /\ UNCHANGED <<pool, strategy, turn, siteSessions, identityVars, made, checked>>

\* record_success() and record_failure(): a refusal, or a third failure in a row,
\* discards; a success makes a discarded address work again.
Recorded(rec, outcome) ==
    IF outcome = "ok"
    THEN [rec EXCEPT !.known = TRUE, !.working = TRUE, !.successes = 1, !.failures = 0]
    ELSE LET n == rec.failures + 1
             out == outcome = "refused" \/ n > 2
         IN  [rec EXCEPT !.known = TRUE, !.failures = n,
                         !.working = (@ \/ ~rec.known) /\ ~out,
                         !.discarded = @ \/ out]

\* The fingerprint's health; the identity a success was reported of is no longer
\* shunned by the requests under way.
ReportIdentity(t) ==
    LET a == request[t].address
        outcome == request[t].outcome
    IN
    /\ request[t].step = "report"
    /\ record' = IF a = None THEN record ELSE [record EXCEPT ![a] = Recorded(@, outcome)]
    /\ refused' = [refused EXCEPT !.addresses =
                        CASE outcome = "refused" /\ a # None -> @ \cup {a}
                          [] outcome = "ok" -> @ \ {a}
                          [] OTHER -> @]
    /\ request' = [o \in Tasks |->
            IF o = t THEN NoRequest
            ELSE IF outcome = "ok" THEN [request[o] EXCEPT !.shuns.addresses = @ \ {a}]
            ELSE request[o]]
    /\ UNCHANGED <<poolVars, siteSessions, usedIps, made, checked>>

Step(t) ==
    \/ LookUpSession(t) \/ InsertSession(t) \/ ReadWorking(t) \/ Reuse(t) \/ Generate(t)
    \/ GetAnswer(t) \/ SendFails(t) \/ ReportIdentity(t)

ClientNext ==
    \/ \E t \in Tasks, d \in Sites : Begin(t, d)
    \/ \E t \in Tasks : Step(t)
    \/ \E p \in Proxies : CoolDown(p) \/ HealthCheck(p)

ClientSpec == ClientInit /\ [][ClientNext]_clientVars

-----------------------------------------------------------------------------

ClientTypeOK ==
    /\ pool \in [list : Seq(Proxies), generated : BOOLEAN]
    /\ strategy \in Strategy
    /\ health \in [Proxies -> [failures : Nat, cooling : BOOLEAN, banned : BOOLEAN]]
    /\ turn \in Nat /\ made \in Nat /\ checked \in Nat
    /\ siteSessions \in [Sites -> SiteSession \cup {None}]
    /\ usedIps \subseteq Addresses
    /\ record \in [Addresses -> Record]
    /\ request \in [Tasks -> ClientRequest]
    /\ \A t \in Tasks : request[t].step = "idle" \/ request[t].domain \in Sites
    /\ refused \in Shuns

\* The tasks whose request has its address for good.
Sent == {t \in Tasks : request[t].step \in {"sent", "report"}}

\* An identity whose refusal had been reported when a request began is not what that
\* request shows (fingerprint.rs:887-889 "which fail so they can be discarded"), though
\* the list of working addresses and their records are read under two locks, and
\* though a success of an older request, reported late, takes the refusal back.
RefusedNotReused ==
    \A t \in Sent : request[t].address \notin request[t].shuns.addresses

\* Without that exception.
DiscardedForGood ==
    \A t \in Sent, a \in Addresses : request[t].address = a => ~record[a].discarded

\* A generated proxy whose refusal had been reported when a request began is not used
\* by it (proxy_pool.rs:392 "Mark a proxy as permanently banned"), whatever successes
\* and health checks are reported later.
BanHolds ==
    pool.generated =>
        \A t \in Tasks : request[t].proxy \notin request[t].shuns.proxies

\* The same of listed proxies, whose reports name them by another id.
BanHoldsForListed ==
    \A t \in Tasks : request[t].proxy \notin request[t].shuns.proxies

\* Two requests under way show the same identity only if it has worked: a fresh one
\* is drawn for one request, also when two tasks draw at once.
FreshIdentities ==
    \A s, t \in Sent :
        s # t /\ request[s].address = request[t].address /\ request[s].address # None
            => record[request[s].address].successes > 0

\* A proxy that is neither banned nor in its cooldown may be selected
\* (proxy_pool.rs:134 "not banned or in cooldown").
CooledIsAvailable ==
    \A p \in Listed : ~health[p].banned /\ ~health[p].cooling => IsAvailable(p)

\* The requests of a domain share its session (device_profile.rs:502 "keeps (domain ->
\* Session) sticky mappings"): two that find none each make one.
SessionShared ==
    Sticky => \A t \in Sent : request[t].session = siteSessions[request[t].domain]
=============================================================================
