------------------------------ MODULE GraphWalks ------------------------------
(***************************************************************************)
(* Walks over the link graph: the breadth-first traversal that             *)
(* engine/crawl_graph.rs gives every store, the recursive query that       *)
(* turso_store/crawl_graph.rs puts in its place, and the neighbourhood and *)
(* shortest path of engine/dep_graph.rs.                                   *)
(*                                                                         *)
(* The traversal asks the store for the links of one URL after the other,  *)
(* and a crawl goes on recording links meanwhile: the in-memory store is   *)
(* there to "serve search/graph requests while a crawl is still running".  *)
(* The query sees one state of the database.                               *)
(***************************************************************************)
EXTENDS Naturals, Sequences, FiniteSets

CONSTANTS
    Urls,
    Recorded,       \* the URLs that have a node of their own
    Start,          \* where walks and paths begin
    MaxDepth,       \* bound: depths asked for
    MaxLinks,       \* bound: links recorded
    NoUrl

VARIABLES
    linksFrom, linksTo,     \* edges_from and edges_to, each link a pair
    phase,          \* idle; walk, walked; path, and how it ended
    direction, limit,       \* of the walk
    before,         \* the links when the walk began; the graph a path is sought in
    depth,          \* depth_map, a function on the URLs visited
    current, next, round,   \* the level being read, the one it leads to, its number
    hand, read,     \* in direction both: the URL in hand, and its links that are read
    goal, scored, path      \* of a path: where to, the nodes with a score, the way back

store == <<linksFrom, linksTo>>
walkVars == <<direction, limit, depth, current, next, round, hand, read>>
pathVars == <<goal, scored, path>>
vars == <<store, phase, before, walkVars, pathVars>>

ASSUME GraphWalksAssumption ==
    /\ IsFiniteSet(Urls)
    /\ Start \in Urls /\ Recorded \subseteq Urls
    /\ MaxDepth \in Nat /\ MaxLinks \in Nat
    /\ NoUrl \notin Urls

Links == Urls \X Urls
Directions == {"outbound", "inbound", "both"}

LinksFrom(links, u) == {e \in links : e[1] = u}
LinksTo(links, u) == {e \in links : e[2] = u}

Init ==
    /\ linksFrom = {} /\ linksTo = {}
    /\ phase = "idle" /\ before = {}
    /\ direction = "both" /\ limit = 0
    /\ depth = [u \in {} |-> 0]
    /\ current = {} /\ next = {} /\ round = 0
    /\ hand = NoUrl /\ read = {}
    /\ goal = Start /\ scored = {} /\ path = <<>>

-----------------------------------------------------------------------------
(* The in-memory store: record_link() enters a link in one map, then in the *)
(* other, and a reader may come in between.                                 *)

RecordFrom(e) ==
    /\ e \notin linksFrom
    /\ Cardinality(linksFrom) < MaxLinks
    /\ linksFrom' = linksFrom \cup {e}
    /\ UNCHANGED <<linksTo, phase, before, walkVars, pathVars>>

RecordTo(e) ==
    /\ e \in linksFrom \ linksTo
    /\ linksTo' = linksTo \cup {e}
    /\ UNCHANGED <<linksFrom, phase, before, walkVars, pathVars>>

-----------------------------------------------------------------------------
(* traverse_with_depth() of the trait *)

BeginWalk(m, dir) ==
    /\ phase = "idle"
    /\ direction' = dir /\ limit' = m
    /\ before' = linksTo
    /\ depth' = [u \in {Start} |-> 0]
    /\ current' = {Start} /\ round' = 1
    /\ phase' = IF m = 0 THEN "walked" ELSE "walk"
    /\ UNCHANGED <<store, next, hand, read, pathVars>>

\* The end of a link that is not u; in direction both, of a link of either kind.
Neighbor(u, e) ==
    CASE direction = "outbound" -> e[2]
      [] direction = "inbound" -> e[1]
      [] direction = "both" -> IF e[1] = u THEN e[2] ELSE e[1]

\* The loop over the links of u.
Visit(u, links) ==
    LET found == {Neighbor(u, e) : e \in links} \ DOMAIN depth IN
    /\ depth' = [v \in DOMAIN depth \cup found |-> IF v \in found THEN round ELSE depth[v]]
    /\ next' = next \cup found
    /\ current' = current \ {u}
    /\ UNCHANGED <<store, phase, before, direction, limit, round, pathVars>>

\* A level is read in the order in which its URLs were found, which depends on
\* the order of the links in the maps: any order.
Expand(u) ==
    /\ phase = "walk" /\ u \in current
    /\ direction # "both"
    /\ Visit(u, IF direction = "outbound" THEN LinksFrom(linksFrom, u) ELSE LinksTo(linksTo, u))
    /\ UNCHANGED <<hand, read>>

\* get_links_from() and get_links_to() are two awaits.
ReadFrom(u) ==
    /\ phase = "walk" /\ u \in current
    /\ direction = "both" /\ hand = NoUrl
    /\ hand' = u
    /\ read' = LinksFrom(linksFrom, u)
    /\ UNCHANGED <<store, phase, before, direction, limit, depth, current, next, round, pathVars>>

\* The links of the first answer only (mutant).
ExpandFirst(u) ==
    /\ phase = "walk"
    /\ direction = "both" /\ hand = u
    /\ Visit(u, read)
    /\ hand' = NoUrl /\ read' = {}

ExpandBoth(u) ==
    /\ phase = "walk"
    /\ direction = "both" /\ hand = u
    /\ Visit(u, read \cup LinksTo(linksTo, u))
    /\ hand' = NoUrl /\ read' = {}

\* One level further than asked for (mutant).
NextLevelBeyond ==
    /\ phase = "walk" /\ current = {}
    /\ IF next = {} \/ round > limit
       THEN phase' = "walked" /\ UNCHANGED <<current, next, round>>
       ELSE current' = next /\ next' = {} /\ round' = round + 1 /\ UNCHANGED phase
    /\ UNCHANGED <<store, before, direction, limit, depth, hand, read, pathVars>>

NextLevel ==
    /\ phase = "walk" /\ current = {}
    /\ IF next = {} \/ round >= limit
       THEN phase' = "walked" /\ UNCHANGED <<current, next, round>>
       ELSE current' = next /\ next' = {} /\ round' = round + 1 /\ UNCHANGED phase
    /\ UNCHANGED <<store, before, direction, limit, depth, hand, read, pathVars>>

-----------------------------------------------------------------------------
(* The query of TursoStore: a table of ids and depths that grows by a join   *)
(* with the links until nothing is new, then the least depth of each URL.    *)
(* Every URL of a link has a node there, so the join with url_nodes loses    *)
(* no row.                                                                   *)

Hops(links, u, dir) ==
    (IF dir = "inbound" THEN {} ELSE {e[2] : e \in LinksFrom(links, u)})
        \cup (IF dir = "outbound" THEN {} ELSE {e[1] : e \in LinksTo(links, u)})

Joined(links, m, dir, rows) ==
    UNION {{<<v, r[2] + 1>> : v \in Hops(links, r[1], dir)} : r \in {r \in rows : r[2] < m}}

Table(links, m, dir) ==
    LET table[k \in 0..m + 1] ==
            IF k = 0 THEN {<<Start, 0>>}
            ELSE table[k - 1] \cup Joined(links, m, dir, table[k - 1])
    IN  table[m + 1]

Query(links, m, dir) ==
    LET table == Table(links, m, dir) IN
    {r \in table : \A q \in table : q[1] = r[1] => r[2] <= q[2]}

-----------------------------------------------------------------------------
(* dep_graph.rs: the dependency graph has the recorded URLs and the links.  *)

Nodes(links) == Recorded \cup {e[1] : e \in links} \cup {e[2] : e \in links}

\* neighborhood(): the URLs within k hops, without the seed.  A level is the
\* URLs that the level before leads to and that are not visited.
LevelAfter(links, dir, level) ==
    LET new == (UNION {Hops(links, u, dir) : u \in level.last}) \ level.visited
    IN  [visited |-> level.visited \cup new, last |-> new]

NeighborhoodWithSeed(links, k, dir) ==
    LET level[i \in 0..k] ==
            IF i = 0 THEN [visited |-> {}, last |-> {Start} \cap Nodes(links)]
            ELSE LevelAfter(links, dir, level[i - 1])
    IN  level[k].visited

Neighborhood(links, k, dir) ==
    LET level[i \in 0..k] ==
            IF i = 0
            THEN [visited |-> {Start} \cap Nodes(links), last |-> {Start} \cap Nodes(links)]
            ELSE LevelAfter(links, dir, level[i - 1])
    IN  level[k].visited \ {Start}

\* The links a path needs from Start; every hyperlink has weight 1.
Distances(links) ==
    LET rows == Query(links, Cardinality(Urls), "outbound")
    IN  [u \in {r[1] : r \in rows} |-> (CHOOSE r \in rows : r[1] = u)[2]]

\* petgraph's dijkstra() settles nodes in the order of their distance until it
\* comes to the goal, which may be before or after others that are as far.  A
\* settled node has a score, and so have those it leads to.
BeginPath(g) ==
    /\ phase = "idle"
    /\ before' = linksFrom
    /\ goal' = g
    /\ LET dist == Distances(linksFrom) IN
       IF {Start, g} \subseteq Nodes(linksFrom) /\ g \in DOMAIN dist
       THEN /\ phase' = "path"
            /\ \E ties \in SUBSET {u \in DOMAIN dist \ {g} : dist[u] = dist[g]} :
                   LET settled == ties \cup {u \in DOMAIN dist : dist[u] < dist[g]} IN
                   scored' = {Start, g} \cup UNION {Hops(linksFrom, u, "outbound") : u \in settled}
            /\ path' = <<g>>
       ELSE phase' = "unreachable" /\ UNCHANGED <<scored, path>>
    /\ UNCHANGED <<store, walkVars>>

\* Any scored predecessor will do (mutant).
StepBackAnywhere(u) ==
    /\ phase = "path" /\ Head(path) # Start
    /\ <<u, Head(path)>> \in before /\ u \in scored
    /\ path' = <<u>> \o path
    /\ UNCHANGED <<store, phase, before, walkVars, goal, scored>>

\* shortest_path() goes back over an incoming link that accounts for the score,
\* the first in the order in which the graph has them.  There always is one, so
\* the way out of the loop for want of one is left out.
StepBack(u) ==
    /\ phase = "path" /\ Head(path) # Start
    /\ <<u, Head(path)>> \in before /\ u \in scored
    /\ Distances(before)[u] + 1 = Distances(before)[Head(path)]
    /\ path' = <<u>> \o path
    /\ UNCHANGED <<store, phase, before, walkVars, goal, scored>>

\* The score of an incoming link's source is looked up before it is known that
\* there is one: `paths[&src]` panics.
StepPanics(u) ==
    /\ phase = "path" /\ Head(path) # Start
    /\ <<u, Head(path)>> \in before /\ u \notin scored
    /\ phase' = "panic"
    /\ UNCHANGED <<store, before, walkVars, pathVars>>

EndPath ==
    /\ phase = "path" /\ Head(path) = Start
    /\ phase' = "found"
    /\ UNCHANGED <<store, before, walkVars, pathVars>>

-----------------------------------------------------------------------------
Next ==
    \/ \E e \in Links : RecordFrom(e) \/ RecordTo(e)
    \/ \E m \in 0..MaxDepth, dir \in Directions : BeginWalk(m, dir)
    \/ \E u \in Urls : Expand(u) \/ ReadFrom(u) \/ ExpandBoth(u)
    \/ NextLevel
    \/ \E u \in Urls : BeginPath(u) \/ StepBack(u) \/ StepPanics(u)
    \/ EndPath

Spec == Init /\ [][Next]_vars

-----------------------------------------------------------------------------
(* Properties *)

TypeOK ==
    /\ linksFrom \subseteq Links /\ linksTo \subseteq linksFrom /\ before \subseteq linksFrom
    /\ phase \in {"idle", "walk", "walked", "path", "found", "unreachable", "panic"}
    /\ direction \in Directions /\ limit \in Nat /\ round \in Nat
    /\ DOMAIN depth \subseteq Urls /\ depth \in [DOMAIN depth -> Nat]
    /\ current \subseteq DOMAIN depth /\ next \subseteq DOMAIN depth
    /\ hand \in Urls \cup {NoUrl} /\ read \subseteq linksFrom
    /\ goal \in Urls /\ scored \subseteq Urls /\ path \in Seq(Urls)

\* Whatever is recorded during a walk, it reports each URL that the database
\* query would have found when the walk began, and no deeper than the query.
WalkMissesNothing ==
    phase = "walked" =>
        \A r \in Query(before, limit, direction) :
            r[1] \in DOMAIN depth /\ depth[r[1]] <= r[2]

\* Nor does it report a URL that the query would not find when the walk is over,
\* or one nearer than the query has it: with no crawl the two stores agree.
WalkInventsNothing ==
    phase = "walked" =>
        \A u \in DOMAIN depth :
            \E r \in Query(linksFrom, limit, direction) : r[1] = u /\ r[2] <= depth[u]

\* A path that is returned leads over links to the goal, and none is shorter.
PathIsShortest ==
    phase = "found" =>
        /\ Head(path) = Start /\ path[Len(path)] = goal
        /\ \A i \in 1..Len(path) - 1 : <<path[i], path[i + 1]>> \in before
        /\ <<goal, Len(path) - 1>> \in Query(before, Len(path), "outbound")

\* The neighbourhood of dep_graph is the traversal of crawl_graph without the seed,
\* also where links lead back to the seed.
NeighborhoodAgrees ==
    phase = "walked" /\ direction # "both" =>
        Neighborhood(linksFrom, limit, direction)
            = {r[1] : r \in Query(linksFrom, limit, direction)} \ {Start}
=============================================================================
