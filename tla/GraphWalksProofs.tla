--------------------------- MODULE GraphWalksProofs ---------------------------
(***************************************************************************)
(* The breadth-first walk beside a crawl that records links, the recursive *)
(* query it stands for, and the neighbourhoods and paths of the dependency *)
(* graph: all for any graph, any depth and any crawl.  Recursion is over   *)
(* depths, so that what the query finds, what the walk has found and what  *)
(* a level of the neighbourhood holds are inductions over numbers, each    *)
(* for the set of the depths at which the claim is true (Counting).        *)
(***************************************************************************)
EXTENDS GraphWalks, FiniteSetTheorems, WellFoundedInduction, TLAPS

-----------------------------------------------------------------------------
(* Numbers, and functions defined step by step *)

LEMMA LeastNumber ==
    ASSUME NEW T, T \subseteq Nat, T # {}
    PROVE  \E n \in T : \A k \in T : n <= k
<1>1. PICK n \in T : \A k \in T : ~(<<k, n>> \in OpToRel(<, Nat))
  BY NatLessThanWellFounded, WFMin
<1>2. \A k \in T : ~(k < n)
  BY <1>1 DEF OpToRel
<1>3. QED
  BY <1>2

\* Induction for a set of numbers in place of a predicate.
LEMMA Counting ==
    ASSUME NEW T, 0 \in T, \A n \in Nat : n \in T => n + 1 \in T
    PROVE  \A n \in Nat : n \in T
<1> SUFFICES ASSUME Nat \ T # {} PROVE FALSE
  OBVIOUS
<1>1. PICK n \in Nat \ T : \A k \in Nat \ T : n <= k
  BY LeastNumber
<1>2. n - 1 \in Nat /\ n - 1 \in T
  BY <1>1
<1>3. n \in T
  BY <1>2
<1>4. QED
  BY <1>3

\* t is n steps of f from x.
Run(t, f, x, n) == t[0] = x /\ \A k \in 1..n : t[k] = f[t[k - 1]]

\* A step can be taken as often as wanted.
LEMMA Iterates ==
    ASSUME NEW S, NEW f \in [S -> S], NEW x \in S, NEW n \in Nat
    PROVE  \E t \in [0..n -> S] : Run(t, f, x, n)
<1> DEFINE T == {m \in Nat : \E t \in [0..m -> S] : Run(t, f, x, m)}
<1>1. 0 \in T
  <2> DEFINE t == [k \in 0..0 |-> x]
  <2>1. t \in [0..0 -> S] /\ Run(t, f, x, 0)
    BY DEF Run
  <2>2. QED
    BY <2>1
<1>2. ASSUME NEW m \in Nat, m \in T PROVE m + 1 \in T
  <2>1. PICK t \in [0..m -> S] : Run(t, f, x, m)
    BY <1>2
  <2> DEFINE s == [k \in 0..m + 1 |-> IF k = m + 1 THEN f[t[m]] ELSE t[k]]
  <2>2. s \in [0..m + 1 -> S]
    OBVIOUS
  <2>3. s[0] = x
    BY <2>1 DEF Run
  <2>4. ASSUME NEW k \in 1..m + 1 PROVE s[k] = f[s[k - 1]]
    <3>1. CASE k = m + 1
      BY <3>1 DEF Run
    <3>2. CASE k # m + 1
      BY <2>1, <3>2 DEF Run
    <3>3. QED
      BY <3>1, <3>2
  <2> HIDE DEF s
  <2>5. QED
    BY <2>2, <2>3, <2>4 DEF Run
<1> HIDE DEF T
<1>3. n \in T
  BY <1>1, <1>2, Counting
<1>4. QED
  BY <1>3 DEF T

-----------------------------------------------------------------------------
(* What the query finds *)

\* The URLs that a way of d links leads to.
At(links, dir, d) ==
    {u \in Urls : \E p \in [0..d -> Urls] :
        /\ p[0] = Start /\ p[d] = u
        /\ \A i \in 1..d : p[i] \in Hops(links, p[i - 1], dir)}

LEMMA HopsType ==
    ASSUME NEW links, links \subseteq Links, NEW u, NEW dir
    PROVE  Hops(links, u, dir) \subseteq Urls
BY DEF Links, Hops, LinksFrom, LinksTo

LEMMA AtStart == ASSUME NEW links, NEW dir PROVE At(links, dir, 0) = {Start}
<1>1. Start \in Urls
  BY GraphWalksAssumption DEF GraphWalksAssumption
<1>2. ASSUME NEW u \in At(links, dir, 0) PROVE u = Start
  BY DEF At
<1>3. Start \in At(links, dir, 0)
  <2> DEFINE p == [i \in 0..0 |-> Start]
  <2>1. p \in [0..0 -> Urls] /\ p[0] = Start
    BY <1>1
  <2>2. \A i \in 1..0 : p[i] \in Hops(links, p[i - 1], dir)
    OBVIOUS
  <2> HIDE DEF p
  <2>3. QED
    BY <1>1, <2>1, <2>2 DEF At
<1>4. QED
  BY <1>2, <1>3

LEMMA AtNext ==
    ASSUME NEW links, links \subseteq Links, NEW dir, NEW d \in Nat
    PROVE  At(links, dir, d + 1) = UNION {Hops(links, w, dir) : w \in At(links, dir, d)}
<1>1. ASSUME NEW u \in At(links, dir, d + 1)
      PROVE  \E w \in At(links, dir, d) : u \in Hops(links, w, dir)
  <2>1. PICK p \in [0..d + 1 -> Urls] :
            /\ p[0] = Start /\ p[d + 1] = u
            /\ \A i \in 1..d + 1 : p[i] \in Hops(links, p[i - 1], dir)
    BY DEF At
  <2> DEFINE q == [i \in 0..d |-> p[i]]
  <2>2. q \in [0..d -> Urls] /\ q[0] = Start /\ q[d] = p[d] /\ p[d] \in Urls
    BY <2>1
  <2>3. \A i \in 1..d : q[i] \in Hops(links, q[i - 1], dir)
    BY <2>1
  <2>4. u \in Hops(links, p[d], dir)
    BY <2>1
  <2> HIDE DEF q
  <2>5. p[d] \in At(links, dir, d)
    BY <2>2, <2>3 DEF At
  <2>6. QED
    BY <2>4, <2>5
<1>2. ASSUME NEW w \in At(links, dir, d), NEW u \in Hops(links, w, dir)
      PROVE  u \in At(links, dir, d + 1)
  <2>1. PICK p \in [0..d -> Urls] :
            /\ p[0] = Start /\ p[d] = w
            /\ \A i \in 1..d : p[i] \in Hops(links, p[i - 1], dir)
    BY DEF At
  <2>2. u \in Urls
    BY HopsType
  <2> DEFINE q == [i \in 0..d + 1 |-> IF i = d + 1 THEN u ELSE p[i]]
  <2>3. q \in [0..d + 1 -> Urls] /\ q[0] = Start /\ q[d + 1] = u
    BY <2>1, <2>2
  <2>4. ASSUME NEW i \in 1..d + 1 PROVE q[i] \in Hops(links, q[i - 1], dir)
    <3>1. CASE i = d + 1
      BY <2>1, <3>1
    <3>2. CASE i # d + 1
      <4>1. q[i] = p[i] /\ q[i - 1] = p[i - 1] /\ i \in 1..d
        BY <3>2
      <4>2. QED
        BY <2>1, <4>1
    <3>3. QED
      BY <3>1, <3>2
  <2> HIDE DEF q
  <2>5. QED
    BY <2>2, <2>3, <2>4 DEF At
<1>3. QED
  BY <1>1, <1>2

\* t is the table after each of its m + 1 joins.
Joins(t, links, m, dir) ==
    /\ t[0] = {<<Start, 0>>}
    /\ \A k \in 1..m + 1 : t[k] = t[k - 1] \cup Joined(links, m, dir, t[k - 1])

\* The table grows by one join after the other.
LEMMA TableGrows ==
    ASSUME NEW links, links \subseteq Links, NEW m \in Nat, NEW dir
    PROVE  \E t : Joins(t, links, m, dir) /\ Table(links, m, dir) = t[m + 1]
<1> DEFINE J(rows) == rows \cup Joined(links, m, dir, rows)
           Rec(t) == t = [k \in 0..m + 1 |-> IF k = 0 THEN {<<Start, 0>>} ELSE J(t[k - 1])]
<1>1. \E t : Rec(t)
  <2> DEFINE R == SUBSET (Urls \X Nat)
             f == [rows \in R |-> J(rows)]
  <2>1. f \in [R -> R]
    <3>1. ASSUME NEW rows \in R PROVE J(rows) \in R
      <4>1. ASSUME NEW r \in rows, NEW v \in Hops(links, r[1], dir)
            PROVE  <<v, r[2] + 1>> \in Urls \X Nat
        BY HopsType
      <4>2. QED
        BY <4>1 DEF Joined
    <3> HIDE DEF J, R
    <3>2. QED
      BY <3>1
  <2>2. {<<Start, 0>>} \in R
    BY GraphWalksAssumption DEF GraphWalksAssumption
  <2>3. m + 1 \in Nat
    OBVIOUS
  <2> HIDE DEF f, J, R
  <2>4. PICK t \in [0..m + 1 -> R] : Run(t, f, {<<Start, 0>>}, m + 1)
    BY <2>1, <2>2, <2>3, Iterates
  <2>5. ASSUME NEW k \in 0..m + 1
        PROVE  t[k] = IF k = 0 THEN {<<Start, 0>>} ELSE J(t[k - 1])
    <3>1. CASE k = 0
      BY <2>4, <3>1 DEF Run
    <3>2. CASE k # 0
      <4>1. k \in 1..m + 1 /\ k - 1 \in 0..m + 1 /\ t[k - 1] \in R
        BY <3>2
      <4>2. QED
        BY <2>4, <3>2, <4>1 DEF f, Run
    <3>3. QED
      BY <3>1, <3>2
  <2>6. t = [k \in 0..m + 1 |-> t[k]]
    OBVIOUS
  <2>7. QED
    BY <2>5, <2>6
<1>2. PICK t : t = (CHOOSE s : Rec(s)) /\ Rec(t)
  BY <1>1
<1>3. Table(links, m, dir) = t[m + 1]
  BY <1>2 DEF Table
<1>4. ASSUME NEW k \in 0..m + 1
      PROVE  t[k] = IF k = 0 THEN {<<Start, 0>>} ELSE J(t[k - 1])
  <2>1. Rec(t)
    BY <1>2
  <2> HIDE DEF J
  <2>2. QED
    BY ONLY <2>1, Zenon
<1> HIDE DEF J
<1>5. t[0] = {<<Start, 0>>}
  <2>1. 0 \in 0..m + 1
    OBVIOUS
  <2>2. QED
    BY ONLY <1>4, <2>1, Zenon
<1>6. ASSUME NEW k \in 1..m + 1 PROVE t[k] = J(t[k - 1])
  <2>1. k \in 0..m + 1 /\ k # 0
    OBVIOUS
  <2>2. QED
    BY ONLY <1>4, <2>1, Zenon
<1>7. QED
  BY <1>3, <1>5, <1>6 DEF J, Joins

-----------------------------------------------------------------------------
(* The rows of the table *)

\* The rows with a depth of at most k.
Rows(links, m, dir, k) ==
    {r \in Urls \X Nat : r[2] <= m /\ r[2] <= k /\ r[1] \in At(links, dir, r[2])}

LEMMA RowsStart ==
    ASSUME NEW links, NEW m \in Nat, NEW dir
    PROVE  Rows(links, m, dir, 0) = {<<Start, 0>>}
<1>1. ASSUME NEW r \in Rows(links, m, dir, 0) PROVE r = <<Start, 0>>
  <2>1. r \in Urls \X Nat /\ r[2] = 0 /\ r[1] \in At(links, dir, r[2])
    BY DEF Rows
  <2>2. r[1] = Start
    BY <2>1, AtStart
  <2>3. QED
    BY <2>1, <2>2
<1>2. <<Start, 0>> \in Rows(links, m, dir, 0)
  BY AtStart, GraphWalksAssumption DEF Rows, GraphWalksAssumption
<1>3. QED
  BY <1>1, <1>2

LEMMA RowsNext ==
    ASSUME NEW links, links \subseteq Links, NEW m \in Nat, NEW dir, NEW k \in Nat
    PROVE  Rows(links, m, dir, k + 1)
               = Rows(links, m, dir, k) \cup Joined(links, m, dir, Rows(links, m, dir, k))
<1> DEFINE R == Rows(links, m, dir, k)
           R1 == Rows(links, m, dir, k + 1)
<1>1. ASSUME NEW r \in R1, r \notin R PROVE r \in Joined(links, m, dir, R)
  <2>1. r \in Urls \X Nat /\ r[2] <= m /\ r[2] = k + 1 /\ r[1] \in At(links, dir, k + 1)
    BY <1>1 DEF Rows
  <2>2. PICK w \in At(links, dir, k) : r[1] \in Hops(links, w, dir)
    BY <2>1, AtNext
  <2> DEFINE q == <<w, k>>
  <2>3. q \in R /\ q[1] = w /\ q[2] = k /\ k < m
    <3>1. w \in Urls /\ k < m
      BY <2>1 DEF At
    <3>2. q \in Urls \X Nat /\ q[1] = w /\ q[2] = k
      BY <3>1
    <3>3. q \in R
      BY <2>2, <3>1, <3>2 DEF Rows
    <3>4. QED
      BY <3>1, <3>2, <3>3
  <2>4. r = <<r[1], q[2] + 1>>
    BY <2>1, <2>3
  <2> HIDE DEF q, R
  <2>5. QED
    BY <2>2, <2>3, <2>4 DEF Joined
<1>2. R \subseteq R1
  BY DEF Rows
<1>3. ASSUME NEW r \in R, r[2] < m, NEW v \in Hops(links, r[1], dir)
      PROVE  <<v, r[2] + 1>> \in R1
  <2>1. r \in Urls \X Nat /\ r[2] \in Nat /\ r[2] <= k /\ r[1] \in At(links, dir, r[2])
    BY DEF Rows
  <2>2. v \in At(links, dir, r[2] + 1) /\ v \in Urls
    BY <2>1, AtNext, HopsType
  <2>3. QED
    BY <1>3, <2>1, <2>2 DEF Rows
<1> HIDE DEF R, R1
<1>4. Joined(links, m, dir, R) \subseteq R1
  BY <1>3 DEF Joined
<1>5. R1 = R \cup Joined(links, m, dir, R)
  BY <1>1, <1>2, <1>4
<1>6. QED
  BY <1>5 DEF R, R1

\* Every way of at most m links has left its row.
LEMMA TableRows ==
    ASSUME NEW links, links \subseteq Links, NEW m \in Nat, NEW dir
    PROVE  Table(links, m, dir) = Rows(links, m, dir, m)
<1>1. PICK t : Joins(t, links, m, dir) /\ Table(links, m, dir) = t[m + 1]
  BY TableGrows
<1> DEFINE T == {k \in Nat : k <= m + 1 => t[k] = Rows(links, m, dir, k)}
<1>2. 0 \in T
  BY <1>1, RowsStart DEF Joins
<1>3. ASSUME NEW k \in Nat, k \in T PROVE k + 1 \in T
  <2> SUFFICES ASSUME k + 1 <= m + 1 PROVE t[k + 1] = Rows(links, m, dir, k + 1)
    OBVIOUS
  <2>1. t[k] = Rows(links, m, dir, k)
    BY <1>3
  <2>2. k + 1 \in 1..m + 1 /\ (k + 1) - 1 = k
    OBVIOUS
  <2>3. t[k + 1] = t[k] \cup Joined(links, m, dir, t[k])
    BY <1>1, <2>2 DEF Joins
  <2>4. QED
    BY <2>1, <2>3, RowsNext
<1> HIDE DEF T
<1>4. m + 1 \in T
  BY <1>2, <1>3, Counting
<1>5. Table(links, m, dir) = Rows(links, m, dir, m + 1)
  BY <1>1, <1>4 DEF T
<1>6. Rows(links, m, dir, m + 1) = Rows(links, m, dir, m)
  BY DEF Rows
<1>7. QED
  BY <1>5, <1>6

\* The recursive query of the database, for any graph: it gives each URL that at most
\* m links lead to from the start, once, with the least number of links that does.
THEOREM QueryIsLeast ==
    ASSUME NEW links, links \subseteq Links, NEW m \in Nat, NEW dir
    PROVE  Query(links, m, dir)
               = {r \in Urls \X Nat : /\ r[2] <= m /\ r[1] \in At(links, dir, r[2])
                                      /\ \A d \in Nat : r[1] \in At(links, dir, d) => r[2] <= d}
<1> DEFINE R == Rows(links, m, dir, m)
           Least(r) == \A d \in Nat : r[1] \in At(links, dir, d) => r[2] <= d
<1>1. Query(links, m, dir) = {r \in R : \A q \in R : q[1] = r[1] => r[2] <= q[2]}
  BY TableRows DEF Query
<1>2. ASSUME NEW r \in R, \A q \in R : q[1] = r[1] => r[2] <= q[2], NEW d \in Nat,
             r[1] \in At(links, dir, d)
      PROVE  r[2] <= d
  <2>1. r[2] \in Nat /\ r[2] <= m /\ r[1] \in Urls
    BY DEF Rows
  <2>2. CASE d <= m
    <3> DEFINE q == <<r[1], d>>
    <3>1. q \in R /\ q[1] = r[1] /\ q[2] = d
      BY <1>2, <2>1, <2>2 DEF Rows
    <3> HIDE DEF q, R
    <3>2. QED
      BY <1>2, <3>1
  <2>3. QED
    BY <2>1, <2>2
<1>3. ASSUME NEW r \in R, Least(r), NEW q \in R, q[1] = r[1] PROVE r[2] <= q[2]
  BY <1>3 DEF Rows
<1>4. \A r : r \in R <=> r \in Urls \X Nat /\ r[2] <= m /\ r[1] \in At(links, dir, r[2])
  BY DEF Rows
<1> HIDE DEF R
<1>5. QED
  BY <1>1, <1>2, <1>3, <1>4

\* What a URL is reached with is a row, and so is something no deeper.
LEMMA QueryFinds ==
    ASSUME NEW links, links \subseteq Links, NEW m \in Nat, NEW dir,
           NEW d \in Nat, d <= m, NEW u \in At(links, dir, d)
    PROVE  \E r \in Query(links, m, dir) : r[1] = u /\ r[2] <= d
<1> DEFINE D == {c \in Nat : u \in At(links, dir, c)}
<1>1. PICK c \in D : \A b \in D : c <= b
  BY LeastNumber
<1>2. u \in Urls /\ c \in Nat /\ c <= d
  BY <1>1 DEF At
<1> DEFINE r == <<u, c>>
<1>3. r \in Urls \X Nat /\ r[1] = u /\ r[2] = c
  BY <1>2
<1> HIDE DEF r
<1>4. r \in Query(links, m, dir)
  BY <1>1, <1>2, <1>3, QueryIsLeast
<1>5. QED
  BY <1>2, <1>3, <1>4

LEMMA QueryRow ==
    ASSUME NEW links, links \subseteq Links, NEW m \in Nat, NEW dir, NEW r \in Query(links, m, dir)
    PROVE  /\ r \in Urls \X Nat /\ r[1] \in Urls /\ r[2] \in Nat
           /\ r[2] <= m /\ r[1] \in At(links, dir, r[2])
           /\ \A d \in Nat : r[1] \in At(links, dir, d) => r[2] <= d
BY QueryIsLeast

-----------------------------------------------------------------------------
(* What the walk keeps *)

\* Every URL visited but the start has another, of the level before, with a link to it.
LevelsLinked ==
    \A u \in DOMAIN depth \ {Start} :
        \E w \in DOMAIN depth : depth[w] + 1 = depth[u] /\ u \in Hops(linksFrom, w, direction)

\* When the walk is over, every URL short of the limit has led on to all that it had
\* links to when the walk began, no more than a level further.
LevelsComplete ==
    phase = "walked" =>
        \A u \in DOMAIN depth : depth[u] < limit =>
            \A v \in Hops(before, u, direction) : v \in DOMAIN depth /\ depth[v] <= depth[u] + 1

Walking == phase \in {"walk", "walked"}

\* The level being read is one above the last; what it leads to is the last.
Levels ==
    /\ round \in Nat /\ limit \in Nat
    /\ depth \in [DOMAIN depth -> Nat]
    /\ \A u \in current : u \in DOMAIN depth /\ depth[u] + 1 = round
    /\ \A u \in DOMAIN depth : depth[u] <= round /\ (depth[u] = round => u \in next)
    /\ \A u \in next : u \in DOMAIN depth /\ depth[u] = round

\* A URL in hand is of the level being read, and what is read of it are its links.
InHand ==
    hand # NoUrl =>
        /\ direction = "both" /\ hand \in current
        /\ read \subseteq LinksFrom(linksFrom, hand)
        /\ LinksFrom(before, hand) \subseteq read

\* Nothing is visited outside a walk.
Idle == ~Walking => DOMAIN depth = {} /\ hand = NoUrl /\ next = {}

Stored == linksTo \subseteq linksFrom /\ (Walking => before \subseteq linksTo)

\* A URL that has been read leads on to all that it had links to.
ReadComplete ==
    Walking =>
        \A u \in DOMAIN depth : depth[u] < round /\ u \notin current =>
            \A v \in Hops(before, u, direction) : v \in DOMAIN depth /\ depth[v] <= depth[u] + 1

Ended == phase = "walked" => limit = 0 \/ (current = {} /\ (next = {} \/ round >= limit))

WalkInv ==
    /\ direction \in Directions
    /\ Walking => Levels
    /\ InHand /\ Idle /\ Stored /\ ReadComplete /\ Ended /\ LevelsLinked

-----------------------------------------------------------------------------
(* Links *)

LEMMA HopsGrow ==
    ASSUME NEW links, NEW more, links \subseteq more, NEW u, NEW dir
    PROVE  Hops(links, u, dir) \subseteq Hops(more, u, dir)
BY DEF Hops, LinksFrom, LinksTo

\* The loop over the links of a URL finds what a hop finds.
LEMMA OutboundHops ==
    ASSUME direction = "outbound", NEW u
    PROVE  {Neighbor(u, e) : e \in LinksFrom(linksFrom, u)} = Hops(linksFrom, u, direction)
BY DEF Neighbor, Hops

LEMMA InboundHops ==
    ASSUME direction = "inbound", NEW u
    PROVE  {Neighbor(u, e) : e \in LinksTo(linksTo, u)} = Hops(linksTo, u, direction)
BY DEF Neighbor, Hops

LEMMA BothHops ==
    ASSUME direction = "both", NEW u, NEW links, links = read \cup LinksTo(linksTo, u),
           linksTo \subseteq linksFrom, before \subseteq linksTo,
           read \subseteq LinksFrom(linksFrom, u), LinksFrom(before, u) \subseteq read
    PROVE  /\ {Neighbor(u, e) : e \in links} \subseteq Hops(linksFrom, u, direction)
           /\ Hops(before, u, direction) \subseteq {Neighbor(u, e) : e \in links}
<1>1. \A e : Neighbor(u, e) = IF e[1] = u THEN e[2] ELSE e[1]
  BY DEF Neighbor
<1>2. \A g : Hops(g, u, direction) =
                 {e[2] : e \in LinksFrom(g, u)} \cup {e[1] : e \in LinksTo(g, u)}
  BY DEF Hops
<1>3. ASSUME NEW e \in links PROVE Neighbor(u, e) \in Hops(linksFrom, u, direction)
  <2>1. CASE e[1] = u
    <3>1. e \in LinksFrom(linksFrom, u)
      BY <2>1 DEF LinksFrom, LinksTo
    <3>2. QED
      BY <1>1, <1>2, <2>1, <3>1
  <2>2. CASE e[1] # u
    <3>1. e \in LinksTo(linksFrom, u)
      BY <2>2 DEF LinksFrom, LinksTo
    <3>2. QED
      BY <1>1, <1>2, <2>2, <3>1
  <2>3. QED
    BY <2>1, <2>2
<1>4. ASSUME NEW e \in LinksFrom(before, u) PROVE e[2] \in {Neighbor(u, f) : f \in links}
  <2>1. e \in links /\ e[1] = u
    BY <1>4 DEF LinksFrom
  <2>2. QED
    BY <1>1, <2>1
<1>5. ASSUME NEW e \in LinksTo(before, u) PROVE e[1] \in {Neighbor(u, f) : f \in links}
  <2>1. e \in links /\ e[2] = u
    BY <1>5 DEF LinksTo
  <2>2. QED
    BY <1>1, <2>1
<1>6. QED
  BY <1>2, <1>3, <1>4, <1>5

-----------------------------------------------------------------------------
(* The walk *)

LEMMA InitWalk == Init => WalkInv
<1> SUFFICES ASSUME Init PROVE WalkInv
  OBVIOUS
<1>1. DOMAIN depth = {} /\ hand = NoUrl /\ next = {} /\ ~Walking /\ phase # "walked"
  BY DEF Init, Walking
<1>2. linksTo \subseteq linksFrom /\ direction \in Directions
  BY DEF Init, Directions
<1>3. QED
  BY <1>1, <1>2 DEF WalkInv, InHand, Idle, Stored, ReadComplete, Ended, LevelsLinked

\* Reading one URL, with at least the links it had and at most those it has.
LEMMA VisitKept ==
    ASSUME WalkInv, phase = "walk", NEW u \in current, NEW links,
           {Neighbor(u, e) : e \in links} \subseteq Hops(linksFrom, u, direction),
           Hops(before, u, direction) \subseteq {Neighbor(u, e) : e \in links},
           Visit(u, links), hand' = NoUrl
    PROVE  WalkInv'
<1> DEFINE N == {Neighbor(u, e) : e \in links}
           found == N \ DOMAIN depth
<1>1. /\ depth' = [v \in DOMAIN depth \cup found |-> IF v \in found THEN round ELSE depth[v]]
      /\ next' = next \cup found
      /\ current' = current \ {u}
      /\ UNCHANGED <<linksFrom, linksTo, phase, before, direction, limit, round>>
  BY DEF Visit, store
<1>2. Levels /\ Walking /\ Walking' /\ phase' = "walk"
  BY <1>1 DEF WalkInv, Walking
<1>3. u \in DOMAIN depth /\ depth[u] + 1 = round /\ depth[u] \in Nat /\ round \in Nat
  BY <1>2 DEF Levels
<1>4. /\ DOMAIN depth' = DOMAIN depth \cup found
      /\ \A v \in DOMAIN depth : depth'[v] = depth[v]
      /\ \A v \in found : depth'[v] = round
  BY <1>1
<1>5. N \subseteq DOMAIN depth'
  BY <1>4
<1>6. Hops(before, u, direction) \subseteq N /\ N \subseteq Hops(linksFrom, u, direction)
  OBVIOUS
<1> HIDE DEF N
<1>7. Levels'
  <2>1. depth' \in [DOMAIN depth' -> Nat]
    <3>1. \A v \in DOMAIN depth' : depth'[v] \in Nat
      BY <1>2, <1>3, <1>4 DEF Levels
    <3>2. depth' = [v \in DOMAIN depth' |-> depth'[v]]
      BY <1>1
    <3>3. QED
      BY <3>1, <3>2
  <2>2. \A v \in current' : v \in DOMAIN depth' /\ depth'[v] + 1 = round'
    BY <1>1, <1>2, <1>4 DEF Levels
  <2>3. \A v \in DOMAIN depth' : depth'[v] <= round' /\ (depth'[v] = round' => v \in next')
    BY <1>1, <1>2, <1>3, <1>4 DEF Levels
  <2>4. \A v \in next' : v \in DOMAIN depth' /\ depth'[v] = round'
    BY <1>1, <1>2, <1>4 DEF Levels
  <2>5. round' \in Nat /\ limit' \in Nat
    BY <1>1, <1>2 DEF Levels
  <2>6. QED
    BY <2>1, <2>2, <2>3, <2>4, <2>5 DEF Levels
<1>8. ReadComplete'
  <2> SUFFICES ASSUME NEW w \in DOMAIN depth', depth'[w] < round, w \notin current',
                      NEW v \in Hops(before, w, direction)
               PROVE  v \in DOMAIN depth' /\ depth'[v] <= depth'[w] + 1
    BY <1>1 DEF ReadComplete
  <2>1. w \in DOMAIN depth /\ depth'[w] = depth[w]
    BY <1>3, <1>4
  <2>2. CASE w = u
    <3>1. v \in DOMAIN depth'
      BY <1>5, <1>6, <2>2
    <3>2. depth'[v] <= round
      BY <1>1, <1>7, <3>1 DEF Levels
    <3>3. QED
      BY <1>3, <2>1, <2>2, <3>1, <3>2
  <2>3. CASE w # u
    <3>1. w \notin current
      BY <1>1, <2>3
    <3>2. v \in DOMAIN depth /\ depth[v] <= depth[w] + 1
      BY <1>2, <2>1, <3>1 DEF WalkInv, ReadComplete
    <3>3. QED
      BY <1>4, <2>1, <3>2
  <2>4. QED
    BY <2>2, <2>3
<1>9. LevelsLinked'
  <2> SUFFICES ASSUME NEW v \in DOMAIN depth' \ {Start}
               PROVE  \E w \in DOMAIN depth' :
                          depth'[w] + 1 = depth'[v] /\ v \in Hops(linksFrom, w, direction)
    BY <1>1 DEF LevelsLinked
  <2>1. CASE v \in DOMAIN depth
    <3>1. PICK w \in DOMAIN depth :
              depth[w] + 1 = depth[v] /\ v \in Hops(linksFrom, w, direction)
      BY <2>1 DEF WalkInv, LevelsLinked
    <3>2. QED
      BY <1>4, <2>1, <3>1
  <2>2. CASE v \in found
    <3>1. v \in Hops(linksFrom, u, direction) /\ depth'[v] = round
      BY <1>4, <1>6, <2>2
    <3>2. u \in DOMAIN depth' /\ depth'[u] + 1 = round
      BY <1>3, <1>4
    <3>3. QED
      BY <3>1, <3>2
  <2>3. QED
    BY <1>4, <2>1, <2>2
<1>10. InHand' /\ Idle' /\ Ended'
  BY <1>2 DEF InHand, Idle, Ended
<1>11. Stored' /\ direction' \in Directions
  BY <1>1, <1>2 DEF WalkInv, Stored
<1>12. QED
  BY <1>7, <1>8, <1>9, <1>10, <1>11 DEF WalkInv

\* Links that are recorded meanwhile take nothing away.
LEMMA RecordKept ==
    ASSUME WalkInv, linksFrom \subseteq linksFrom', linksTo \subseteq linksTo',
           linksTo' \subseteq linksFrom', UNCHANGED <<phase, before, walkVars>>
    PROVE  WalkInv'
<1> USE DEF walkVars
<1>1. Walking' = Walking
  BY DEF Walking
<1>2. direction' \in Directions /\ (Walking => Levels') /\ Idle' /\ ReadComplete' /\ Ended'
  BY <1>1 DEF WalkInv, Levels, Idle, ReadComplete, Ended
<1>3. InHand'
  BY DEF WalkInv, InHand, LinksFrom
<1>4. Stored'
  BY <1>1 DEF WalkInv, Stored
<1>5. \A w : Hops(linksFrom, w, direction) \subseteq Hops(linksFrom', w, direction)
  BY HopsGrow
<1>6. LevelsLinked'
  BY <1>5 DEF WalkInv, LevelsLinked
<1>7. QED
  BY <1>1, <1>2, <1>3, <1>4, <1>6 DEF WalkInv

LEMMA WalkKept ==
    ASSUME WalkInv, [Next]_vars
    PROVE  WalkInv'
<1>1. ASSUME NEW e \in Links, RecordFrom(e) \/ RecordTo(e) PROVE WalkInv'
  <2>1. /\ linksFrom \subseteq linksFrom' /\ linksTo \subseteq linksTo'
        /\ linksTo' \subseteq linksFrom' /\ UNCHANGED <<phase, before, walkVars>>
    BY <1>1 DEF RecordFrom, RecordTo, WalkInv, Stored
  <2>2. QED
    BY <2>1, RecordKept
<1>2. ASSUME NEW m \in 0..MaxDepth, NEW dir \in Directions, BeginWalk(m, dir) PROVE WalkInv'
  <2>1. /\ direction' = dir /\ limit' = m /\ before' = linksTo /\ round' = 1
        /\ depth' = [u \in {Start} |-> 0] /\ current' = {Start}
        /\ phase' = IF m = 0 THEN "walked" ELSE "walk"
        /\ UNCHANGED <<linksFrom, linksTo, next, hand, read>> /\ phase = "idle"
    BY <1>2 DEF BeginWalk, store
  <2>2. hand' = NoUrl /\ next' = {} /\ Walking' /\ m \in Nat
    BY <2>1, GraphWalksAssumption DEF GraphWalksAssumption, WalkInv, Idle, Walking
  <2>3. DOMAIN depth' = {Start} /\ depth'[Start] = 0 /\ depth' \in [DOMAIN depth' -> Nat]
    BY <2>1
  <2>4. Levels'
    BY <2>1, <2>2, <2>3 DEF Levels
  <2>5. ReadComplete' /\ LevelsLinked'
    BY <2>1, <2>3 DEF ReadComplete, LevelsLinked
  <2>6. InHand' /\ Idle' /\ Stored' /\ Ended'
    BY <2>1, <2>2 DEF InHand, Idle, Stored, Ended, WalkInv
  <2>7. QED
    BY <2>1, <2>4, <2>5, <2>6 DEF WalkInv
<1>3. ASSUME NEW u \in Urls, Expand(u) PROVE WalkInv'
  <2>1. /\ phase = "walk" /\ u \in current /\ direction # "both" /\ UNCHANGED hand
        /\ Visit(u, IF direction = "outbound" THEN LinksFrom(linksFrom, u)
                                              ELSE LinksTo(linksTo, u))
    BY <1>3 DEF Expand
  <2>2. hand' = NoUrl /\ before \subseteq linksTo /\ linksTo \subseteq linksFrom
    BY <2>1 DEF WalkInv, InHand, Stored, Walking
  <2>3. /\ Hops(before, u, direction) \subseteq Hops(linksTo, u, direction)
        /\ Hops(linksTo, u, direction) \subseteq Hops(linksFrom, u, direction)
    BY <2>2, HopsGrow
  <2>4. CASE direction = "outbound"
    BY <2>1, <2>2, <2>3, <2>4, OutboundHops, VisitKept
  <2>5. CASE direction = "inbound"
    BY <2>1, <2>2, <2>3, <2>5, InboundHops, VisitKept
  <2>6. QED
    BY <2>1, <2>4, <2>5 DEF WalkInv, Directions
<1>4. ASSUME NEW u \in Urls, ReadFrom(u) PROVE WalkInv'
  <2>1. /\ phase = "walk" /\ u \in current /\ direction = "both"
        /\ hand' = u /\ read' = LinksFrom(linksFrom, u)
        /\ UNCHANGED <<linksFrom, linksTo, phase, before, direction, limit, depth, current, next,
                       round>>
    BY <1>4 DEF ReadFrom, store
  <2>2. Walking /\ Walking' /\ before \subseteq linksFrom
    BY <2>1 DEF Walking, WalkInv, Stored
  <2>3. InHand'
    BY <2>1, <2>2 DEF InHand, LinksFrom
  <2>4. Levels' /\ ReadComplete' /\ LevelsLinked' /\ Ended'
    BY <2>1, <2>2 DEF WalkInv, Levels, ReadComplete, LevelsLinked, Ended
  <2>5. Idle' /\ Stored' /\ direction' \in Directions
    BY <2>1, <2>2 DEF WalkInv, Idle, Stored
  <2>6. QED
    BY <2>3, <2>4, <2>5 DEF WalkInv
<1>5. ASSUME NEW u \in Urls, ExpandBoth(u) PROVE WalkInv'
  <2>1. /\ phase = "walk" /\ direction = "both" /\ hand = u /\ hand' = NoUrl
        /\ Visit(u, read \cup LinksTo(linksTo, u)) /\ u # NoUrl
    BY <1>5, GraphWalksAssumption DEF ExpandBoth, GraphWalksAssumption
  <2>2. /\ u \in current /\ before \subseteq linksTo /\ linksTo \subseteq linksFrom
        /\ read \subseteq LinksFrom(linksFrom, u) /\ LinksFrom(before, u) \subseteq read
    BY <2>1 DEF WalkInv, InHand, Stored, Walking
  <2>3. QED
    BY <2>1, <2>2, BothHops, VisitKept
<1>6. CASE NextLevel
  <2>1. /\ phase = "walk" /\ current = {}
        /\ UNCHANGED <<linksFrom, linksTo, before, direction, limit, depth, hand, read>>
    BY <1>6 DEF NextLevel, store
  <2>2. Levels /\ Walking /\ hand = NoUrl
    BY <2>1 DEF WalkInv, Walking, InHand
  <2>3. InHand' /\ LevelsLinked' /\ direction' \in Directions
    BY <2>1, <2>2 DEF WalkInv, InHand, LevelsLinked
  <2>4. CASE next = {} \/ round >= limit
    <3>1. phase' = "walked" /\ UNCHANGED <<current, next, round>>
      BY <1>6, <2>4 DEF NextLevel
    <3>2. Walking'
      BY <3>1 DEF Walking
    <3>3. Levels' /\ ReadComplete'
      BY <2>1, <2>2, <3>1 DEF WalkInv, Levels, ReadComplete
    <3>4. Idle' /\ Stored' /\ Ended'
      BY <2>1, <2>2, <2>4, <3>1, <3>2 DEF WalkInv, Idle, Stored, Ended
    <3>5. QED
      BY <2>3, <3>3, <3>4 DEF WalkInv
  <2>5. CASE ~(next = {} \/ round >= limit)
    <3>1. phase' = phase /\ current' = next /\ next' = {} /\ round' = round + 1
      BY <1>6, <2>5 DEF NextLevel
    <3>2. Walking' /\ phase' # "walked"
      BY <2>1, <3>1 DEF Walking
    <3>3. Levels'
      BY <2>1, <2>2, <3>1 DEF Levels
    <3>4. ReadComplete'
      <4>1. \A w \in DOMAIN depth : depth[w] < round + 1 /\ w \notin next => depth[w] < round
        BY <2>2 DEF Levels
      <4>2. QED
        BY <2>1, <2>2, <3>1, <4>1 DEF WalkInv, ReadComplete
    <3>5. Idle' /\ Stored' /\ Ended'
      BY <2>1, <2>2, <3>2 DEF WalkInv, Idle, Stored, Ended
    <3>6. QED
      BY <2>3, <3>3, <3>4, <3>5 DEF WalkInv
  <2>6. QED
    BY <2>4, <2>5
<1>7. CASE (\E u \in Urls : BeginPath(u) \/ StepBack(u) \/ StepPanics(u)) \/ EndPath
  <2>1. /\ ~Walking /\ ~Walking' /\ phase' # "walked"
        /\ UNCHANGED <<linksFrom, linksTo, direction, limit, depth, current, next, hand, read>>
    BY <1>7 DEF BeginPath, StepBack, StepPanics, EndPath, Walking, store, walkVars
  <2>2. DOMAIN depth' = {} /\ hand' = NoUrl /\ next' = {} /\ linksTo' \subseteq linksFrom'
    BY <2>1 DEF WalkInv, Idle, Stored
  <2>3. QED
    BY <2>1, <2>2
       DEF WalkInv, InHand, Idle, Stored, ReadComplete, Ended, LevelsLinked
<1>8. CASE UNCHANGED vars
  <2>1. UNCHANGED <<phase, before, walkVars, linksFrom, linksTo>>
    BY <1>8 DEF vars, store
  <2>2. QED
    BY <2>1, RecordKept DEF WalkInv, Stored
<1>9. QED
  BY <1>1, <1>2, <1>3, <1>4, <1>5, <1>6, <1>7, <1>8 DEF Next

LEMMA Walks == Spec => []WalkInv
BY InitWalk, WalkKept, PTL DEF Spec

-----------------------------------------------------------------------------
(* Types *)

LEMMA NeighborType ==
    ASSUME direction \in Directions, NEW u, NEW e \in Links
    PROVE  Neighbor(u, e) \in Urls
<1>1. e[1] \in Urls /\ e[2] \in Urls
  BY DEF Links
<1>2. QED
  BY <1>1 DEF Neighbor, Directions

LEMMA VisitType ==
    ASSUME TypeOK, NEW u \in Urls, NEW links, links \subseteq Links, Visit(u, links),
           hand' \in Urls \cup {NoUrl}, read' \subseteq linksFrom
    PROVE  TypeOK'
<1> DEFINE found == {Neighbor(u, e) : e \in links} \ DOMAIN depth
<1>1. found \subseteq Urls
  BY NeighborType DEF TypeOK
<1>2. /\ depth' = [v \in DOMAIN depth \cup found |-> IF v \in found THEN round ELSE depth[v]]
      /\ next' = next \cup found /\ current' = current \ {u}
      /\ UNCHANGED <<linksFrom, linksTo, phase, before, direction, limit, round, goal, scored, path>>
  BY DEF Visit, store, pathVars
<1> HIDE DEF found
<1>3. DOMAIN depth' = DOMAIN depth \cup found
  BY <1>2
<1>4. depth' \in [DOMAIN depth' -> Nat]
  BY <1>2, <1>3 DEF TypeOK
<1>5. DOMAIN depth' \subseteq Urls /\ current' \subseteq DOMAIN depth' /\ next' \subseteq DOMAIN depth'
  BY <1>1, <1>2, <1>3 DEF TypeOK
<1>6. QED
  BY <1>2, <1>4, <1>5 DEF TypeOK

LEMMA RecordType ==
    ASSUME TypeOK, linksFrom \subseteq linksFrom', linksFrom' \subseteq Links,
           linksTo' \subseteq linksFrom', UNCHANGED <<phase, before, walkVars, pathVars>>
    PROVE  TypeOK'
BY DEF TypeOK, walkVars, pathVars

LEMMA StepType == ASSUME TypeOK, WalkInv, [Next]_vars PROVE TypeOK'
<1>1. ASSUME NEW e \in Links, RecordFrom(e) \/ RecordTo(e) PROVE TypeOK'
  <2>1. /\ linksFrom \subseteq linksFrom' /\ linksFrom' \subseteq Links
        /\ linksTo' \subseteq linksFrom' /\ UNCHANGED <<phase, before, walkVars, pathVars>>
    BY <1>1 DEF RecordFrom, RecordTo, TypeOK
  <2>2. QED
    BY <2>1, RecordType
<1>2. ASSUME NEW m \in 0..MaxDepth, NEW dir \in Directions, BeginWalk(m, dir) PROVE TypeOK'
  <2>1. /\ direction' = dir /\ limit' = m /\ before' = linksTo /\ round' = 1
        /\ depth' = [u \in {Start} |-> 0] /\ current' = {Start}
        /\ phase' \in {"walk", "walked"}
        /\ UNCHANGED <<linksFrom, linksTo, next, hand, read, goal, scored, path>>
        /\ phase = "idle"
    BY <1>2 DEF BeginWalk, store, pathVars
  <2>2. next' = {}
    BY <2>1 DEF WalkInv, Idle, Walking
  <2>3. DOMAIN depth' = {Start} /\ depth' \in [DOMAIN depth' -> Nat] /\ Start \in Urls
    BY <2>1, GraphWalksAssumption DEF GraphWalksAssumption
  <2>4. QED
    <3>1. limit' \in Nat /\ round' \in Nat /\ current' \subseteq DOMAIN depth'
      BY <2>1, <2>3, GraphWalksAssumption DEF GraphWalksAssumption
    <3>2. /\ linksFrom' \subseteq Links /\ linksTo' \subseteq linksFrom'
          /\ before' \subseteq linksFrom' /\ hand' \in Urls \cup {NoUrl}
          /\ read' \subseteq linksFrom' /\ goal' \in Urls /\ scored' \subseteq Urls
          /\ path' \in Seq(Urls)
      BY <2>1 DEF TypeOK
    <3>3. phase' \in {"walk", "walked"} /\ direction' \in Directions
      BY <2>1
    <3>4. next' \subseteq DOMAIN depth' /\ DOMAIN depth' \subseteq Urls
      BY <2>2, <2>3
    <3>5. QED
      BY <2>3, <3>1, <3>2, <3>3, <3>4 DEF TypeOK
<1>3. ASSUME NEW u \in Urls, Expand(u) PROVE TypeOK'
  <2>1. /\ UNCHANGED <<linksFrom, hand, read>>
        /\ Visit(u, IF direction = "outbound" THEN LinksFrom(linksFrom, u)
                                              ELSE LinksTo(linksTo, u))
    BY <1>3 DEF Expand, Visit, store
  <2>2. LinksFrom(linksFrom, u) \subseteq Links /\ LinksTo(linksTo, u) \subseteq Links
    BY DEF LinksFrom, LinksTo, TypeOK
  <2>3. hand' \in Urls \cup {NoUrl} /\ read' \subseteq linksFrom
    BY <2>1 DEF TypeOK
  <2>4. QED
    BY <2>1, <2>2, <2>3, VisitType
<1>4. ASSUME NEW u \in Urls, ReadFrom(u) PROVE TypeOK'
  BY <1>4 DEF ReadFrom, TypeOK, store, pathVars, LinksFrom
<1>5. ASSUME NEW u \in Urls, ExpandBoth(u) PROVE TypeOK'
  <2>1. hand' = NoUrl /\ read' = {} /\ Visit(u, read \cup LinksTo(linksTo, u))
    BY <1>5 DEF ExpandBoth
  <2>2. read \cup LinksTo(linksTo, u) \subseteq Links
    BY DEF LinksTo, TypeOK
  <2>3. QED
    BY <2>1, <2>2, VisitType
<1>6. CASE NextLevel
  <2>1. /\ phase' \in {"walk", "walked"} /\ round' \in Nat
        /\ current' \subseteq DOMAIN depth /\ next' \subseteq DOMAIN depth
    BY <1>6 DEF NextLevel, TypeOK
  <2>2. UNCHANGED <<linksFrom, linksTo, before, direction, limit, depth, hand, read, goal, scored, path>>
    BY <1>6 DEF NextLevel, store, pathVars
  <2>3. QED
    BY <2>1, <2>2 DEF TypeOK
<1>7. ASSUME NEW g \in Urls, BeginPath(g) PROVE TypeOK'
  <2>1. /\ before' = linksFrom /\ goal' = g /\ phase' \in {"path", "unreachable"}
        /\ UNCHANGED <<linksFrom, linksTo, walkVars>>
    BY <1>7 DEF BeginPath, store
  <2>2. scored' \subseteq Urls
    <3>1. \A u : Hops(linksFrom, u, "outbound") \subseteq Urls
      BY HopsType DEF TypeOK
    <3>2. CASE scored' = scored
      BY <3>2 DEF TypeOK
    <3>3. CASE scored' # scored
      <4>1. PICK settled :
                scored' = {Start, g} \cup UNION {Hops(linksFrom, u, "outbound") : u \in settled}
        BY <1>7, <3>3 DEF BeginPath
      <4>2. QED
        BY <3>1, <4>1, GraphWalksAssumption DEF GraphWalksAssumption
    <3>4. QED
      BY <3>2, <3>3
  <2>3. path' \in Seq(Urls)
    <3>1. path' = <<g>> \/ path' = path
      BY <1>7 DEF BeginPath
    <3>2. <<g>> \in Seq(Urls)
      OBVIOUS
    <3>3. QED
      BY <3>1, <3>2 DEF TypeOK
  <2>4. QED
    BY <2>1, <2>2, <2>3 DEF TypeOK, walkVars
<1>8. ASSUME NEW u \in Urls, StepBack(u) PROVE TypeOK'
  <2>1. path' \in Seq(Urls) /\ UNCHANGED <<linksFrom, linksTo, phase, before, walkVars, goal, scored>>
    BY <1>8 DEF StepBack, TypeOK, store
  <2>2. QED
    BY <2>1 DEF TypeOK, walkVars
<1>9. ASSUME NEW u \in Urls, StepPanics(u) PROVE TypeOK'
  BY <1>9 DEF StepPanics, TypeOK, store, walkVars, pathVars
<1>10. CASE EndPath
  BY <1>10 DEF EndPath, TypeOK, store, walkVars, pathVars
<1>11. CASE UNCHANGED vars
  BY <1>11, RecordType DEF vars, store, TypeOK
<1>12. QED
  BY <1>1, <1>2, <1>3, <1>4, <1>5, <1>6, <1>7, <1>8, <1>9, <1>10, <1>11 DEF Next

\* Every variable of a walk keeps its type, and the reverse map of the store never
\* holds a link that the forward map lacks.
THEOREM TypeCorrect == Spec => []TypeOK
<1>1. Init => TypeOK
  <2> SUFFICES ASSUME Init PROVE TypeOK
    OBVIOUS
  <2>1. DOMAIN depth = {} /\ depth \in [DOMAIN depth -> Nat]
    BY DEF Init
  <2>2. path \in Seq(Urls)
    BY DEF Init
  <2>3. Start \in Urls
    BY GraphWalksAssumption DEF GraphWalksAssumption
  <2>4. QED
    BY <2>1, <2>2, <2>3 DEF Init, TypeOK, Directions
<1>2. QED
  BY <1>1, StepType, Walks, PTL DEF Spec

-----------------------------------------------------------------------------
(* What a walk reports *)

\* A walk has visited its start, and goes no further than it was asked to.
Within ==
    /\ Walking =>
           /\ Start \in DOMAIN depth /\ depth[Start] = 0
           /\ \A u \in DOMAIN depth : depth[u] <= limit
    /\ phase = "walk" => round <= limit

LEMMA WithinKept ==
    ASSUME Within, TypeOK, WalkInv, [Next]_vars
    PROVE  Within'
<1>1. ASSUME UNCHANGED <<phase, depth, limit, round>> PROVE Within'
  BY <1>1 DEF Within, Walking
<1>2. CASE \E e \in Links : RecordFrom(e) \/ RecordTo(e)
  BY <1>1, <1>2 DEF RecordFrom, RecordTo, walkVars
<1>3. ASSUME NEW m \in 0..MaxDepth, NEW dir \in Directions, BeginWalk(m, dir) PROVE Within'
  <2>1. /\ limit' = m /\ round' = 1 /\ depth' = [u \in {Start} |-> 0]
        /\ phase' = IF m = 0 THEN "walked" ELSE "walk"
    BY <1>3 DEF BeginWalk
  <2>2. m \in Nat
    BY GraphWalksAssumption DEF GraphWalksAssumption
  <2>3. QED
    BY <2>1, <2>2 DEF Within
<1>4. ASSUME NEW u, NEW links, phase = "walk", Visit(u, links) PROVE Within'
  <2> DEFINE found == {Neighbor(u, e) : e \in links} \ DOMAIN depth
  <2>1. /\ depth' = [v \in DOMAIN depth \cup found |-> IF v \in found THEN round ELSE depth[v]]
        /\ UNCHANGED <<phase, limit, round>>
    BY <1>4 DEF Visit
  <2>2. found \cap DOMAIN depth = {}
    OBVIOUS
  <2> HIDE DEF found
  <2>3. /\ Start \in DOMAIN depth /\ depth[Start] = 0 /\ round <= limit
        /\ \A v \in DOMAIN depth : depth[v] <= limit
    BY <1>4 DEF Within, Walking
  <2>4. Start \in DOMAIN depth' /\ depth'[Start] = 0
    BY <2>1, <2>2, <2>3
  <2>5. \A v \in DOMAIN depth' : depth'[v] <= limit
    BY <2>1, <2>3
  <2>6. QED
    BY <2>1, <2>3, <2>4, <2>5 DEF Within
<1>5. CASE \E u \in Urls : Expand(u) \/ ExpandBoth(u)
  BY <1>4, <1>5 DEF Expand, ExpandBoth
<1>6. CASE \E u \in Urls : ReadFrom(u)
  BY <1>1, <1>6 DEF ReadFrom
<1>7. CASE NextLevel
  <2>1. /\ UNCHANGED <<depth, limit>> /\ Walking /\ phase' \in {"walk", "walked"}
        /\ phase' = "walk" => round' = round + 1 /\ ~(round >= limit)
    BY <1>7 DEF NextLevel, Walking
  <2>2. round \in Nat /\ limit \in Nat
    BY DEF TypeOK
  <2>3. QED
    BY <2>1, <2>2 DEF Within, Walking
<1>8. CASE (\E u \in Urls : BeginPath(u) \/ StepBack(u) \/ StepPanics(u)) \/ EndPath
  <2>1. ~Walking'
    BY <1>8 DEF BeginPath, StepBack, StepPanics, EndPath, Walking
  <2>2. QED
    BY <2>1 DEF Within, Walking
<1>9. CASE UNCHANGED vars
  BY <1>1, <1>9 DEF vars, walkVars
<1>10. QED
  BY <1>2, <1>3, <1>5, <1>6, <1>7, <1>8, <1>9 DEF Next

LEMMA StaysWithin == Spec => []Within
<1>1. Init => Within
  BY DEF Init, Within, Walking
<1>2. QED
  BY <1>1, WithinKept, TypeCorrect, Walks, PTL DEF Spec

\* What a walk reports is linked to the level before it, in the store as it now is.
THEOREM WalkedIsLinked == Spec => []LevelsLinked
BY Walks, PTL DEF WalkInv

\* What was linked when the walk began is reported, level by level, up to the limit.
THEOREM LinkedIsWalked == Spec => []LevelsComplete
<1>1. WalkInv => LevelsComplete
  <2> SUFFICES ASSUME WalkInv, phase = "walked", NEW u \in DOMAIN depth, depth[u] < limit
               PROVE  \A v \in Hops(before, u, direction) :
                          v \in DOMAIN depth /\ depth[v] <= depth[u] + 1
    BY DEF LevelsComplete
  <2>1. Levels /\ Walking
    BY DEF WalkInv, Walking
  <2>2. depth[u] \in Nat /\ round \in Nat /\ limit \in Nat /\ limit # 0
    BY <2>1 DEF Levels
  <2>3. current = {} /\ (next = {} \/ round >= limit)
    BY <2>2 DEF WalkInv, Ended
  <2>4. depth[u] < round
    BY <2>1, <2>2, <2>3 DEF Levels
  <2>5. QED
    BY <2>1, <2>3, <2>4 DEF WalkInv, ReadComplete
<1>2. QED
  BY <1>1, Walks, PTL

\* Whatever is recorded during a walk, it reports each URL that the database query would
\* have found when the walk began, and no deeper: a URL that d links lead to is visited at
\* most d levels down, for every d up to the limit, since its predecessor is and has led on.
THEOREM NothingMissed == Spec => []WalkMissesNothing
<1>1. ASSUME TypeOK, Within, LevelsComplete PROVE WalkMissesNothing
  <2> SUFFICES ASSUME phase = "walked", NEW r \in Query(before, limit, direction)
               PROVE  r[1] \in DOMAIN depth /\ depth[r[1]] <= r[2]
    BY DEF WalkMissesNothing
  <2>1. before \subseteq Links /\ limit \in Nat /\ \A v \in DOMAIN depth : depth[v] \in Nat
    BY <1>1 DEF TypeOK
  <2> DEFINE T == {d \in Nat : d <= limit =>
                       \A u \in At(before, direction, d) : u \in DOMAIN depth /\ depth[u] <= d}
  <2>2. 0 \in T
    BY <1>1, AtStart DEF Within, Walking
  <2>3. ASSUME NEW d \in Nat, d \in T PROVE d + 1 \in T
    <3> SUFFICES ASSUME d + 1 <= limit, NEW u \in At(before, direction, d + 1)
                 PROVE  u \in DOMAIN depth /\ depth[u] <= d + 1
      OBVIOUS
    <3>1. PICK w \in At(before, direction, d) : u \in Hops(before, w, direction)
      BY <2>1, AtNext
    <3>2. w \in DOMAIN depth /\ depth[w] <= d /\ depth[w] \in Nat /\ depth[w] < limit
      BY <2>1, <2>3
    <3>3. u \in DOMAIN depth /\ depth[u] <= depth[w] + 1 /\ depth[u] \in Nat
      BY <1>1, <2>1, <3>1, <3>2 DEF LevelsComplete
    <3>4. QED
      BY <3>2, <3>3
  <2>4. r[2] \in Nat /\ r[2] <= limit /\ r[1] \in At(before, direction, r[2])
    BY <2>1, QueryRow
  <2> HIDE DEF T
  <2>5. r[2] \in T
    BY <2>2, <2>3, <2>4, Counting
  <2>6. QED
    BY <2>4, <2>5 DEF T
<1>2. QED
  BY <1>1, TypeCorrect, StaysWithin, LinkedIsWalked, PTL

\* Nor does a walk report what the query would not find when the walk is over, or a URL
\* nearer than the query has it: a URL d levels down has a way of d links to it by then.
THEOREM NothingInvented == Spec => []WalkInventsNothing
<1>1. ASSUME TypeOK, Within, LevelsLinked PROVE WalkInventsNothing
  <2> SUFFICES ASSUME phase = "walked", NEW u \in DOMAIN depth
               PROVE  \E r \in Query(linksFrom, limit, direction) : r[1] = u /\ r[2] <= depth[u]
    BY DEF WalkInventsNothing
  <2>1. linksFrom \subseteq Links /\ limit \in Nat /\ \A v \in DOMAIN depth : depth[v] \in Nat
    BY <1>1 DEF TypeOK
  <2> DEFINE T == {d \in Nat :
                       \A v \in DOMAIN depth : depth[v] = d => v \in At(linksFrom, direction, d)}
  <2>2. ASSUME NEW v \in DOMAIN depth, v # Start
        PROVE  \E w \in DOMAIN depth :
                   depth[w] + 1 = depth[v] /\ v \in Hops(linksFrom, w, direction)
    BY <1>1, <2>2 DEF LevelsLinked
  <2>3. Start \in DOMAIN depth /\ depth[Start] = 0 /\ depth[u] <= limit
    BY <1>1 DEF Within, Walking
  <2>4. 0 \in T
    <3> SUFFICES ASSUME NEW v \in DOMAIN depth, depth[v] = 0
                 PROVE  v \in At(linksFrom, direction, 0)
      OBVIOUS
    <3>1. v = Start
      BY <2>1, <2>2
    <3>2. QED
      BY <3>1, AtStart
  <2>5. ASSUME NEW d \in Nat, d \in T PROVE d + 1 \in T
    <3> SUFFICES ASSUME NEW v \in DOMAIN depth, depth[v] = d + 1
                 PROVE  v \in At(linksFrom, direction, d + 1)
      OBVIOUS
    <3>1. PICK w \in DOMAIN depth :
              depth[w] + 1 = depth[v] /\ v \in Hops(linksFrom, w, direction)
      BY <2>2, <2>3
    <3>2. depth[w] = d
      BY <2>1, <3>1
    <3>3. w \in At(linksFrom, direction, d)
      BY <2>5, <3>2
    <3>4. QED
      BY <2>1, <3>1, <3>3, AtNext
  <2> HIDE DEF T
  <2>6. depth[u] \in T
    BY <2>1, <2>4, <2>5, Counting
  <2>7. u \in At(linksFrom, direction, depth[u])
    BY <2>6 DEF T
  <2>8. QED
    BY <2>1, <2>3, <2>7, QueryFinds
<1>2. QED
  BY <1>1, TypeCorrect, StaysWithin, WalkedIsLinked, PTL

-----------------------------------------------------------------------------
(* The neighbourhood *)

\* The URLs that at most i links lead to, and those that no less than i do.
Seen(links, dir, i) == {u \in Urls : \E d \in 0..i : u \in At(links, dir, d)}
New(links, dir, i) == {u \in At(links, dir, i) : \A d \in 0..i - 1 : u \notin At(links, dir, d)}

\* t is the level after each of its k hops.
Hopping(t, links, k, dir, seeds) ==
    /\ t[0] = [visited |-> seeds, last |-> seeds]
    /\ \A i \in 1..k : t[i] = LevelAfter(links, dir, t[i - 1])

LEMMA LevelsGrow ==
    ASSUME NEW links, links \subseteq Links, NEW k \in Nat, NEW dir
    PROVE  \E t : /\ Hopping(t, links, k, dir, {Start} \cap Nodes(links))
                  /\ Neighborhood(links, k, dir) = t[k].visited \ {Start}
<1> DEFINE seeds == {Start} \cap Nodes(links)
           x == [visited |-> seeds, last |-> seeds]
           L(level) == LevelAfter(links, dir, level)
           Rec(t) == t = [i \in 0..k |-> IF i = 0 THEN x ELSE L(t[i - 1])]
<1>1. \E t : Rec(t)
  <2> DEFINE R == [visited : SUBSET Urls, last : SUBSET Urls]
             f == [level \in R |-> L(level)]
  <2>1. f \in [R -> R]
    <3>1. ASSUME NEW level \in R PROVE L(level) \in R
      <4>1. UNION {Hops(links, u, dir) : u \in level.last} \subseteq Urls
        BY HopsType
      <4>2. QED
        BY <4>1 DEF LevelAfter
    <3> HIDE DEF L, R
    <3>2. QED
      BY <3>1
  <2>2. x \in R
    BY GraphWalksAssumption DEF GraphWalksAssumption
  <2> HIDE DEF f, L, R, x
  <2>3. PICK t \in [0..k -> R] : Run(t, f, x, k)
    BY <2>1, <2>2, Iterates
  <2>4. ASSUME NEW i \in 0..k PROVE t[i] = IF i = 0 THEN x ELSE L(t[i - 1])
    <3>1. CASE i = 0
      BY <2>3, <3>1 DEF Run
    <3>2. CASE i # 0
      <4>1. i \in 1..k /\ i - 1 \in 0..k /\ t[i - 1] \in R
        BY <3>2
      <4>2. QED
        BY <2>3, <3>2, <4>1 DEF f, Run
    <3>3. QED
      BY <3>1, <3>2
  <2>5. t = [i \in 0..k |-> t[i]]
    OBVIOUS
  <2>6. QED
    BY <2>4, <2>5
<1>2. PICK t : t = (CHOOSE s : Rec(s)) /\ Rec(t)
  BY <1>1
<1>3. Neighborhood(links, k, dir) = t[k].visited \ {Start}
  BY <1>2 DEF Neighborhood
<1>4. ASSUME NEW i \in 0..k PROVE t[i] = IF i = 0 THEN x ELSE L(t[i - 1])
  <2>1. Rec(t)
    BY <1>2
  <2> HIDE DEF L, x
  <2>2. QED
    BY ONLY <2>1, Zenon
<1> HIDE DEF L, x
<1>5. t[0] = x
  <2>1. 0 \in 0..k
    OBVIOUS
  <2>2. QED
    BY ONLY <1>4, <2>1, Zenon
<1>6. ASSUME NEW i \in 1..k PROVE t[i] = L(t[i - 1])
  <2>1. i \in 0..k /\ i # 0
    OBVIOUS
  <2>2. QED
    BY ONLY <1>4, <2>1, Zenon
<1>7. QED
  BY <1>3, <1>5, <1>6 DEF L, x, Hopping

LEMMA SeenNext ==
    ASSUME NEW links, links \subseteq Links, NEW dir, NEW i \in Nat
    PROVE  Seen(links, dir, i + 1) = Seen(links, dir, i) \cup New(links, dir, i + 1)
<1>1. At(links, dir, i + 1) \subseteq Urls
  BY DEF At
<1>2. \A d : d \in 0..i + 1 <=> d \in 0..i \/ d = i + 1
  OBVIOUS
<1>3. (i + 1) - 1 = i
  OBVIOUS
<1>4. QED
  BY <1>1, <1>2, <1>3 DEF Seen, New

\* A URL that is new was led to by one that was.
LEMMA NewNext ==
    ASSUME NEW links, links \subseteq Links, NEW dir, NEW i \in Nat
    PROVE  New(links, dir, i + 1)
               = (UNION {Hops(links, w, dir) : w \in New(links, dir, i)}) \ Seen(links, dir, i)
<1>1. (i + 1) - 1 = i
  OBVIOUS
<1>2. ASSUME NEW u \in New(links, dir, i + 1)
      PROVE  u \notin Seen(links, dir, i) /\ \E w \in New(links, dir, i) : u \in Hops(links, w, dir)
  <2>1. u \in At(links, dir, i + 1) /\ \A d \in 0..i : u \notin At(links, dir, d)
    BY <1>1 DEF New
  <2>2. PICK w \in At(links, dir, i) : u \in Hops(links, w, dir)
    BY <2>1, AtNext
  <2>3. ASSUME NEW d \in 0..i - 1, w \in At(links, dir, d) PROVE FALSE
    <3>1. d \in Nat /\ d + 1 \in 0..i
      OBVIOUS
    <3>2. u \in At(links, dir, d + 1)
      BY <2>2, <2>3, <3>1, AtNext
    <3>3. QED
      BY <2>1, <3>1, <3>2
  <2>4. QED
    BY <2>1, <2>2, <2>3 DEF New, Seen
<1>3. ASSUME NEW w \in New(links, dir, i), NEW u \in Hops(links, w, dir),
             u \notin Seen(links, dir, i)
      PROVE  u \in New(links, dir, i + 1)
  <2>1. u \in At(links, dir, i + 1)
    BY AtNext DEF New
  <2>2. u \in Urls
    BY HopsType
  <2>3. QED
    BY <1>1, <1>3, <2>1, <2>2 DEF New, Seen
<1>4. QED
  BY <1>2, <1>3

\* The neighbourhood of dep_graph is what the database query finds, without the seed,
\* for any graph and any number of hops, and also where links lead back to the seed or
\* the seed has no node.
THEOREM NeighborhoodIsQuery ==
    ASSUME NEW links, links \subseteq Links, NEW k \in Nat, NEW dir
    PROVE  Neighborhood(links, k, dir) = {r[1] : r \in Query(links, k, dir)} \ {Start}
<1> DEFINE Found == {r[1] : r \in Query(links, k, dir)}
<1>1. Found = Seen(links, dir, k)
  <2>1. ASSUME NEW r \in Query(links, k, dir) PROVE r[1] \in Seen(links, dir, k)
    BY QueryRow DEF Seen
  <2>2. ASSUME NEW u \in Seen(links, dir, k) PROVE \E r \in Query(links, k, dir) : r[1] = u
    <3>1. PICK d \in 0..k : u \in At(links, dir, d)
      BY DEF Seen
    <3>2. d \in Nat /\ d <= k
      OBVIOUS
    <3>3. QED
      BY <3>1, <3>2, QueryFinds
  <2>3. QED
    BY <2>1, <2>2
<1>2. PICK t : /\ Hopping(t, links, k, dir, {Start} \cap Nodes(links))
               /\ Neighborhood(links, k, dir) = t[k].visited \ {Start}
  BY LevelsGrow
<1>3. CASE Start \in Nodes(links)
  <2> DEFINE T == {i \in Nat : i <= k => t[i] = [visited |-> Seen(links, dir, i),
                                                 last |-> New(links, dir, i)]}
  <2>1. 0 \in T
    <3>1. Seen(links, dir, 0) = {Start} /\ New(links, dir, 0) = {Start}
      BY AtStart, GraphWalksAssumption DEF Seen, New, GraphWalksAssumption
    <3>2. {Start} \cap Nodes(links) = {Start}
      BY <1>3
    <3>3. QED
      BY <1>2, <3>1, <3>2 DEF Hopping
  <2>2. ASSUME NEW i \in Nat, i \in T PROVE i + 1 \in T
    <3> SUFFICES ASSUME i + 1 <= k
                 PROVE  t[i + 1] = [visited |-> Seen(links, dir, i + 1),
                                    last |-> New(links, dir, i + 1)]
      OBVIOUS
    <3>1. t[i] = [visited |-> Seen(links, dir, i), last |-> New(links, dir, i)]
      BY <2>2
    <3>2. i + 1 \in 1..k /\ (i + 1) - 1 = i
      OBVIOUS
    <3>3. t[i + 1] = LevelAfter(links, dir, t[i])
      BY <1>2, <3>2 DEF Hopping
    <3>4. New(links, dir, i + 1)
              = (UNION {Hops(links, w, dir) : w \in New(links, dir, i)}) \ Seen(links, dir, i)
      BY NewNext
    <3>5. LevelAfter(links, dir, t[i])
              = [visited |-> Seen(links, dir, i) \cup New(links, dir, i + 1),
                 last |-> New(links, dir, i + 1)]
      <4> DEFINE a == Seen(links, dir, i)
                 l == New(links, dir, i)
                 n == New(links, dir, i + 1)
      <4> HIDE DEF a, l, n
      <4>1. t[i].visited = a /\ t[i].last = l
        BY <3>1 DEF a, l
      <4>2. n = (UNION {Hops(links, w, dir) : w \in l}) \ a
        BY <3>4 DEF a, l, n
      <4>3. LevelAfter(links, dir, t[i]) = [visited |-> a \cup n, last |-> n]
        BY <4>1, <4>2, Zenon DEF LevelAfter
      <4>4. QED
        BY <4>3 DEF a, n
    <3>6. QED
      BY <3>3, <3>5, SeenNext
  <2> HIDE DEF T
  <2>3. k \in T
    BY <2>1, <2>2, Counting
  <2>4. t[k].visited = Seen(links, dir, k)
    BY <2>3 DEF T
  <2>5. QED
    BY <1>1, <1>2, <2>4
<1>4. CASE Start \notin Nodes(links)
  <2> DEFINE nothing == [visited |-> {}, last |-> {}]
             T == {i \in Nat : /\ i <= k => t[i] = nothing
                               /\ Seen(links, dir, i) = {Start} /\ New(links, dir, i + 1) = {}}
  <2>1. Seen(links, dir, 0) = {Start} /\ New(links, dir, 0) = {Start}
    BY AtStart, GraphWalksAssumption DEF Seen, New, GraphWalksAssumption
  <2>2. Hops(links, Start, dir) = {}
    BY <1>4 DEF Hops, LinksFrom, LinksTo, Nodes
  <2>3. 0 \in T
    <3>1. New(links, dir, 0 + 1) = {}
      <4>1. New(links, dir, 0 + 1)
                = (UNION {Hops(links, w, dir) : w \in New(links, dir, 0)}) \ Seen(links, dir, 0)
        BY NewNext
      <4>2. \A w \in New(links, dir, 0) : Hops(links, w, dir) = {}
        BY <2>1, <2>2
      <4>3. QED
        BY <4>1, <4>2
    <3>2. {Start} \cap Nodes(links) = {}
      BY <1>4
    <3>3. QED
      BY <1>2, <2>1, <3>1, <3>2 DEF Hopping
  <2>4. ASSUME NEW i \in Nat, i \in T PROVE i + 1 \in T
    <3>1. Seen(links, dir, i + 1) = {Start}
      BY <2>4, SeenNext
    <3>2. New(links, dir, (i + 1) + 1) = {}
      <4> DEFINE j == i + 1
      <4>1. New(links, dir, j) = {} /\ j \in Nat
        BY <2>4
      <4> HIDE DEF j
      <4>2. New(links, dir, j + 1)
                = (UNION {Hops(links, w, dir) : w \in New(links, dir, j)}) \ Seen(links, dir, j)
        BY <4>1, NewNext
      <4>3. New(links, dir, j + 1) = {}
        BY <4>1, <4>2
      <4>4. QED
        BY <4>3 DEF j
    <3>3. ASSUME i + 1 <= k PROVE t[i + 1] = nothing
      <4>1. i + 1 \in 1..k /\ (i + 1) - 1 = i /\ t[i] = nothing
        BY <2>4, <3>3
      <4>2. t[i + 1] = LevelAfter(links, dir, t[i])
        BY <1>2, <4>1 DEF Hopping
      <4>3. QED
        BY <4>1, <4>2 DEF LevelAfter
    <3>4. QED
      BY <3>1, <3>2, <3>3
  <2> HIDE DEF T
  <2>5. k \in T
    BY <2>3, <2>4, Counting
  <2>6. t[k].visited = {} /\ Seen(links, dir, k) = {Start}
    BY <2>5 DEF T
  <2>7. QED
    BY <1>1, <1>2, <2>6
<1>5. QED
  BY <1>3, <1>4

\* When a walk is over the two neighbourhoods agree.
THEOREM NeighborhoodsAgree == Spec => []NeighborhoodAgrees
<1>1. TypeOK => NeighborhoodAgrees
  BY NeighborhoodIsQuery DEF TypeOK, NeighborhoodAgrees
<1>2. QED
  BY <1>1, TypeCorrect, PTL

-----------------------------------------------------------------------------
(* Paths *)

\* Every distance short of that of a URL is the distance of another, so that no distance
\* is as large as the number of URLs.
LEMMA DistanceShort ==
    ASSUME NEW links, links \subseteq Links, NEW dir, NEW d \in Nat, New(links, dir, d) # {}
    PROVE  d < Cardinality(Urls)
<1> DEFINE T == {j \in Nat : j <= d => New(links, dir, d - j) # {}}
<1>1. 0 \in T
  OBVIOUS
<1>2. ASSUME NEW j \in Nat, j \in T PROVE j + 1 \in T
  <2> SUFFICES ASSUME j + 1 <= d PROVE New(links, dir, d - (j + 1)) # {}
    OBVIOUS
  <2> DEFINE i == d - (j + 1)
  <2>1. i \in Nat /\ i + 1 = d - j /\ New(links, dir, d - j) # {}
    BY <1>2
  <2> HIDE DEF i
  <2>2. New(links, dir, i + 1)
            = (UNION {Hops(links, w, dir) : w \in New(links, dir, i)}) \ Seen(links, dir, i)
    BY <2>1, NewNext
  <2>3. New(links, dir, i) # {}
    BY <2>1, <2>2
  <2>4. QED
    BY <2>3 DEF i
<1> HIDE DEF T
<1>3. \A j \in Nat : j \in T
  BY <1>1, <1>2, Counting
<1>4. ASSUME NEW i \in 0..d PROVE New(links, dir, i) # {}
  <2>1. d - i \in Nat /\ d - i <= d /\ d - (d - i) = i
    OBVIOUS
  <2>2. d - i \in T
    BY <1>3, <2>1
  <2>3. QED
    BY <2>1, <2>2 DEF T
<1> DEFINE f == [i \in 0..d |-> CHOOSE u \in New(links, dir, i) : TRUE]
<1>5. ASSUME NEW i \in 0..d PROVE f[i] \in New(links, dir, i)
  BY <1>4
<1>6. f \in [0..d -> Urls]
  <2>1. ASSUME NEW i \in 0..d PROVE f[i] \in Urls
    BY <1>5 DEF New, At
  <2>2. QED
    BY <2>1
<1> HIDE DEF f
<1>7. ASSUME NEW i \in 0..d, NEW j \in 0..d, i < j PROVE f[i] # f[j]
  <2>1. i \in 0..j - 1 /\ f[i] \in At(links, dir, i)
    BY <1>5, <1>7 DEF New
  <2>2. f[j] \notin At(links, dir, i)
    BY <1>5, <2>1 DEF New
  <2>3. QED
    BY <2>1, <2>2
<1>8. IsFiniteSet(Urls) /\ Cardinality(Urls) \in Nat
  BY FS_CardinalityType, GraphWalksAssumption DEF GraphWalksAssumption
<1>9. IsFiniteSet(0..d) /\ Cardinality(0..d) = d + 1
  BY FS_Interval
<1>10. ASSUME Cardinality(Urls) < Cardinality(0..d) PROVE FALSE
  <2>1. PICK i \in 0..d, j \in 0..d : i # j /\ f[i] = f[j]
    BY <1>6, <1>8, <1>9, <1>10, FS_PigeonHole
  <2>2. i < j \/ j < i
    BY <2>1
  <2>3. QED
    BY <1>7, <2>1, <2>2
<1>11. QED
  BY <1>8, <1>9, <1>10

\* What Distances holds for a URL, and for which.
LEMMA DistanceLeast ==
    ASSUME NEW links, links \subseteq Links, NEW u \in DOMAIN Distances(links)
    PROVE  /\ Distances(links)[u] \in Nat /\ u \in Urls
           /\ u \in At(links, "outbound", Distances(links)[u])
           /\ \A d \in Nat : u \in At(links, "outbound", d) => Distances(links)[u] <= d
<1> DEFINE rows == Query(links, Cardinality(Urls), "outbound")
<1>1. Cardinality(Urls) \in Nat
  BY FS_CardinalityType, GraphWalksAssumption DEF GraphWalksAssumption
<1>2. ASSUME NEW r \in rows
      PROVE  /\ r[2] \in Nat /\ r[1] \in Urls /\ r[1] \in At(links, "outbound", r[2])
             /\ \A d \in Nat : r[1] \in At(links, "outbound", d) => r[2] <= d
  BY <1>1, QueryRow
<1> HIDE DEF rows
<1>3. Distances(links) = [v \in {r[1] : r \in rows} |-> (CHOOSE r \in rows : r[1] = v)[2]]
  BY DEF Distances, rows
<1>4. \E r \in rows : r[1] = u
  BY <1>3
<1>5. PICK r \in rows : r[1] = u /\ Distances(links)[u] = r[2]
  BY <1>3, <1>4
<1>6. QED
  BY <1>2, <1>5

LEMMA DistanceKnown ==
    ASSUME NEW links, links \subseteq Links, NEW d \in Nat, NEW u \in At(links, "outbound", d)
    PROVE  u \in DOMAIN Distances(links)
<1> DEFINE D == {c \in Nat : u \in At(links, "outbound", c)}
<1>1. PICK c \in D : \A b \in D : c <= b
  BY LeastNumber
<1>2. c \in Nat /\ u \in At(links, "outbound", c)
  BY <1>1
<1>3. ASSUME NEW b \in 0..c - 1 PROVE u \notin At(links, "outbound", b)
  BY <1>1, <1>2
<1>4. u \in New(links, "outbound", c)
  BY <1>2, <1>3 DEF New
<1>5. c < Cardinality(Urls) /\ Cardinality(Urls) \in Nat
  BY <1>2, <1>4, DistanceShort, FS_CardinalityType, GraphWalksAssumption DEF GraphWalksAssumption
<1>6. \E r \in Query(links, Cardinality(Urls), "outbound") : r[1] = u
  BY <1>2, <1>5, QueryFinds
<1>7. QED
  BY <1>6 DEF Distances

\* Going back from the goal: every link taken is one nearer to the start.
PathInv ==
    /\ phase \in {"path", "found"} =>
           /\ scored \subseteq DOMAIN Distances(before)
           /\ path # <<>> /\ path[Len(path)] = goal
           /\ \A i \in 1..Len(path) - 1 : <<path[i], path[i + 1]>> \in before
           /\ {goal, Head(path)} \subseteq DOMAIN Distances(before)
           /\ Distances(before)[Head(path)] + (Len(path) - 1) = Distances(before)[goal]
    /\ phase = "found" => Head(path) = Start

LEMMA BeginPathKept ==
    ASSUME TypeOK, NEW g \in Urls, BeginPath(g)
    PROVE  PathInv'
<1>1. CASE phase' = "path"
  <2> DEFINE dist == Distances(linksFrom)
  <2>1. linksFrom \subseteq Links /\ before' = linksFrom /\ goal' = g
    BY DEF TypeOK, BeginPath
  <2>2. g \in DOMAIN dist /\ path' = <<g>>
    BY <1>1 DEF BeginPath
  <2>3. PICK ties \in SUBSET {u \in DOMAIN dist \ {g} : dist[u] = dist[g]} :
            scored' = {Start, g} \cup UNION {Hops(linksFrom, u, "outbound") :
                                 u \in ties \cup {v \in DOMAIN dist : dist[v] < dist[g]}}
    BY <1>1 DEF BeginPath
  <2> HIDE DEF dist
  <2>4. Start \in DOMAIN dist
    BY <2>1, AtStart, DistanceKnown DEF dist
  <2>5. ASSUME NEW u \in DOMAIN dist, NEW v \in Hops(linksFrom, u, "outbound")
        PROVE  v \in DOMAIN dist
    <3>1. dist[u] \in Nat /\ u \in At(linksFrom, "outbound", dist[u])
      BY <2>1, DistanceLeast DEF dist
    <3>2. v \in At(linksFrom, "outbound", dist[u] + 1)
      BY <2>1, <3>1, AtNext
    <3>3. QED
      BY <2>1, <3>1, <3>2, DistanceKnown DEF dist
  <2>6. scored' \subseteq DOMAIN dist
    BY <2>2, <2>3, <2>4, <2>5
  <2>7. dist[g] \in Nat
    BY <2>1, <2>2, DistanceLeast DEF dist
  <2>8. /\ path' # <<>> /\ Len(path') = 1 /\ path'[1] = g /\ Head(path') = g
    BY <2>2
  <2>9. dist[Head(path')] + (Len(path') - 1) = dist[g]
    BY <2>7, <2>8
  <2>10. \A i \in 1..Len(path') - 1 : FALSE
    BY <2>8
  <2>11. dist = Distances(before')
    BY <2>1 DEF dist
  <2> HIDE DEF dist
  <2>12. QED
    BY <1>1, <2>1, <2>2, <2>6, <2>8, <2>9, <2>10, <2>11 DEF PathInv
<1>2. CASE phase' # "path"
  BY <1>2 DEF BeginPath, PathInv
<1>3. QED
  BY <1>1, <1>2

LEMMA StepBackKept ==
    ASSUME TypeOK, PathInv, NEW u \in Urls, StepBack(u)
    PROVE  PathInv'
<1> DEFINE dist == Distances(before)
<1>1. /\ phase = "path" /\ <<u, Head(path)>> \in before /\ u \in scored
      /\ dist[u] + 1 = dist[Head(path)]
      /\ path' = <<u>> \o path
      /\ UNCHANGED <<phase, before, goal, scored>>
  BY DEF StepBack
<1>2. before \subseteq Links /\ path \in Seq(Urls) /\ path # <<>>
  BY <1>1 DEF TypeOK, PathInv
<1>3. /\ scored \subseteq DOMAIN dist /\ path[Len(path)] = goal
      /\ \A i \in 1..Len(path) - 1 : <<path[i], path[i + 1]>> \in before
      /\ {goal, Head(path)} \subseteq DOMAIN dist
      /\ dist[Head(path)] + (Len(path) - 1) = dist[goal]
  BY <1>1 DEF PathInv
<1>4. dist[u] \in Nat
  BY <1>1, <1>2, <1>3, DistanceLeast
<1>5. dist = Distances(before')
  BY <1>1
<1> HIDE DEF dist
<1>6. Len(path) \in Nat \ {0} /\ Head(path) = path[1]
  BY <1>2
<1>7. /\ path' # <<>> /\ Len(path') = Len(path) + 1 /\ Head(path') = u /\ path'[1] = u
      /\ \A i \in 1..Len(path) : path'[i + 1] = path[i]
  BY <1>1, <1>2
<1>8. path'[Len(path')] = goal
  BY <1>3, <1>6, <1>7
<1>9. ASSUME NEW i \in 1..Len(path') - 1 PROVE <<path'[i], path'[i + 1]>> \in before
  <2>1. CASE i = 1
    <3>1. path'[i] = u /\ path'[i + 1] = Head(path)
      BY <1>6, <1>7, <2>1
    <3>2. QED
      BY <1>1, <3>1
  <2>2. CASE i # 1
    <3>1. i - 1 \in 1..Len(path) - 1 /\ i - 1 \in 1..Len(path) /\ i \in 1..Len(path)
          /\ (i - 1) + 1 = i
      BY <1>6, <1>7, <2>2
    <3>2. path'[i] = path[i - 1] /\ path'[i + 1] = path[i]
      BY <1>7, <3>1
    <3>3. <<path[i - 1], path[i]>> \in before
      BY <1>3, <3>1
    <3>4. QED
      BY <3>2, <3>3
  <2>3. QED
    BY <2>1, <2>2
<1>10. dist[Head(path')] + (Len(path') - 1) = dist[goal]
  BY <1>1, <1>3, <1>4, <1>6, <1>7
<1>11. {goal, Head(path')} \subseteq DOMAIN dist
  BY <1>1, <1>3, <1>7
<1>12. QED
  BY <1>1, <1>3, <1>5, <1>7, <1>8, <1>9, <1>10, <1>11 DEF PathInv

LEMMA PathKept ==
    ASSUME TypeOK, PathInv, [Next]_vars
    PROVE  PathInv'
<1>1. ASSUME UNCHANGED <<phase, before, goal, scored, path>> PROVE PathInv'
  BY <1>1 DEF PathInv
<1>2. CASE \E e \in Links : RecordFrom(e) \/ RecordTo(e)
  BY <1>1, <1>2 DEF RecordFrom, RecordTo, pathVars
<1>3. CASE \E m \in 0..MaxDepth, dir \in Directions : BeginWalk(m, dir)
  BY <1>3 DEF BeginWalk, PathInv
<1>4. CASE (\E u \in Urls : Expand(u) \/ ReadFrom(u) \/ ExpandBoth(u)) \/ NextLevel
  <2>1. phase' \in {"walk", "walked"}
    BY <1>4 DEF Expand, ReadFrom, ExpandBoth, NextLevel, Visit
  <2>2. QED
    BY <2>1 DEF PathInv
<1>5. CASE \E u \in Urls : BeginPath(u) \/ StepBack(u)
  BY <1>5, BeginPathKept, StepBackKept
<1>6. CASE \E u \in Urls : StepPanics(u)
  BY <1>6 DEF StepPanics, PathInv
<1>7. CASE EndPath
  BY <1>7 DEF EndPath, PathInv, pathVars
<1>8. CASE UNCHANGED vars
  BY <1>1, <1>8 DEF vars, pathVars
<1>9. QED
  BY <1>2, <1>3, <1>4, <1>5, <1>6, <1>7, <1>8 DEF Next

\* A path that dep_graph returns leads over links from the start to the goal, and no way
\* over the links is shorter, for any graph: each step back takes a link that is one
\* nearer to the start, and the number of steps is the distance of the goal.
THEOREM PathsAreShortest == Spec => []PathIsShortest
<1>1. Init => PathInv
  BY DEF Init, PathInv
<1>2. ASSUME TypeOK, PathInv PROVE PathIsShortest
  <2> SUFFICES ASSUME phase = "found"
               PROVE  /\ Head(path) = Start /\ path[Len(path)] = goal
                      /\ \A i \in 1..Len(path) - 1 : <<path[i], path[i + 1]>> \in before
                      /\ <<goal, Len(path) - 1>> \in Query(before, Len(path), "outbound")
    BY DEF PathIsShortest
  <2> DEFINE dist == Distances(before)
  <2>1. /\ path # <<>> /\ path[Len(path)] = goal /\ Head(path) = Start
        /\ \A i \in 1..Len(path) - 1 : <<path[i], path[i + 1]>> \in before
        /\ goal \in DOMAIN dist /\ Start \in DOMAIN dist
        /\ dist[Start] + (Len(path) - 1) = dist[goal]
    BY <1>2 DEF PathInv
  <2>2. before \subseteq Links /\ Len(path) \in Nat \ {0}
    <3>1. path \in Seq(Urls) /\ path # <<>>
      BY <1>2, <2>1 DEF TypeOK
    <3>2. Len(path) \in Nat \ {0}
      BY <3>1
    <3>3. QED
      BY <1>2, <3>2 DEF TypeOK
  <2>3. dist[Start] = 0
    <3>1. Start \in At(before, "outbound", 0)
      BY AtStart
    <3>2. dist[Start] \in Nat /\ dist[Start] <= 0
      BY <2>1, <2>2, <3>1, DistanceLeast
    <3> HIDE DEF dist
    <3>3. QED
      BY <3>2
  <2>4. /\ dist[goal] \in Nat /\ goal \in Urls /\ goal \in At(before, "outbound", dist[goal])
        /\ \A d \in Nat : goal \in At(before, "outbound", d) => dist[goal] <= d
    BY <2>1, <2>2, DistanceLeast
  <2> HIDE DEF dist
  <2>5. dist[goal] = Len(path) - 1 /\ Len(path) - 1 <= Len(path)
    BY <2>1, <2>2, <2>3, <2>4
  <2> DEFINE r == <<goal, Len(path) - 1>>
  <2>6. r \in Urls \X Nat /\ r[1] = goal /\ r[2] = dist[goal] /\ r[2] <= Len(path)
    BY <2>2, <2>4, <2>5
  <2> HIDE DEF r
  <2>7. r \in Query(before, Len(path), "outbound")
    <3> DEFINE n == Len(path)
    <3>1. /\ n \in Nat /\ r[2] <= n /\ r[1] \in At(before, "outbound", r[2])
          /\ \A d \in Nat : r[1] \in At(before, "outbound", d) => r[2] <= d
      BY <2>2, <2>4, <2>6
    <3>2. before \subseteq Links /\ r \in Urls \X Nat
      BY <2>2, <2>6
    <3> HIDE DEF n
    <3>3. r \in Query(before, n, "outbound")
      BY <3>1, <3>2, QueryIsLeast
    <3>4. QED
      BY <3>3 DEF n
  <2>8. QED
    BY <2>1, <2>7 DEF r
<1>3. QED
  BY <1>1, <1>2, PathKept, TypeCorrect, PTL DEF Spec
=============================================================================
