--------------------------- MODULE CachedCrawlProofs ---------------------------
(***************************************************************************)
(* What the URL cache may be trusted with, for any site, any number of     *)
(* runs, and any crashes and failed writes between them.                   *)
(***************************************************************************)
EXTENDS CachedCrawl, TLAPS

\* What a phase has left behind it is empty.
Shape ==
    /\ phase \notin {"receive", "index"} => batch = <<>>
    /\ phase \notin {"persist", "rewrite"} => todo = <<>>
    /\ phase # "rewrite" => unwritten = {}

\* A key has one entry in the file.
FileInv ==
    /\ \A e, f \in file : e.key = f.key => e = f
    /\ phase = "rewrite" => file \subseteq cache

TypeInv == TypeOK /\ Shape /\ FileInv

\* What is still to be remembered was indexed today.
TodoIndexed ==
    \A p \in ItemsOf(todo) :
        \E i \in indexed : i.key = Key(p) /\ i.body = p.body /\ i.day = day

IndexedInv == CachedWasIndexed /\ TodoIndexed

\* The entries that outlive this run if it ends as it should.
Kept == IF phase = "idle" THEN file ELSE cache \cap (file \cup unwritten)

\* An indexed page is remembered, about to be remembered, or lost.
Remembered ==
    \A i \in indexed :
        \/ i.key \in lost
        \/ \E p \in ItemsOf(todo) : Key(p) = i.key
        \/ \E e \in Kept : e.key = i.key /\ e.day >= i.day

Past == \A i \in indexed : i.run <= run /\ i.day <= day

BatchDue ==
    SkipCached /\ Policy = "fixed" =>
        \A p \in ItemsOf(batch) : \A e \in cache : e.key = Key(p) => day - e.day > Days

RefetchInv == Past /\ Remembered /\ BatchDue /\ NoEarlyRefetch

-----------------------------------------------------------------------------
(* Sequences *)

LEMMA NoItems == ItemsOf(<<>>) = {}
BY DEF ItemsOf

LEMMA ItemsIn ==
    ASSUME NEW S, NEW s \in Seq(S)
    PROVE  ItemsOf(s) \subseteq S
BY DEF ItemsOf

LEMMA ItemsAppend ==
    ASSUME NEW S, NEW s \in Seq(S), NEW x \in S
    PROVE  Append(s, x) \in Seq(S) /\ ItemsOf(Append(s, x)) = ItemsOf(s) \cup {x}
<1>1. /\ Append(s, x) \in Seq(S) /\ Len(Append(s, x)) = Len(s) + 1 /\ Len(s) \in Nat
      /\ \A i \in 1..Len(s) : Append(s, x)[i] = s[i]
      /\ Append(s, x)[Len(s) + 1] = x
  OBVIOUS
<1>2. \A i \in 1..(Len(s) + 1) : i \in 1..Len(s) \/ i = Len(s) + 1
  BY <1>1
<1>3. Len(s) + 1 \in 1..(Len(s) + 1) /\ 1..Len(s) \subseteq 1..(Len(s) + 1)
  BY <1>1
<1>4. QED
  BY <1>1, <1>2, <1>3 DEF ItemsOf

LEMMA ItemsTail ==
    ASSUME NEW S, NEW s \in Seq(S), s # <<>>
    PROVE  /\ Head(s) \in S /\ Tail(s) \in Seq(S)
           /\ ItemsOf(s) = {Head(s)} \cup ItemsOf(Tail(s))
<1>1. /\ Tail(s) \in Seq(S) /\ Len(s) \in Nat \ {0} /\ Len(Tail(s)) = Len(s) - 1
      /\ \A i \in 1..(Len(s) - 1) : Tail(s)[i] = s[i + 1]
      /\ Head(s) = s[1] /\ Head(s) \in S
  OBVIOUS
<1>2. ItemsOf(s) \subseteq {Head(s)} \cup ItemsOf(Tail(s))
  <2> SUFFICES ASSUME NEW i \in 1..Len(s)
               PROVE  s[i] \in {Head(s)} \cup ItemsOf(Tail(s))
    BY DEF ItemsOf
  <2>1. CASE i = 1
    BY <1>1, <2>1
  <2>2. CASE i # 1
    <3>1. i - 1 \in 1..(Len(s) - 1) /\ Tail(s)[i - 1] = s[i]
      BY <1>1, <2>2
    <3>2. QED
      BY <1>1, <3>1 DEF ItemsOf
  <2>3. QED
    BY <2>1, <2>2
<1>3. ItemsOf(Tail(s)) \subseteq ItemsOf(s)
  <2> SUFFICES ASSUME NEW i \in 1..(Len(s) - 1) PROVE Tail(s)[i] \in ItemsOf(s)
    BY <1>1 DEF ItemsOf
  <2>1. i + 1 \in 1..Len(s) /\ Tail(s)[i] = s[i + 1]
    BY <1>1
  <2>2. QED
    BY <2>1 DEF ItemsOf
<1>4. Head(s) \in ItemsOf(s)
  BY <1>1 DEF ItemsOf
<1>5. QED
  BY <1>1, <1>2, <1>3, <1>4

-----------------------------------------------------------------------------
(* Types *)

LEMMA KeyType == ASSUME NEW p \in Pages PROVE Key(p) \in Keys /\ p.body \in Bodies
BY CachedCrawlAssumption DEF CachedCrawlAssumption, Key, Pages

LEMMA InitType == Init => TypeInv
<1> SUFFICES ASSUME Init PROVE TypeInv
  OBVIOUS
<1>1. <<>> \in Seq(Pages)
  OBVIOUS
<1>2. TypeOK
  BY <1>1 DEF Init, TypeOK
<1>3. Shape /\ FileInv
  BY DEF Init, Shape, FileInv
<1>4. QED
  BY <1>2, <1>3 DEF TypeInv

\* The entry of a page in place of what the cache had for its key.
LEMMA RememberTypes ==
    ASSUME TypeInv, NEW p \in Pages, Remember(p)
    PROVE  /\ todo' \in Seq(Pages) /\ phase = "persist"
           /\ cache' \subseteq Entries
           /\ \A e, f \in cache' : e.key = f.key => e = f
           /\ ItemsOf(todo) = {p} \cup ItemsOf(todo')
<1>1. /\ todo # <<>> /\ p = Head(todo) /\ todo' = Tail(todo) /\ todo \in Seq(Pages)
      /\ cache' = {e \in cache : e.key # Key(p)} \cup {Entry(p)} /\ phase = "persist"
  BY DEF Remember, TypeInv, TypeOK
<1>2. Entry(p) \in Entries /\ Entry(p).key = Key(p)
  BY KeyType DEF Entry, Entries, TypeInv, TypeOK
<1>3. cache' \subseteq Entries
  BY <1>1, <1>2 DEF TypeInv, TypeOK
<1>4. \A e, f \in cache' : e.key = f.key => e = f
  <2>1. \A e, f \in cache : e.key = f.key => e = f
    BY DEF TypeInv, TypeOK
  <2>2. \A e \in cache' : e.key = Key(p) => e = Entry(p)
    BY <1>1
  <2>3. \A e \in cache' : e.key # Key(p) => e \in cache
    BY <1>1, <1>2
  <2>4. QED
    BY <2>1, <2>2, <2>3
<1>5. todo' \in Seq(Pages) /\ ItemsOf(todo) = {p} \cup ItemsOf(todo')
  BY <1>1, ItemsTail
<1>6. QED
  BY <1>1, <1>3, <1>4, <1>5

LEMMA TypeKept ==
    ASSUME TypeInv, [Next]_vars
    PROVE  TypeInv'
<1> USE DEF spiderVars, cacheVars, history, clock
<1>1. CASE Tick
  BY <1>1 DEF Tick, TypeInv, TypeOK, Shape, FileInv
<1>0. <<>> \in Seq(Pages)
  OBVIOUS
<1>2. CASE Open
  <2>1. TypeOK'
    <3>1. /\ phase' = "receive" /\ final' = FALSE /\ unsent' = Urls /\ spider' = TRUE
          /\ channel' = <<>> /\ lagged' = FALSE /\ cache' = file /\ run' = run + 1
          /\ UNCHANGED <<batch, todo, unwritten, file, torn, indexed, lost, day, crashes>>
      BY <1>2 DEF Open
    <3>2. unwritten' \subseteq cache' /\ channel' \in Seq(Pages)
      BY <1>0, <1>2, <3>1 DEF Open, TypeInv, Shape
    <3>3. \A e, f \in cache' : e.key = f.key => e = f
      BY <3>1 DEF TypeInv, FileInv
    <3>4. cache' \subseteq Entries /\ run' \in Nat
      BY <3>1 DEF TypeInv, TypeOK
    <3>5. QED
      BY <3>1, <3>2, <3>3, <3>4 DEF TypeInv, TypeOK
  <2>2. Shape'
    <3>1. phase = "idle" /\ phase' = "receive" /\ todo' = todo /\ unwritten' = unwritten
      BY <1>2 DEF Open
    <3>2. todo = <<>> /\ unwritten = {}
      BY <3>1 DEF TypeInv, Shape
    <3>3. QED
      BY <3>1, <3>2 DEF Shape
  <2>3. FileInv'
    BY <1>2 DEF Open, TypeInv, FileInv
  <2>4. QED
    BY <2>1, <2>2, <2>3 DEF TypeInv
<1>3. ASSUME NEW u \in Urls, NEW b \in Bodies, Publish(u, b) PROVE TypeInv'
  <2> DEFINE p == [url |-> u, body |-> b]
             full == Len(channel) = Capacity
  <2>1. p \in Pages /\ channel \in Seq(Pages) /\ Capacity \in Nat \ {0}
    BY CachedCrawlAssumption DEF Pages, TypeInv, TypeOK, CachedCrawlAssumption
  <2>2. (IF full THEN Tail(channel) ELSE channel) \in Seq(Pages)
    <3>1. full => channel # <<>>
      BY <2>1
    <3>2. QED
      BY <2>1, <3>1
  <2>3. channel' \in Seq(Pages)
    BY <1>3, <2>1, <2>2 DEF Publish
  <2>4. QED
    BY <1>3, <2>3 DEF Publish, TypeInv, TypeOK, Shape, FileInv
<1>4. CASE SpiderEnds
  BY <1>4 DEF SpiderEnds, TypeInv, TypeOK, Shape, FileInv
<1>5. ASSUME NEW p \in Pages, Receive(p) PROVE channel' \in Seq(Pages)
  BY <1>5 DEF Receive, TypeInv, TypeOK
<1>6. ASSUME NEW p \in Pages, Skip(p) PROVE TypeInv'
  BY <1>5, <1>6 DEF Skip, Receive, TypeInv, TypeOK, Shape, FileInv
<1>7. ASSUME NEW p \in Pages, Keep(p) PROVE TypeInv'
  <2>1. batch' \in Seq(Pages)
    BY <1>7 DEF Keep, TypeInv, TypeOK
  <2>2. QED
    BY <1>5, <1>7, <2>1 DEF Keep, Receive, TypeInv, TypeOK, Shape, FileInv
<1>8. CASE LeaveLoop
  BY <1>8 DEF LeaveLoop, TypeInv, TypeOK, Shape, FileInv
<1>9. CASE Index
  <2>1. \A p \in ItemsOf(batch) : p \in Pages
    BY ItemsIn DEF TypeInv, TypeOK
  <2>2. indexed' \subseteq [key : Keys, body : Bodies, day : Nat, run : Nat]
    BY <1>9, <2>1, KeyType DEF Index, TypeInv, TypeOK
  <2>3. QED
    BY <1>9, <2>2 DEF Index, TypeInv, TypeOK, Shape, FileInv
<1>10. CASE IndexFails
  BY <1>10 DEF IndexFails, AfterBatch, TypeInv, TypeOK, Shape, FileInv
<1>11. ASSUME NEW p \in Pages, Truncate(p) PROVE TypeInv'
  <2>1. Remember(p) /\ phase' = "rewrite" /\ file' = {} /\ torn' = FALSE
        /\ unwritten' = cache' /\ lost' = lost
    BY <1>11 DEF Truncate, Rewrite
  <2>2. QED
    BY <2>1, RememberTypes DEF Remember, TypeInv, TypeOK, Shape, FileInv
<1>12. ASSUME NEW p \in Pages, TruncateFails(p) PROVE TypeInv'
  <2>1. Remember(p) /\ lost' = lost \cup {e.key : e \in cache' \ file}
        /\ UNCHANGED <<phase, unwritten, file, torn>>
    BY <1>12 DEF TruncateFails
  <2>2. lost' \subseteq Keys
    BY <2>1, RememberTypes DEF TypeInv, TypeOK, Entries
  <2>3. QED
    BY <2>1, <2>2, RememberTypes DEF Remember, TypeInv, TypeOK, Shape, FileInv
<1>13. ASSUME NEW e \in unwritten, WriteLine(e) PROVE TypeInv'
  BY <1>13 DEF WriteLine, TypeInv, TypeOK, Shape, FileInv
<1>14. CASE WriteFails
  <2>1. lost' \subseteq Keys
    BY <1>14 DEF WriteFails, TypeInv, TypeOK, Entries
  <2>2. QED
    BY <1>14, <2>1 DEF WriteFails, TypeInv, TypeOK, Shape, FileInv
<1>15. CASE Written
  BY <1>15 DEF Written, TypeInv, TypeOK, Shape, FileInv
<1>16. CASE Persisted
  BY <1>16 DEF Persisted, AfterBatch, TypeInv, TypeOK, Shape, FileInv
<1>17. CASE Join
  BY <1>17 DEF Join, TypeInv, TypeOK, Shape, FileInv
<1>18. CASE Crash
  <2>1. \A p \in ItemsOf(todo) : Key(p) \in Keys
    BY ItemsIn, KeyType DEF TypeInv, TypeOK
  <2>2. lost' \subseteq Keys
    BY <1>18, <2>1 DEF Crash, TypeInv, TypeOK, Entries
  <2>3. TypeOK'
    <3>1. /\ phase' = "idle" /\ final' = FALSE /\ unsent' = {} /\ spider' = FALSE
          /\ channel' = <<>> /\ lagged' = FALSE /\ batch' = <<>> /\ todo' = <<>>
          /\ unwritten' = {} /\ cache' = {} /\ crashes' = crashes + 1
          /\ UNCHANGED <<file, torn, indexed, day, run>>
      BY <1>18 DEF Crash
    <3>2. /\ file \subseteq Entries /\ torn \in BOOLEAN /\ crashes + 1 \in Nat
          /\ indexed \subseteq [key : Keys, body : Bodies, day : Nat, run : Nat]
          /\ day \in Nat /\ run \in Nat
      BY DEF TypeInv, TypeOK
    <3>3. QED
      BY <1>0, <2>2, <3>1, <3>2 DEF TypeOK
  <2>4. Shape'
    <3>1. batch' = <<>> /\ todo' = <<>> /\ unwritten' = {}
      BY <1>18 DEF Crash
    <3>2. QED
      BY <3>1 DEF Shape
  <2>5. FileInv'
    BY <1>18 DEF Crash, TypeInv, FileInv
  <2>6. QED
    BY <2>3, <2>4, <2>5 DEF TypeInv
<1>19. CASE UNCHANGED vars
  BY <1>19 DEF vars, TypeInv, TypeOK, Shape, FileInv
<1>20. QED
  BY <1>1, <1>2, <1>3, <1>4, <1>6, <1>7, <1>8, <1>9, <1>10, <1>11, <1>12, <1>13, <1>14, <1>15,
     <1>16, <1>17, <1>18, <1>19 DEF Next, Spider, Loop, Flush

LEMMA Types == Spec => []TypeInv
BY InitType, TypeKept, PTL DEF Spec

\* The types hold of every state.
THEOREM TypeCorrect == Spec => []TypeOK
BY Types, PTL DEF TypeInv
-----------------------------------------------------------------------------
(* What is remembered was indexed *)

LEMMA InitIndexed == Init => IndexedInv
BY NoItems DEF Init, IndexedInv, CachedWasIndexed, TodoIndexed

\* A page to remember yields an entry that was indexed today.
LEMMA RememberIndexed ==
    ASSUME TypeInv, IndexedInv, NEW p \in Pages, Remember(p)
    PROVE  /\ \A e \in cache' :
                  \E i \in indexed : i.key = e.key /\ i.body = e.body /\ i.day = e.day
           /\ TodoIndexed'
<1>1. /\ ItemsOf(todo) = {p} \cup ItemsOf(todo')
      /\ cache' = {e \in cache : e.key # Key(p)} \cup {Entry(p)}
      /\ indexed' = indexed /\ day' = day
  BY RememberTypes DEF Remember, clock
<1>2. \E i \in indexed : i.key = Entry(p).key /\ i.body = Entry(p).body /\ i.day = Entry(p).day
  BY <1>1 DEF IndexedInv, TodoIndexed, Entry
<1>3. TodoIndexed'
  BY <1>1 DEF IndexedInv, TodoIndexed
<1>4. \A e \in cache' : e \in cache \/ e = Entry(p)
  BY <1>1
<1>5. QED
  BY <1>2, <1>3, <1>4 DEF IndexedInv, CachedWasIndexed

LEMMA IndexedKept ==
    ASSUME TypeInv, IndexedInv, [Next]_vars
    PROVE  IndexedInv'
<1> USE DEF spiderVars, cacheVars, history, clock
<1>1. ASSUME cache' \cup file' \subseteq cache \cup file, indexed' = indexed
      PROVE  CachedWasIndexed'
  BY <1>1 DEF IndexedInv, CachedWasIndexed
<1>2. ASSUME todo' = todo, indexed' = indexed, day' = day
      PROVE  TodoIndexed'
  BY <1>2 DEF IndexedInv, TodoIndexed
<1>3. ASSUME todo' = <<>> PROVE TodoIndexed'
  BY <1>3, NoItems DEF TodoIndexed
<1>4. CASE Tick
  <2>1. todo' = <<>> /\ UNCHANGED <<cache, file, indexed>>
    BY <1>4 DEF Tick, TypeInv, Shape
  <2>2. QED
    BY <1>1, <1>3, <2>1 DEF IndexedInv
<1>5. CASE Open
  BY <1>1, <1>2, <1>5 DEF Open, IndexedInv
<1>6. CASE Spider
  BY <1>1, <1>2, <1>6 DEF Spider, SpiderEnds, Publish, IndexedInv
<1>7. CASE Loop
  BY <1>1, <1>2, <1>7 DEF Loop, LeaveLoop, Skip, Keep, Receive, IndexedInv
<1>8. CASE Index
  <2>1. /\ indexed' = indexed \cup {[key |-> Key(p), body |-> p.body, day |-> day, run |-> run] :
                                      p \in ItemsOf(batch)}
        /\ todo' = batch /\ UNCHANGED <<cache, file, day>>
    BY <1>8 DEF Index
  <2>2. \A p \in ItemsOf(batch) :
            \E i \in indexed' : i.key = Key(p) /\ i.body = p.body /\ i.day = day
    <3> TAKE p \in ItemsOf(batch)
    <3> DEFINE i == [key |-> Key(p), body |-> p.body, day |-> day, run |-> run]
    <3>1. i \in indexed' /\ i.key = Key(p) /\ i.body = p.body /\ i.day = day
      BY <2>1
    <3>2. QED
      BY <3>1
  <2>3. TodoIndexed'
    BY <2>1, <2>2 DEF TodoIndexed
  <2>4. CachedWasIndexed'
    BY <2>1 DEF IndexedInv, CachedWasIndexed
  <2>5. QED
    BY <2>3, <2>4 DEF IndexedInv
<1>9. CASE IndexFails \/ Written \/ Persisted \/ WriteFails
  BY <1>1, <1>2, <1>9 DEF IndexFails, Written, Persisted, WriteFails, IndexedInv
<1>10. ASSUME NEW p \in Pages, Truncate(p) PROVE IndexedInv'
  <2>1. Remember(p) /\ file' = {} /\ indexed' = indexed
    BY <1>10 DEF Truncate, Rewrite, Remember
  <2>2. QED
    BY <2>1, RememberIndexed DEF IndexedInv, CachedWasIndexed
<1>11. ASSUME NEW p \in Pages, TruncateFails(p) PROVE IndexedInv'
  <2>1. Remember(p) /\ file' = file /\ indexed' = indexed
    BY <1>11 DEF TruncateFails, Remember
  <2>2. QED
    BY <2>1, RememberIndexed DEF IndexedInv, CachedWasIndexed
<1>12. ASSUME NEW e \in unwritten, WriteLine(e) PROVE IndexedInv'
  <2>1. /\ file' = file \cup {e} /\ e \in cache
        /\ UNCHANGED <<cache, todo, indexed, day>>
    BY <1>12 DEF WriteLine, TypeInv, TypeOK
  <2>2. QED
    BY <1>1, <1>2, <2>1 DEF IndexedInv
<1>13. CASE Join
  BY <1>1, <1>2, <1>13 DEF Join, IndexedInv
<1>14. CASE Crash
  BY <1>1, <1>3, <1>14 DEF Crash, IndexedInv
<1>15. CASE UNCHANGED vars
  BY <1>1, <1>2, <1>15 DEF vars, IndexedInv
<1>16. QED
  BY <1>4, <1>5, <1>6, <1>7, <1>8, <1>9, <1>10, <1>11, <1>12, <1>13, <1>14, <1>15
     DEF Next, Flush

\* The cache, in memory and in the file, remembers only pages that were indexed.
THEOREM CacheRemembersIndexed == Spec => []CachedWasIndexed
<1>1. Init => TypeInv /\ IndexedInv
  BY InitType, InitIndexed
<1>2. TypeInv /\ IndexedInv /\ [Next]_vars => (TypeInv /\ IndexedInv)'
  BY TypeKept, IndexedKept
<1>3. IndexedInv => CachedWasIndexed
  BY DEF IndexedInv
<1>4. QED
  BY <1>1, <1>2, <1>3, PTL DEF Spec

-----------------------------------------------------------------------------
(* Nothing that is remembered is fetched early *)

LEMMA InitRefetch == Init => RefetchInv
BY NoItems DEF Init, RefetchInv, Past, Remembered, BatchDue, NoEarlyRefetch

LEMMA EntryTypes ==
    ASSUME TypeInv
    PROVE  /\ \A e \in cache \cup file : e \in Entries /\ e.key \in Keys /\ e.day \in Nat
           /\ \A i \in indexed : i.key \in Keys /\ i.day \in Nat /\ i.run \in Nat
           /\ day \in Nat /\ run \in Nat /\ unwritten \subseteq cache
<1>1. /\ cache \cup file \subseteq Entries
      /\ indexed \subseteq [key : Keys, body : Bodies, day : Nat, run : Nat]
      /\ day \in Nat /\ run \in Nat /\ unwritten \subseteq cache
  BY DEF TypeInv, TypeOK
<1>2. QED
  BY <1>1 DEF Entries

\* What a step may do with the pages to be remembered and the entries kept: drop
\* one only if it is lost or an entry of today takes its place.
LEMMA StillRemembered ==
    ASSUME TypeInv, TypeInv', Past, Remembered,
           indexed' = indexed, lost \subseteq lost',
           \A p \in ItemsOf(todo) :
               \/ Key(p) \in lost'
               \/ p \in ItemsOf(todo')
               \/ \E e \in Kept' : e.key = Key(p) /\ e.day >= day,
           \A e \in Kept : \/ e.key \in lost'
                           \/ e \in Kept'
                           \/ \E f \in Kept' : f.key = e.key /\ f.day >= day
    PROVE  Remembered'
<1>2. \A e \in Kept' : e.day \in Nat
  <2>1. \A e \in cache' \cup file' : e \in Entries
    BY DEF TypeInv, TypeOK
  <2>2. \A e \in Kept' : e \in Entries
    BY <2>1 DEF Kept
  <2>3. QED
    BY <2>2 DEF Entries
<1>3. SUFFICES ASSUME NEW i \in indexed
               PROVE  \/ i.key \in lost'
                      \/ \E p \in ItemsOf(todo') : Key(p) = i.key
                      \/ \E e \in Kept' : e.key = i.key /\ e.day >= i.day
  BY DEF Remembered
<1>4. i.day \in Nat /\ day \in Nat /\ i.day <= day
  BY EntryTypes DEF Past
<1>5. CASE i.key \in lost
  BY <1>5
<1>6. CASE \E p \in ItemsOf(todo) : Key(p) = i.key
  <2>1. PICK p \in ItemsOf(todo) : Key(p) = i.key
    BY <1>6
  <2>2. CASE \E e \in Kept' : e.key = Key(p) /\ e.day >= day
    BY <1>2, <1>4, <2>1, <2>2
  <2>3. QED
    BY <2>1, <2>2
<1>7. CASE \E e \in Kept : e.key = i.key /\ e.day >= i.day
  <2>1. PICK e \in Kept : e.key = i.key /\ e.day >= i.day
    BY <1>7
  <2>2. CASE \E f \in Kept' : f.key = e.key /\ f.day >= day
    BY <1>2, <1>4, <2>1, <2>2
  <2>3. QED
    BY <2>1, <2>2
<1>8. QED
  BY <1>5, <1>6, <1>7 DEF Remembered

\* The usual case: what is kept and what is to be remembered stay.
LEMMA RememberedStays ==
    ASSUME TypeInv, TypeInv', Past, Remembered,
           indexed' = indexed, lost' = lost, todo' = todo, Kept \subseteq Kept'
    PROVE  Remembered'
BY StillRemembered

\* Inserting a page's entry: the entry, and all those of other keys, are in the cache.
LEMMA RememberKeeps ==
    ASSUME TypeInv, NEW p \in Pages, Remember(p)
    PROVE  /\ \A q \in ItemsOf(todo) : q = p \/ q \in ItemsOf(todo')
           /\ \A e \in cache : e.key # Key(p) => e \in cache'
           /\ Entry(p) \in cache' /\ Entry(p).key = Key(p) /\ Entry(p).day = day
           /\ unwritten = {} /\ phase = "persist"
BY RememberTypes DEF Remember, Entry, TypeInv, Shape

\* The step on what is remembered.
LEMMA RememberedKept ==
    ASSUME TypeInv, TypeInv', Past, Remembered, [Next]_vars
    PROVE  Remembered'
<1> USE DEF spiderVars, cacheVars, history, clock
<1>1. CASE Tick \/ Open
  BY <1>1, RememberedStays DEF Tick, Open, Kept
<1>2. CASE Spider
  <2>1. UNCHANGED <<phase, todo, unwritten, cache, file, indexed, lost>>
    BY <1>2 DEF Spider, SpiderEnds, Publish
  <2>2. QED
    BY <2>1, RememberedStays DEF Kept
<1>3. CASE Loop
  <2>1. /\ phase # "idle" /\ phase' # "idle"
        /\ UNCHANGED <<todo, unwritten, cache, file, indexed, lost>>
    BY <1>3 DEF Loop, LeaveLoop, Skip, Keep, Receive
  <2>2. QED
    BY <2>1, RememberedStays DEF Kept
<1>4. CASE Index
  <2>1. /\ indexed' = indexed \cup {[key |-> Key(p), body |-> p.body, day |-> day, run |-> run] :
                                      p \in ItemsOf(batch)}
        /\ todo' = batch /\ phase = "index" /\ phase' = "persist"
        /\ UNCHANGED <<unwritten, cache, file, lost>>
    BY <1>4 DEF Index
  <2>2. todo = <<>> /\ Kept' = Kept
    BY <2>1 DEF TypeInv, Shape, Kept
  <2>3. \A i \in indexed : i.key \in lost \/ \E e \in Kept : e.key = i.key /\ e.day >= i.day
    BY <2>2, NoItems DEF Remembered
  <2>4. \A i \in indexed' : i \in indexed \/ \E p \in ItemsOf(todo') : Key(p) = i.key
    BY <2>1
  <2>5. QED
    BY <2>1, <2>2, <2>3, <2>4 DEF Remembered
<1>5. CASE IndexFails \/ Written \/ Persisted
  <2>1. /\ phase # "idle" /\ phase' # "idle"
        /\ UNCHANGED <<todo, unwritten, cache, file, indexed, lost>>
    BY <1>5 DEF IndexFails, Written, Persisted, AfterBatch
  <2>2. QED
    BY <2>1, RememberedStays DEF Kept
<1>6. ASSUME NEW p \in Pages, Truncate(p) PROVE Remembered'
  <2>1. /\ Remember(p) /\ phase' = "rewrite" /\ unwritten' = cache' /\ lost' = lost
        /\ indexed' = indexed
    BY <1>6 DEF Truncate, Rewrite, Remember
  <2>2. Kept' = cache' /\ Kept \subseteq cache
    BY <2>1, RememberKeeps DEF Kept
  <2>3. day \in Nat /\ day >= day
    BY EntryTypes
  <2>4. QED
    BY <2>1, <2>2, <2>3, RememberKeeps, StillRemembered
<1>7. ASSUME NEW p \in Pages, TruncateFails(p) PROVE Remembered'
  <2>1. /\ Remember(p) /\ UNCHANGED <<phase, unwritten, file, indexed>>
        /\ lost' = lost \cup {e.key : e \in cache' \ file}
    BY <1>7 DEF TruncateFails, Remember
  <2>2. Kept' = cache' \cap file /\ Kept = cache \cap file
    BY <2>1, RememberKeeps DEF Kept
  <2>3. day \in Nat /\ day >= day
    BY EntryTypes
  <2>4. Key(p) \in lost' \/ Entry(p) \in Kept'
    BY <2>1, <2>2, RememberKeeps
  <2>5. \A q \in ItemsOf(todo) :
            \/ Key(q) \in lost'
            \/ q \in ItemsOf(todo')
            \/ \E e \in Kept' : e.key = Key(q) /\ e.day >= day
    BY <2>1, <2>3, <2>4, RememberKeeps
  <2>6. \A e \in Kept : \/ e.key \in lost'
                        \/ e \in Kept'
                        \/ \E f \in Kept' : f.key = e.key /\ f.day >= day
    BY <2>1, <2>2, <2>3, <2>4, RememberKeeps
  <2>7. QED
    BY <2>1, <2>5, <2>6, StillRemembered
<1>8. ASSUME NEW e \in unwritten, WriteLine(e) PROVE Remembered'
  <2>1. /\ phase = "rewrite" /\ file' = file \cup {e} /\ unwritten' = unwritten \ {e}
        /\ UNCHANGED <<phase, todo, cache, indexed, lost>>
    BY <1>8 DEF WriteLine
  <2>2. QED
    BY <2>1, RememberedStays DEF Kept
<1>9. CASE WriteFails
  <2>1. /\ phase = "rewrite" /\ phase' = "persist" /\ unwritten' = {}
        /\ lost' = lost \cup {e.key : e \in unwritten}
        /\ UNCHANGED <<todo, cache, file, indexed>>
    BY <1>9 DEF WriteFails
  <2>2. \A e \in Kept : e.key \in lost' \/ e \in Kept'
    BY <2>1 DEF Kept
  <2>3. QED
    BY <2>1, <2>2, StillRemembered
<1>10. CASE Join
  <2>1. /\ phase = "join" /\ phase' = "idle"
        /\ UNCHANGED <<todo, unwritten, file, indexed, lost>>
    BY <1>10 DEF Join
  <2>2. Kept \subseteq Kept'
    BY <2>1 DEF Kept, TypeInv, Shape
  <2>3. QED
    BY <2>1, <2>2, RememberedStays
<1>11. CASE Crash
  <2>1. /\ phase # "idle" /\ phase' = "idle" /\ UNCHANGED <<file, indexed>>
        /\ lost' = lost \cup {e.key : e \in unwritten} \cup {Key(p) : p \in ItemsOf(todo)}
    BY <1>11 DEF Crash
  <2>2. \A e \in Kept : e.key \in lost' \/ e \in Kept'
    BY <2>1 DEF Kept
  <2>3. QED
    BY <2>1, <2>2, StillRemembered
<1>12. CASE UNCHANGED vars
  BY <1>12, RememberedStays DEF vars, Kept
<1>13. QED
  BY <1>1, <1>2, <1>3, <1>4, <1>5, <1>6, <1>7, <1>8, <1>9, <1>10, <1>11, <1>12 DEF Next, Flush

LEMMA PastKept ==
    ASSUME TypeInv, Past, [Next]_vars
    PROVE  Past'
<1> USE DEF spiderVars, cacheVars, history, clock
<1>1. \A i \in indexed : i.run \in Nat /\ i.day \in Nat
  BY EntryTypes
<1>2. run \in Nat /\ day \in Nat
  BY EntryTypes
<1>3. CASE Index
  <2>1. /\ indexed' = indexed \cup {[key |-> Key(p), body |-> p.body, day |-> day, run |-> run] :
                                      p \in ItemsOf(batch)}
        /\ UNCHANGED <<run, day>>
    BY <1>3 DEF Index
  <2>2. \A i \in indexed' : i \in indexed \/ (i.run = run /\ i.day = day)
    BY <2>1
  <2>3. QED
    BY <1>2, <2>1, <2>2 DEF Past
<1>4. CASE ~Index
  <2>1. /\ indexed' = indexed
        /\ run' = run \/ run' = run + 1
        /\ day' = day \/ day' = day + 1
    BY <1>4 DEF Next, Tick, Open, Spider, SpiderEnds, Publish, Loop, LeaveLoop, Skip, Keep,
       Receive, Flush, IndexFails, WriteFails, Written, Persisted, Truncate, TruncateFails,
       Rewrite, Remember, WriteLine, Join, Crash, vars
  <2>2. QED
    BY <1>1, <1>2, <2>1 DEF Past
<1>5. QED
  BY <1>3, <1>4

\* The pages of a batch are due as the cache stands, and it stands until they are indexed.
LEMMA BatchDueKept ==
    ASSUME TypeInv, TypeInv', BatchDue, [Next]_vars
    PROVE  BatchDue'
<1> USE DEF spiderVars, cacheVars, history, clock
<1>1. ASSUME batch' = <<>> PROVE BatchDue'
  BY <1>1, NoItems DEF BatchDue
<1>2. ASSUME UNCHANGED <<batch, cache, day>> PROVE BatchDue'
  BY <1>2 DEF BatchDue
<1>3. CASE Tick \/ Open \/ Join \/ Crash \/ Index \/ IndexFails
  <2>1. batch' = <<>>
    BY <1>3 DEF Tick, Open, Join, Crash, Index, IndexFails, TypeInv, Shape
  <2>2. QED
    BY <1>1, <2>1
<1>4. CASE Spider \/ LeaveLoop \/ WriteFails \/ Written \/ Persisted \/ UNCHANGED vars
  BY <1>2, <1>4 DEF Spider, SpiderEnds, Publish, LeaveLoop, WriteFails, Written, Persisted, vars
<1>5. ASSUME NEW p \in Pages, Skip(p) PROVE BatchDue'
  BY <1>2, <1>5 DEF Skip, Receive
<1>6. ASSUME NEW p \in Pages, Keep(p) PROVE BatchDue'
  <2>1. /\ batch' = Append(batch, p) /\ Wanted(p) /\ UNCHANGED <<cache, day>>
        /\ batch \in Seq(Pages)
    BY <1>6 DEF Keep, Receive, TypeInv, TypeOK
  <2>2. ItemsOf(batch') = ItemsOf(batch) \cup {p}
    BY <2>1, ItemsAppend
  <2>3. SkipCached /\ Policy = "fixed" => \A e \in cache : e.key = Key(p) => day - e.day > Days
    BY <2>1 DEF Wanted, Due, ShouldFetch
  <2>4. QED
    BY <2>1, <2>2, <2>3 DEF BatchDue
<1>7. ASSUME NEW p \in Pages, Remember(p) PROVE BatchDue'
  <2>1. batch = <<>> /\ batch' = batch
    BY <1>7 DEF Remember, TypeInv, Shape
  <2>2. QED
    BY <1>1, <2>1
<1>8. ASSUME NEW e \in unwritten, WriteLine(e) PROVE BatchDue'
  BY <1>2, <1>8 DEF WriteLine
<1>9. QED
  BY <1>3, <1>4, <1>5, <1>6, <1>7, <1>8 DEF Next, Loop, Flush, Truncate, TruncateFails, Rewrite

LEMMA EarlyKept ==
    ASSUME TypeInv, RefetchInv, [Next]_vars
    PROVE  NoEarlyRefetch'
<1> USE DEF spiderVars, cacheVars, history, clock
<1>1. lost \subseteq lost'
  BY DEF Next, Tick, Open, Spider, SpiderEnds, Publish, Loop, LeaveLoop, Skip, Keep,
     Receive, Flush, Index, IndexFails, WriteFails, Written, Persisted, Truncate,
     TruncateFails, Rewrite, Remember, WriteLine, Join, Crash, vars
<1>2. CASE ~Index
  <2>1. indexed' = indexed
    BY <1>2 DEF Next, Tick, Open, Spider, SpiderEnds, Publish, Loop, LeaveLoop, Skip, Keep,
       Receive, Flush, IndexFails, WriteFails, Written, Persisted, Truncate, TruncateFails,
       Rewrite, Remember, WriteLine, Join, Crash, vars
  <2>2. QED
    BY <1>1, <2>1 DEF RefetchInv, NoEarlyRefetch
<1>3. CASE Index
  <2>1. /\ indexed' = indexed \cup {[key |-> Key(p), body |-> p.body, day |-> day, run |-> run] :
                                      p \in ItemsOf(batch)}
        /\ phase = "index" /\ lost' = lost
    BY <1>3 DEF Index
  <2>2. /\ todo = <<>> /\ Kept \subseteq cache
        /\ day \in Nat /\ run \in Nat /\ Days \in Nat
        /\ \A e \in cache : e.day \in Nat
        /\ \A i \in indexed : i.day \in Nat /\ i.run \in Nat /\ i.run <= run /\ i.day <= day
    BY <2>1, EntryTypes, CachedCrawlAssumption
       DEF TypeInv, Shape, Kept, RefetchInv, Past, CachedCrawlAssumption
  <2>3. SUFFICES ASSUME SkipCached, Policy = "fixed", NEW i \in indexed', NEW j \in indexed',
                        i.key = j.key, i.run < j.run, j.day - i.day <= Days
                 PROVE  i.key \in lost
    BY <2>1 DEF NoEarlyRefetch
  <2>4. CASE j \in indexed
    <3>1. i \in indexed
      BY <2>1, <2>2, <2>3, <2>4
    <3>2. QED
      BY <2>3, <2>4, <3>1 DEF RefetchInv, NoEarlyRefetch
  <2>5. CASE j \notin indexed
    <3>1. PICK p \in ItemsOf(batch) :
              j = [key |-> Key(p), body |-> p.body, day |-> day, run |-> run]
      BY <2>1, <2>5
    <3>2. i \in indexed
      <4>1. j.run = run
        BY <3>1
      <4>2. i.run # run
        BY <2>2, <2>3, <4>1
      <4>3. QED
        BY <2>1, <4>2
    <3>3. \A e \in cache : e.key = i.key => day - e.day > Days
      BY <2>3, <3>1 DEF RefetchInv, BatchDue
    <3>4. ASSUME NEW e \in Kept, e.key = i.key, e.day >= i.day PROVE FALSE
      <4>1. e \in cache /\ e.day \in Nat /\ day - e.day > Days
        BY <2>2, <3>3, <3>4
      <4>2. i.day \in Nat /\ day - i.day <= Days
        BY <2>2, <2>3, <3>1, <3>2
      <4>3. QED
        BY <2>2, <3>4, <4>1, <4>2
    <3>5. QED
      BY <2>2, <3>2, <3>4, NoItems DEF RefetchInv, Remembered
  <2>6. QED
    BY <2>4, <2>5
<1>4. QED
  BY <1>2, <1>3

\* Under --skip-cached no page is indexed again within its interval, unless its entry
\* was lost to a crash or a failed write.
THEOREM IndexedPagesRest == Spec => []NoEarlyRefetch
<1>1. Init => TypeInv /\ RefetchInv
  BY InitType, InitRefetch
<1>2. TypeInv /\ RefetchInv /\ [Next]_vars => (TypeInv /\ RefetchInv)'
  BY TypeKept, PastKept, RememberedKept, BatchDueKept, EarlyKept DEF RefetchInv
<1>3. RefetchInv => NoEarlyRefetch
  BY DEF RefetchInv
<1>4. QED
  BY <1>1, <1>2, <1>3, PTL DEF Spec
=============================================================================
