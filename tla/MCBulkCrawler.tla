---------------------------- MODULE MCBulkCrawler ----------------------------
(* A site of two pages, one of them under two spellings, and a site of one   *)
(* page, in many shapes, and requests that crawl them from their home pages, *)
(* the first of them twice.                                                  *)
EXTENDS BulkCrawler, TLC

CONSTANTS a, b, a0, a1, a1x, b0

MCDomainOf == a0 :> a @@ a1 :> a @@ a1x :> a @@ b0 :> b
MCNormal == a0 :> a0 @@ a1 :> a1 @@ a1x :> a1 @@ b0 :> b0
MCPathDepth == a0 :> 0 @@ a1 :> 2 @@ a1x :> 2 @@ b0 :> 1
MCRel == a0 :> 2 @@ a1 :> 4 @@ a1x :> 4 @@ b0 :> 10
MCGraphs ==
    {a0 :> n[1] @@ a1 :> n[2] @@ a1x :> "absent" @@ b0 :> n[3] :
        n \in {<<"absent", "absent", "absent">>, <<"crawled", "absent", "known">>,
               <<"absent", "crawled", "absent">>, <<"known", "absent", "crawled">>}}
MCSeeds == <<a0, b0, a0>>

Web(l0, l1, lands1, smA, llmsB, noA, ext, off) ==
    [links |-> a0 :> l0 @@ a1 :> l1 @@ a1x :> {a0} @@ b0 :> {a1},
     lands |-> a0 :> a @@ a1 :> lands1 @@ a1x :> a @@ b0 :> b,
     sitemap |-> a :> smA @@ b :> {},
     llms |-> a :> {} @@ b :> llmsB,
     forbids |-> a :> noA @@ b :> {},
     down |-> off, follow |-> ext]

\* Sites that map their own hosts and redirect nowhere.
OwnWebs ==
    {Web(ls[1], ls[2], a, smA, site[1], noA, ext, site[2]) :
        ls \in {<<{a1}, {}>>, <<{a1x, b0}, {a0, a1x}>>},
        smA \in {{}, {a0}, {a0, a1}}, site \in {<<{b0}, {}>>, <<{}, {b}>>},
        noA \in {{}, {a1}}, ext \in BOOLEAN}

\* Sites of which one lists a page of the other, or redirects a page there.
CrossWebs ==
    {Web({a1}, {a0, b0}, lands1, smA, llmsB, {}, FALSE, {}) :
        lands1 \in {a, b}, smA \in {{a0}, {a0, b0}, {a0, a1, b0}},
        llmsB \in {{b0}, {a1}}}

AllWebs == OwnWebs \cup CrossWebs
=============================================================================
