----------------------------- MODULE MCLiveSearch -----------------------------
(* A site's homepage, its guide under two URLs, and a page of another site. *)
EXTENDS SeedDiscovery

CONSTANTS ddg, bing, hn, home, guide, guideUtm, other, root, docs

MCBefore == [u \in Urls |->
    CASE u = home -> 1 [] u = guide -> 2 [] u = guideUtm -> 3 [] OTHER -> 0]
MCCanon == [u \in Urls |-> IF u = guideUtm THEN guide ELSE u]
MCHost == [u \in Urls |-> IF u = other THEN other ELSE home]
MCSection == [u \in Urls |-> IF u = home THEN root ELSE docs]
MCMatches == [u \in Urls |-> CASE u = home -> 0 [] u = other -> 1 [] OTHER -> 2]

MCLists == {<<>>, <<home>>, <<other, guide, guideUtm>>}
MCStoreLists == {<<guide, home>>, <<guide, guideUtm, other>>, <<guideUtm, guide, other>>}
MCCatalogs == {{}, {[url |-> home, relevance |-> 950], [url |-> home, relevance |-> 750]}}
MCIndexes == {{}, {[url |-> other, relevance |-> 100], [url |-> guideUtm, relevance |-> 300],
                   [url |-> guideUtm, relevance |-> 560], [url |-> home, relevance |-> 600]}}
MCGraphs == {{}, {[url |-> guide, relevance |-> 700], [url |-> guideUtm, relevance |-> 580]}}
MCSelections == {{}, {ddg}, {ddg, bing, hn}}
=============================================================================
