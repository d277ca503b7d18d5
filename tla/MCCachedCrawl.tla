---------------------------- MODULE MCCachedCrawl ----------------------------
(* A site whose spider finds one page under two spellings, and another page. *)
EXTENDS CachedCrawl, TLC

CONSTANTS home, homeSlash, about, k1, k2, old, new, bad

MCKeyOf == home :> k1 @@ homeSlash :> k1 @@ about :> k2
MCSimilar == {<<old, old>>, <<new, new>>}
=============================================================================
