--------------------------- MODULE MCPageLifecycle ---------------------------
(* Two instances.  A site of a home page and another with the same text, with *)
(* a research request, the daemon and a live search that finds the home page. *)
(* And a site whose page links to a page of another site, which its map may   *)
(* list too, with the daemon.                                                 *)
EXTENDS PageLifecycle, TLC

CONSTANTS home, other, away, site, elsewhere, body, body2, request, daemon, search

MCHostOf == home :> site @@ other :> site
MCLinksOf == home :> {other} @@ other :> {}
MCTextOf == home :> body @@ other :> body
MCMaps == {home :> {home}}

MCHostOfCross == home :> site @@ away :> elsewhere
MCLinksCross == home :> {away} @@ away :> {}
MCTextCross == home :> body @@ away :> body2
MCMapsCross == {home :> {}, home :> {away}}
=============================================================================
