------------------------------ MODULE MCGraphWalks ------------------------------
(* Three URLs, one of them not recorded as a page. *)
EXTENDS GraphWalks, TLC

CONSTANTS home, about, news, old
=============================================================================
