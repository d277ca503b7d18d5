--------------------------- MODULE MCDomainSessions ---------------------------
(* A site that asks for three seconds between requests, and one that asks for nothing. *)
EXTENDS DomainSessions, TLC

CONSTANTS slow, fast, mac, phone

MCCrawlDelay == slow :> 3 @@ fast :> 0
=============================================================================
