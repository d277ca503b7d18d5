--------------------------- MODULE MCPersistWorker ---------------------------
(* A small instance of PersistWorker: four spawned calls for three URLs, one *)
(* URL fetched twice, one thin body, and one text served under two URLs.     *)
EXTENDS PersistWorker, TLC

CONSTANTS c1, c2, c3, c4, u1, u2, u3, b1, b2, thin

MCUrlOf == c1 :> u1 @@ c2 :> u2 @@ c3 :> u1 @@ c4 :> u3
MCBodyOf == c1 :> b1 @@ c2 :> b1 @@ c3 :> b2 @@ c4 :> thin
MCFirstSeen == u1 :> 1 @@ u2 :> 2 @@ u3 :> 3
\* Everything may fail for one URL, and for the others its embedding or its marks.
MCFaults == u1 :> {"embed", "novectors"} @@ u2 :> FaultKinds @@ u3 :> {"mark"}
=============================================================================
