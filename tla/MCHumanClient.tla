---------------------------- MODULE MCHumanClient -----------------------------
(* Two proxies of one host and one of another; an address of each range.      *)
EXTENDS HumanClient, TLC

CONSTANTS t1, t2, p1, p2, p3, here, there, d1, d2, a1, a2, r1, r2

MCPools == {[list |-> <<p1, p3>>, generated |-> TRUE],
            [list |-> <<p1, p2, p3>>, generated |-> FALSE]}
MCHost == p1 :> here @@ p2 :> here @@ p3 :> there
MCHash == d1 :> 0 @@ d2 :> 1
MCIspOf == a1 :> r1 @@ a2 :> r2
MCSymmetry == Permutations({t1, t2})
=============================================================================
