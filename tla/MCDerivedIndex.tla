--------------------------- MODULE MCDerivedIndex ---------------------------
(* Two pages, one of which links the other, or one that links itself. *)
EXTENDS DerivedIndex, TLC

CONSTANTS u1, u2

MCLink == {<<u1, u2>>}
MCSelfLink == {<<u1, u1>>}
MCSymmetry == Permutations(Searches) \cup Permutations(Texts)
=============================================================================
