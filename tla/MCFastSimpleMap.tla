-------------------------- MODULE MCFastSimpleMap --------------------------
(***************************************************************************)
(* Instances of FastSimpleMap for TLC.                                      *)
(***************************************************************************)
EXTENDS FastSimpleMap, TLC

CONSTANTS m1, m2, host, k1, k2, v1, v2

(* Maps, plain names and values are interchangeable.                        *)
Symmetry == Permutations(Maps) \cup Permutations(Plain) \cup Permutations(Values)

=============================================================================
