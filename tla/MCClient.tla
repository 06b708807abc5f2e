------------------------------ MODULE MCClient ------------------------------
(***************************************************************************)
(* Instances of Client for TLC: the calls are model values, their kinds     *)
(* are sets given by the configurations.                                    *)
(***************************************************************************)
EXTENDS Client, TLC

CONSTANTS c1, c2, c3, c4

NoNesting      == [c \in Calls |-> None]
C1NestsC3      == [c \in Calls |-> IF c = c1 THEN c3 ELSE None]
C3NestsC2      == [c \in Calls |-> IF c = c3 THEN c2 ELSE None]
AllSameRid     == [c \in Calls |-> 0]

(* c2 and c4 are calls of one kind when neither is nested.                  *)
TimedSymmetry  == Permutations({c2, c4})

=============================================================================
