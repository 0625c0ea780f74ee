--------------------------- MODULE MCSettlementQueue ---------------------------
(***************************************************************************)
(* Values of the constants of SettlementQueue for TLC: f1, f2 and f3 are   *)
(* above the threshold of 1, e1 and e2 are not.                            *)
(***************************************************************************)
EXTENDS SettlementQueue, TLC

CONSTANTS f1, f2, f3, e1, e2

MCAmount == [o \in Orders |-> IF o \in {f1, f2, f3} THEN 2 ELSE 1]

SameLane == Permutations({f1, f2, f3}) \cup Permutations({e1, e2})
=============================================================================
