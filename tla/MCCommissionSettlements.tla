----------------------- MODULE MCCommissionSettlements -----------------------
(* Instances of CommissionSettlements for TLC.                              *)
EXTENDS CommissionSettlements, TLC

CONSTANTS b1, b2, s1, s2, e1, e2, a1, a2

Symmetry == Permutations(Id) \union Permutations(Staff)
              \union Permutations(Settlement) \union Permutations(Profile)
=============================================================================
