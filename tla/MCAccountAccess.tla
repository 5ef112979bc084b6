--------------------------- MODULE MCAccountAccess ---------------------------
(* Two free handles, a seeded account and a disabled one; an invite for one  *)
(* account and an invite for two.                                            *)
EXTENDS AccountAccess, TLC

CONSTANTS i1, i2

MCMaxUses == i1 :> 1 @@ i2 :> 2
RequestSymmetry == Permutations(Requests)
=============================================================================
