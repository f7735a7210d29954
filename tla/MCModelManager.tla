--------------------------- MODULE MCModelManager ---------------------------
(* Instances of ModelManager for TLC: a primary and two other models for a *)
(* cache of two, and a name that is not available.                         *)
EXTENDS ModelManager, TLC

CONSTANTS base, large, medium, unknown

MCModels == {base, large, medium, unknown}
MCAvailable == {base, large, medium}
MCPrimary == base

(* The two models that are not the primary one are alike.                  *)
MCSymmetry == Permutations({large, medium})

=============================================================================
