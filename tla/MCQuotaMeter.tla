---------------------------- MODULE MCQuotaMeter ----------------------------
(***************************************************************************)
(* Small instances of QuotaMeter: tiers of one, two and three units stand  *)
(* for the one, nine and 999 of TIER_QUOTA.                                *)
(***************************************************************************)
EXTENDS QuotaMeter, TLC

CONSTANTS c1, c2, c3, c4, a, b

MCTierQuota == [t \in Tiers |-> CASE t = "tier1" -> 1 [] t = "tier2" -> 2 [] OTHER -> 3]

CallerSymmetry == Permutations(Callers)

=============================================================================
