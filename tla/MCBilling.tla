------------------------------ MODULE MCBilling ------------------------------
(***************************************************************************)
(* Small instances of Billing.                                             *)
(***************************************************************************)
EXTENDS Billing, TLC

CONSTANTS k1, k2, e1, e2, d1, d2

Interchangeable ==
    Permutations({k1, k2}) \cup Permutations({e1, e2}) \cup Permutations({d1, d2})

=============================================================================
