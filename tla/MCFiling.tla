------------------------------ MODULE MCFiling ------------------------------
(***************************************************************************)
(* A small instance of Filing: two registered names, a dotted number and a *)
(* wallet.                                                                 *)
(***************************************************************************)
EXTENDS Filing

CONSTANTS alice, bob, dotted, aliceAddr, bobAddr

MCRegistry == [n \in Names |-> IF n = alice THEN aliceAddr ELSE bobAddr]

=============================================================================
