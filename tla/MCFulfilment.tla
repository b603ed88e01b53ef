---------------------------- MODULE MCFulfilment ----------------------------
(***************************************************************************)
(* Small instances of Fulfilment.                                          *)
(***************************************************************************)
EXTENDS Fulfilment, TLC

CONSTANTS r1, r2, r3, o1, s1, s2, s3, s4, w1, w2

\* r1 and r2 are filed by one organization, r3 by a filer without one.
MCOrgOf == [r \in Requests |-> IF r = r3 THEN NoOrg ELSE o1]
MCLimitOne == [o \in Orgs |-> 1]
MCLimitTwo == [o \in Orgs |-> 2]

\* Signatures are interchangeable; the safety runs use it.
SigSymmetry == Permutations(Sigs)

=============================================================================
