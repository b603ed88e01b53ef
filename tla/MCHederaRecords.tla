--------------------------- MODULE MCHederaRecords ---------------------------
(***************************************************************************)
(* Small instances of HederaRecords.                                       *)
(***************************************************************************)
EXTENDS HederaRecords, TLC

CONSTANTS r1, r2, w1, s1, s2, i1, i2, i3

Interchangeable == Permutations({s1, s2}) \cup Permutations({i1, i2, i3})
InterchangeableFilings == Permutations({r1, r2})

OneOrg == [r \in Requests |-> "o"]
OneUnit == [o \in Orgs |-> 1]
TwoUnits == [o \in Orgs |-> 2]

=============================================================================
