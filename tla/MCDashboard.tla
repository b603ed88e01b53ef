----------------------------- MODULE MCDashboard -----------------------------
(***************************************************************************)
(* Small instances of Dashboard.                                           *)
(***************************************************************************)
EXTENDS Dashboard

CONSTANTS r1, r2, o1, s1, s2, s3, w1, p1, p2

AllOfOneOrg == [r \in Requests |-> o1]
LimitTwo == [o \in Orgs |-> 2]

=============================================================================
