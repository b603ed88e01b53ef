----------------------------- MODULE MCRateLimit -----------------------------
(***************************************************************************)
(* Small instances of RateLimit.                                           *)
(***************************************************************************)
EXTENDS RateLimit, TLC

CONSTANTS i1, i2, i3, a1

\* Routes pass limits of their own.
MCLimit == [k \in Keys |-> IF k = a1 THEN 2 ELSE 1]

Interchangeable == Permutations(PageKeys)

=============================================================================
