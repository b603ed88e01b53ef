--------------------------- MODULE MCPublicNotice ---------------------------
(***************************************************************************)
(* Small instances of PublicNotice.                                        *)
(***************************************************************************)
EXTENDS PublicNotice

CONSTANTS v1, v2, d1, d2

=============================================================================
