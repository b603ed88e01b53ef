----------------------------- MODULE FixedWindow -----------------------------
(***************************************************************************)
(* What a fixed-window rate limiter promises each of its keys, as the      *)
(* header of lib/rate-limit.ts states it: the first request of a window    *)
(* starts the clock, and no request beyond the limit is admitted until the *)
(* window rolls over.  Keys in Forgetful may lose their window early.      *)
(***************************************************************************)
EXTENDS Naturals

CONSTANTS Keys, Forgetful, Limit, WindowMs

VARIABLES
    now,
    spent,    \* per key, requests admitted in its window
    expires,  \* per key, the end of its window; 0 when it has none
    ok        \* per key, the last answer

FInit ==
    /\ now = 0
    /\ spent = [k \in Keys |-> 0]
    /\ expires = [k \in Keys |-> 0]
    /\ ok = [k \in Keys |-> TRUE]

\* Time passes.
Pass == now' > now /\ UNCHANGED <<spent, expires, ok>>

\* k opens a window or is within its limit; others, F, lose theirs.
Admit(k, F) ==
    /\ \/ /\ now >= expires[k]
          /\ spent' = [j \in Keys |-> IF j = k THEN 1 ELSE IF j \in F THEN 0 ELSE spent[j]]
          /\ expires' = [j \in Keys |->
                 IF j = k THEN now + WindowMs ELSE IF j \in F THEN 0 ELSE expires[j]]
       \/ /\ now < expires[k] /\ spent[k] < Limit[k]
          /\ spent' = [j \in Keys |-> IF j = k THEN spent[k] + 1 ELSE IF j \in F THEN 0 ELSE spent[j]]
          /\ expires' = [j \in Keys |-> IF j \in F \ {k} THEN 0 ELSE expires[j]]
    /\ ok' = [ok EXCEPT ![k] = TRUE]
    /\ UNCHANGED now

\* Refused: only while the window lasts, and only with its limit used up.
Deny(k, F) ==
    /\ now < expires[k] /\ spent[k] = Limit[k]
    /\ spent' = [j \in Keys |-> IF j \in F \ {k} THEN 0 ELSE spent[j]]
    /\ expires' = [j \in Keys |-> IF j \in F \ {k} THEN 0 ELSE expires[j]]
    /\ ok' = [ok EXCEPT ![k] = FALSE]
    /\ UNCHANGED now

FNext == Pass \/ \E k \in Keys, F \in SUBSET Forgetful : Admit(k, F) \/ Deny(k, F)

FSpec == FInit /\ [][FNext]_<<now, spent, expires, ok>>

=============================================================================
