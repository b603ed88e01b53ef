---------------------------- MODULE SolanaChain -----------------------------
(***************************************************************************)
(* The Solana cluster as lib/chain/solana.ts uses it.  A transaction is    *)
(* named by its signature and carries a memo; buildServiceMemo puts the    *)
(* service request's id into it, so a memo is abstracted to that request.  *)
(*                                                                         *)
(* A broadcast transaction is pending until the cluster finalizes it, with *)
(* its instructions executed ("landed") or with an error ("reverted"), or  *)
(* its blockhash expires ("dropped").                                      *)
(***************************************************************************)
CONSTANTS Sigs, Requests, NoReq

VARIABLES memoOf, txState

chainVars == <<memoOf, txState>>

ChainTypeOK ==
    /\ memoOf \in [Sigs -> Requests \cup {NoReq}]
    /\ txState \in [Sigs -> {"unused", "pending", "landed", "reverted", "dropped"}]

ChainInit ==
    /\ memoOf = [s \in Sigs |-> NoReq]
    /\ txState = [s \in Sigs |-> "unused"]

Finalized(s) == txState[s] \in {"landed", "reverted"}

\* Connection.sendTransaction reached the cluster: a fresh blockhash gives
\* every broadcast a signature of its own.
Broadcast(s, r) ==
    /\ txState[s] = "unused"
    /\ memoOf' = [memoOf EXCEPT ![s] = r]
    /\ txState' = [txState EXCEPT ![s] = "pending"]

\* The cluster decides the fate of a pending transaction.
Settle(s) ==
    /\ txState[s] = "pending"
    /\ \E fate \in {"landed", "reverted", "dropped"} :
          txState' = [txState EXCEPT ![s] = fate]
    /\ UNCHANGED memoOf

=============================================================================
