------------------------------- MODULE Worker -------------------------------
(***************************************************************************)
(* The fulfilment worker: worker/index.ts (claim, run, drain, poll) and    *)
(* worker/process.ts (send, persist, confirm, verify, commit) over the     *)
(* tables of RequestStore and the cluster of SolanaChain.                  *)
(*                                                                         *)
(* One action per await: between two of them the other workers, the        *)
(* cluster and the intake handlers run.  What a worker keeps in memory     *)
(* (job, the signature, the slot it read) dies with its process.           *)
(***************************************************************************)
EXTENDS RequestStore

CONSTANTS
    Workers,    \* worker processes, of `pnpm worker` and of `worker:once`
    Drainers,   \* those started with DRAIN_AND_EXIT=1
    NoReq,      \* no job
    DbErrors,   \* how a database call can fail: "refused" (not applied) and
                \* "replyLost" (committed, but the client sees an error)
    MaxFaults   \* bound on crashes, database errors and lost send replies

ASSUME WorkerAssumption ==
    /\ Drainers \subseteq Workers
    /\ NoReq \notin Requests
    /\ DbErrors \subseteq {"refused", "replyLost"}
    /\ MaxFaults \in Nat

VARIABLES
    pc,        \* per worker, the await it is about to make
    job,       \* row.id of the claimed (or just found) row
    sigOf,     \* processServiceRequest's `signature`: first the snapshot's
    slotRead,  \* the slot `confirm` returned
    faults,    \* faults so far
    memoOf, txState

Chain == INSTANCE SolanaChain

workerVars == <<pc, job, sigOf, slotRead, faults>>
chainVars == <<memoOf, txState>>
coreVars == <<storeVars, workerVars, chainVars>>

Locations == {"down", "exited", "poll", "claim", "send", "persist",
              "confirm", "verify", "commit", "fail"}

\* The worker believes it owns its job.
Holding(w) == pc[w] \in {"send", "persist", "confirm", "verify", "commit", "fail"}

WorkerTypeOK ==
    /\ StoreTypeOK
    /\ Chain!ChainTypeOK
    /\ pc \in [Workers -> Locations]
    /\ job \in [Workers -> Requests \cup {NoReq}]
    /\ sigOf \in [Workers -> Sigs \cup {NoSig}]
    /\ slotRead \in [Workers -> {"null", "zero", "real"}]
    /\ faults \in 0..MaxFaults
    /\ \A w \in Workers : pc[w] \notin {"down", "exited", "poll"} => job[w] \in Requests
    /\ \A w \in Workers : pc[w] \in {"persist", "confirm", "verify", "commit"} => sigOf[w] \in Sigs

WorkerInit ==
    /\ StoreInit
    /\ Chain!ChainInit
    /\ pc = [w \in Workers |-> "down"]
    /\ job = [w \in Workers |-> NoReq]
    /\ sigOf = [w \in Workers |-> NoSig]
    /\ slotRead = [w \in Workers |-> "null"]
    /\ faults = 0

-----------------------------------------------------------------------------
(* Control of the loop.                                                    *)

\* The worker continues at l with its job.
Goto(w, l) ==
    /\ pc' = [pc EXCEPT ![w] = l]
    /\ UNCHANGED <<job, sigOf, slotRead>>

\* runOnce is over and its locals with it; the worker goes on at l.
Forget(w, l) ==
    /\ pc' = [pc EXCEPT ![w] = l]
    /\ job' = [job EXCEPT ![w] = NoReq]
    /\ sigOf' = [sigOf EXCEPT ![w] = NoSig]
    /\ slotRead' = [slotRead EXCEPT ![w] = "null"]

\* runOnce returned false: pollForever sleeps and goes on, drain returns and
\* main exits with code 0.
NothingClaimed(w) == Forget(w, IF w \in Drainers THEN "exited" ELSE "poll")

\* runOnce threw: pollForever swallows the error, main exits with code 1.
Thrown(w) == Forget(w, IF w \in Drainers THEN "down" ELSE "poll")

Fault == faults < MaxFaults /\ faults' = faults + 1

-----------------------------------------------------------------------------
(* One pass of runOnce.                                                    *)

\* The process starts: `pnpm worker`, or the scheduled `worker:once`.
Start(w) ==
    /\ pc[w] \in {"down", "exited"}
    /\ Forget(w, "poll")
    /\ UNCHANGED <<storeVars, chainVars, faults>>

\* Mutant of Find: the select leaves out the id.
FindWithoutId(w) ==
    /\ pc[w] = "poll"
    /\ \E r \in Requests : IsOldestClaimable(r) /\ sigOf' = [sigOf EXCEPT ![w] = txSignature[r]]
    /\ pc' = [pc EXCEPT ![w] = "claim"]
    /\ UNCHANGED <<storeVars, chainVars, job, slotRead, faults>>

\* findFirst returned a row: a snapshot of its id and txSignature.
Find(w) ==
    /\ pc[w] = "poll"
    /\ \E r \in Requests :
          /\ IsOldestClaimable(r)
          /\ pc' = [pc EXCEPT ![w] = "claim"]
          /\ job' = [job EXCEPT ![w] = r]
          /\ sigOf' = [sigOf EXCEPT ![w] = txSignature[r]]
    /\ UNCHANGED <<storeVars, chainVars, slotRead, faults>>

\* findFirst returned null.  A polling worker only sleeps.
FindNothing(w) ==
    /\ pc[w] = "poll"
    /\ Claimable = {}
    /\ NothingClaimed(w)
    /\ UNCHANGED <<storeVars, chainVars, faults>>

\* updateMany matched the row.  Delivery starts from the snapshot: with a
\* signature on record it goes straight to confirm.
Claim(w) ==
    /\ pc[w] = "claim"
    /\ FlipToInProgress(job[w])
    /\ Goto(w, IF sigOf[w] = NoSig THEN "send" ELSE "confirm")
    /\ UNCHANGED <<chainVars, faults>>

\* updateMany matched nothing: count === 0.
LoseClaim(w) ==
    /\ pc[w] = "claim"
    /\ status[job[w]] \notin CLAIMABLE
    /\ NothingClaimed(w)
    /\ UNCHANGED <<storeVars, chainVars, faults>>

\* adapter.send returned the signature of a broadcast transaction.
Send(w) ==
    /\ pc[w] = "send"
    /\ \E s \in Sigs :
          /\ Chain!Broadcast(s, job[w])
          /\ sigOf' = [sigOf EXCEPT ![w] = s]
    /\ pc' = [pc EXCEPT ![w] = "persist"]
    /\ UNCHANGED <<storeVars, job, slotRead, faults>>

\* getRentExemptMinimum or send threw before anything was broadcast: the RPC
\* refused, or assertValidRecipient did (always, for an EVM address).
SendFails(w) ==
    /\ pc[w] = "send"
    /\ Goto(w, "fail")
    /\ UNCHANGED <<storeVars, chainVars, faults>>

\* The transaction was broadcast but the RPC's reply was lost.
SendReplyLost(w) ==
    /\ pc[w] = "send"
    /\ Fault
    /\ \E s \in Sigs : Chain!Broadcast(s, job[w])
    /\ Goto(w, "fail")
    /\ UNCHANGED storeVars

\* Mutant of Persist: the signature is only kept in memory.
PersistSkipped(w) ==
    /\ pc[w] = "persist"
    /\ Goto(w, "confirm")
    /\ UNCHANGED <<storeVars, chainVars, faults>>

\* The signature is made durable before confirm.
Persist(w) ==
    /\ pc[w] = "persist"
    /\ WriteSignature(job[w], sigOf[w])
    /\ Goto(w, "confirm")
    /\ UNCHANGED <<chainVars, faults>>

\* confirmTransaction resolved: the transaction is finalized.  Its value.err
\* is not looked at, and getTransaction may not find the transaction yet
\* (slot 0).
Confirm(w) ==
    /\ pc[w] = "confirm"
    /\ Chain!Finalized(sigOf[w])
    /\ \E v \in {"real", "zero"} : slotRead' = [slotRead EXCEPT ![w] = v]
    /\ pc' = [pc EXCEPT ![w] = "verify"]
    /\ UNCHANGED <<storeVars, chainVars, job, sigOf, faults>>

\* Mutant of ConfirmFails: confirm and verification sit in a try whose catch
\* only logs.
ConfirmErrorSwallowed(w) ==
    /\ pc[w] = "confirm"
    /\ Goto(w, "commit")
    /\ UNCHANGED <<storeVars, chainVars, faults>>

\* Mutant of ConfirmFails: a transaction that was not confirmed in time is sent
\* once more.
ConfirmFailsResending(w) ==
    /\ pc[w] = "confirm"
    /\ Goto(w, "send")
    /\ UNCHANGED <<storeVars, chainVars, faults>>

\* confirm threw: the 60 s timeout (whatever the transaction's later fate) or
\* an RPC error.
ConfirmFails(w) ==
    /\ pc[w] = "confirm"
    /\ Goto(w, "fail")
    /\ UNCHANGED <<storeVars, chainVars, faults>>

\* getMemo returned the memo of the finalized transaction: the expected one,
\* or MemoMismatchError.
Verify(w) ==
    /\ pc[w] = "verify"
    /\ Chain!Finalized(sigOf[w])
    /\ Goto(w, IF memoOf[sigOf[w]] = job[w] THEN "commit" ELSE "fail")
    /\ UNCHANGED <<storeVars, chainVars, faults>>

\* getMemo returned null, the RPC node not having the transaction, or threw.
VerifyFails(w) ==
    /\ pc[w] = "verify"
    /\ Goto(w, "fail")
    /\ UNCHANGED <<storeVars, chainVars, faults>>

\* Mutant of Commit: the Hedera recording is awaited, and its error fails the
\* delivery that was just confirmed.
CommitAwaitsHedera(w) ==
    /\ pc[w] = "commit"
    /\ WriteConfirmed(job[w], slotRead[w])
    /\ Goto(w, "fail") \/ Forget(w, "poll")
    /\ UNCHANGED <<chainVars, faults>>

\* The row advances to CONFIRMED.
Commit(w) ==
    /\ pc[w] = "commit"
    /\ WriteConfirmed(job[w], slotRead[w])
    /\ Forget(w, "poll")
    /\ UNCHANGED <<chainVars, faults>>

\* deps.fail: FAILED, quota back, audit.
Fail(w) ==
    /\ pc[w] = "fail"
    /\ FailServiceRequest(job[w])
    /\ Forget(w, "poll")
    /\ UNCHANGED <<chainVars, faults>>

\* deps.fail on a row without an organization: restoreQuota(null) is rejected,
\* the transaction rolls back and the error leaves runOnce.
FailThrows(w) ==
    /\ pc[w] = "fail"
    /\ OrgOf[job[w]] = NoOrg
    /\ Thrown(w)
    /\ UNCHANGED <<storeVars, chainVars, faults>>

-----------------------------------------------------------------------------
(* Faults.                                                                 *)

\* A database call threw without effect.  Inside processServiceRequest the
\* error is caught and routed to deps.fail; elsewhere it leaves runOnce.
DbRefuses(w) ==
    /\ "refused" \in DbErrors
    /\ Fault
    /\ \/ pc[w] \in {"persist", "commit"} /\ Goto(w, "fail")
       \/ pc[w] \in {"poll", "claim", "fail"} /\ Thrown(w)
    /\ UNCHANGED <<storeVars, chainVars>>

\* The database committed but the client saw an error.
DbReplyLost(w) ==
    /\ "replyLost" \in DbErrors
    /\ Fault
    /\ \/ pc[w] = "claim" /\ FlipToInProgress(job[w]) /\ Thrown(w)
       \/ pc[w] = "persist" /\ WriteSignature(job[w], sigOf[w]) /\ Goto(w, "fail")
       \/ pc[w] = "commit" /\ WriteConfirmed(job[w], slotRead[w]) /\ Goto(w, "fail")
       \/ pc[w] = "fail" /\ FailServiceRequest(job[w]) /\ Thrown(w)
    /\ UNCHANGED chainVars

\* The process dies between two awaits.
Crash(w) ==
    /\ pc[w] \notin {"down", "exited"}
    /\ Fault
    /\ Forget(w, "down")
    /\ UNCHANGED <<storeVars, chainVars>>

-----------------------------------------------------------------------------
RunOnce(w) ==
    \/ Find(w) \/ FindNothing(w) \/ Claim(w) \/ LoseClaim(w)
    \/ Send(w) \/ SendFails(w) \/ SendReplyLost(w) \/ Persist(w)
    \/ Confirm(w) \/ ConfirmFails(w) \/ Verify(w) \/ VerifyFails(w)
    \/ Commit(w) \/ Fail(w) \/ FailThrows(w)

WorkerNext ==
    \/ \E w \in Workers :
          Start(w) \/ RunOnce(w) \/ DbRefuses(w) \/ DbReplyLost(w) \/ Crash(w)
    \/ \E s \in Sigs : Chain!Settle(s) /\ UNCHANGED <<storeVars, workerVars>>

=============================================================================
