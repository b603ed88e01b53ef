----------------------------- MODULE Fulfilment -----------------------------
(***************************************************************************)
(* Intake and fulfilment together: the handlers of POST                    *)
(* /api/service-requests stage rows while the workers deliver them.        *)
(***************************************************************************)
EXTENDS Worker

VARIABLE intake   \* per submission, where its POST handler stands

vars == <<coreVars, intake>>

TypeOK ==
    /\ WorkerTypeOK
    /\ intake \in [Requests -> {"idle", "metered", "staged", "refused", "lost"}]

Init == WorkerInit /\ intake = [r \in Requests |-> "idle"]

-----------------------------------------------------------------------------
(* POST /api/service-requests.  Validation, rate limiting and ENS          *)
(* resolution come before the first write and only decide whether a        *)
(* submission gets here.                                                   *)

\* The quota unit is consumed, in a statement of its own; a filer without an
\* organization has no meter.
Meter(r) ==
    /\ intake[r] = "idle"
    /\ IF OrgOf[r] = NoOrg THEN UNCHANGED usageCount ELSE CheckAndDecrementQuota(OrgOf[r])
    /\ intake' = [intake EXCEPT ![r] = "metered"]
    /\ UNCHANGED <<status, createdAt, txSignature, slot, audits, workerVars, chainVars>>

\* 402 or 403: no subscription, or no unit left.
Refuse(r) ==
    /\ intake[r] = "idle"
    /\ OrgOf[r] # NoOrg
    /\ usageCount[OrgOf[r]] >= Limit[OrgOf[r]]
    /\ intake' = [intake EXCEPT ![r] = "refused"]
    /\ UNCHANGED coreVars

\* serviceRequest.create.
Create(r) ==
    /\ intake[r] = "metered"
    /\ CreateRow(r)
    /\ intake' = [intake EXCEPT ![r] = "staged"]
    /\ UNCHANGED <<usageCount, workerVars, chainVars>>

\* The create throws or the process dies: nothing gives the unit back.
CreateFails(r) ==
    /\ intake[r] = "metered"
    /\ intake' = [intake EXCEPT ![r] = "lost"]
    /\ UNCHANGED coreVars

IntakeNext == \E r \in Requests : Meter(r) \/ Refuse(r) \/ Create(r) \/ CreateFails(r)

Next == IntakeNext \/ (WorkerNext /\ UNCHANGED intake)

Spec == Init /\ [][Next]_vars

\* The handlers run to completion; a worker's process is restarted (the
\* schedule of worker-drain.yml) and its pass goes on; the cluster decides
\* every transaction.  Crashes and database errors are bounded by MaxFaults.
Fairness ==
    /\ \A r \in Requests : WF_vars(Create(r) \/ CreateFails(r))
    /\ \A w \in Workers : WF_vars((Start(w) \/ RunOnce(w)) /\ UNCHANGED intake)
    /\ \A s \in Sigs : WF_vars(Chain!Settle(s) /\ UNCHANGED <<storeVars, workerVars, intake>>)

FairSpec == Spec /\ Fairness

-----------------------------------------------------------------------------
(* Properties of any number of workers.                                    *)

\* A CONFIRMED row has a finalized transaction carrying its own memo, however
\* many workers race for it and whatever fails: processServiceRequest compares
\* the re-read memo before its last update, and nothing un-finalizes it.
ConfirmedIsProven ==
    \A r \in Requests : status[r] = "CONFIRMED" =>
        \E s \in Sigs : memoOf[s] = r /\ Chain!Finalized(s)

\* A terminal row is never handed out again: the claim's updateMany repeats
\* the status test that findFirst made on a snapshot since gone stale.
TerminalNeverReopened ==
    [][\A r \in Requests : status[r] \in Terminal => status'[r] \in Terminal]_vars

-----------------------------------------------------------------------------
(* Properties of the deployment the worker is written for: one worker at a *)
(* time, restarted after a crash.                                          *)

\* The unit of the organization's quota a submission holds.
Billed(r) ==
    \/ intake[r] \in {"metered", "lost"}
    \/ intake[r] = "staged" /\ status[r] # "FAILED"

\* The meter counts exactly the submissions that hold a unit: one per request
\* in flight or served, none for a failed one, across intake, crashes and
\* rolled-back failures.
MeterExact ==
    \A o \in Orgs :
        usageCount[o] = Cardinality({r \in Requests : OrgOf[r] = o /\ Billed(r)})

\* The signature on a CONFIRMED row is the one whose memo was verified:
\* signature, claim and verification belong to one delivery.
ConfirmedBySignature ==
    \A r \in Requests : status[r] = "CONFIRMED" =>
        /\ txSignature[r] \in Sigs
        /\ memoOf[txSignature[r]] = r
        /\ Chain!Finalized(txSignature[r])

\* Every broadcast beyond the first costs a fault that lost the signature: a
\* resumed worker re-confirms what is on record and re-sends nothing else.
ExtraBroadcastsCostFaults ==
    \A r \in Requests : Cardinality({s \in Sigs : memoOf[s] = r}) <= 1 + faults

\* The three effects of failServiceRequest are all there, once, or none is.
FailureAudited ==
    \A r \in Requests : audits[r] = IF status[r] = "FAILED" THEN 1 ELSE 0

\* The row reads CONFIRMED, but a worker that did not hear of it is about to
\* fail it.
InDoubt(r) == status[r] = "CONFIRMED" /\ \E w \in Workers : pc[w] = "fail" /\ job[w] = r

\* The updates of txSignature and of the outcome are by id only, decided on a
\* snapshot; still, a signature on record is never overwritten, FAILED is final,
\* and CONFIRMED is but for one case: the answer to the final update was lost,
\* and runOnce (worker/index.ts:191) takes that for a failed delivery.
RevisedOnlyInDoubt ==
    [][\A r \in Requests :
          /\ status[r] = "FAILED" => status'[r] = "FAILED"
          /\ status[r] = "CONFIRMED" /\ status'[r] # "CONFIRMED" =>
                InDoubt(r) /\ faults > 0 /\ status'[r] = "FAILED"
          /\ txSignature[r] # NoSig => txSignature'[r] = txSignature[r]]_vars

\* Every staged request reaches CONFIRMED or FAILED.
EveryRequestSettles ==
    \A r \in Requests : (status[r] = "STAGED") ~> (status[r] \in Terminal)

\* The phase of a submission that ServiceLifecycle sees.
Phase(r) ==
    CASE intake[r] \in {"idle", "refused"} -> "none"
      [] intake[r] = "metered" -> "reserved"
      [] intake[r] = "lost" -> "forfeited"
      [] intake[r] = "staged" /\ InDoubt(r) -> "doubtful"
      [] intake[r] = "staged" /\ status[r] = "CONFIRMED" /\ ~InDoubt(r) -> "served"
      [] intake[r] = "staged" /\ status[r] = "FAILED" -> "returned"
      [] OTHER -> "open"

Lifecycle == INSTANCE ServiceLifecycle WITH
    phase <- [r \in Requests |-> Phase(r)], balance <- usageCount, mishaps <- faults

\* Intake, worker, failure handling and quota together implement the promise:
\* served for one unit or given back once, never both, and in doubt only after a
\* lost answer.
ImplementsLifecycle == Lifecycle!LSpec

\* ... and, when every filer has an organization, no request is left open.
ImplementsLifecycleFairly == Lifecycle!LFairSpec

-----------------------------------------------------------------------------
(* What the source says of the worker and this model refutes.              *)

\* worker/process.ts:41: "the recipient is left with a durable, non-purgeable
\* balance": a CONFIRMED delivery's transfer was executed.
ConfirmedTransferred ==
    \A r \in Requests : status[r] = "CONFIRMED" =>
        \E s \in Sigs : memoOf[s] = r /\ txState[s] = "landed"

=============================================================================
