---------------------------- MODULE RequestStore ----------------------------
(***************************************************************************)
(* The two Postgres tables through which intake and the fulfilment worker  *)
(* meet: the ServiceRequest row of every request and the usage meter of    *)
(* every organization's ACTIVE Subscription, with the statements and the   *)
(* transactions that lib/quota.ts, lib/failure.ts and worker/index.ts run  *)
(* on them.  Each statement or transaction is one atomic step.             *)
(*                                                                         *)
(* A request's contents (caption, document, recipient) are abstracted to   *)
(* its identity; createdAt is the row's rank in order of insertion.        *)
(***************************************************************************)
EXTENDS Integers, FiniteSets

CONSTANTS
    Requests,   \* the submissions that ever reach POST /api/service-requests
    Orgs,       \* organizations (Organization.id)
    NoOrg,      \* the orgId of a filer without an active organization (null)
    OrgOf,      \* the organization each request is filed by, or NoOrg
    Limit,      \* per organization, TIER_QUOTA of its ACTIVE subscription, 0 if none
    Sigs,       \* transaction signatures (their number bounds the broadcasts)
    NoSig       \* null

ASSUME StoreAssumption ==
    /\ IsFiniteSet(Requests)
    /\ NoOrg \notin Orgs
    /\ OrgOf \in [Requests -> Orgs \cup {NoOrg}]
    /\ Limit \in [Orgs -> Nat]
    /\ NoSig \notin Sigs

VARIABLES
    status,       \* ServiceRequest.status, "NONE" while there is no row
    createdAt,    \* ServiceRequest.createdAt: rank of insertion, 0 without a row
    txSignature,  \* ServiceRequest.txSignature
    slot,         \* ServiceRequest.slot: "null", "zero" or the transaction's "real" one
    usageCount,   \* Subscription.usageCount of the organization
    audits        \* number of SERVICE_FAILED AuditLog rows of the request

storeVars == <<status, createdAt, txSignature, slot, usageCount, audits>>

\* Mutants of CLAIMABLE: rows of a crashed worker are left alone; failed
\* deliveries are picked up again.
OnlyStaged == {"STAGED"}
FailedRetried == {"STAGED", "IN_PROGRESS", "FAILED"}

ServiceStatus == {"STAGED", "IN_PROGRESS", "CONFIRMED", "FAILED"}
CLAIMABLE == {"STAGED", "IN_PROGRESS"}
Terminal == {"CONFIRMED", "FAILED"}

StoreTypeOK ==
    /\ status \in [Requests -> ServiceStatus \cup {"NONE"}]
    /\ createdAt \in [Requests -> Nat]
    /\ txSignature \in [Requests -> Sigs \cup {NoSig}]
    /\ slot \in [Requests -> {"null", "zero", "real"}]
    /\ usageCount \in [Orgs -> Nat]
    /\ audits \in [Requests -> Nat]

StoreInit ==
    /\ status = [r \in Requests |-> "NONE"]
    /\ createdAt = [r \in Requests |-> 0]
    /\ txSignature = [r \in Requests |-> NoSig]
    /\ slot = [r \in Requests |-> "null"]
    /\ usageCount = [o \in Orgs |-> 0]
    /\ audits = [r \in Requests |-> 0]

Rows == {r \in Requests : status[r] # "NONE"}
Claimable == {r \in Requests : status[r] \in CLAIMABLE}

\* findFirst({status in CLAIMABLE}, orderBy createdAt asc) can return r.
IsOldestClaimable(r) ==
    /\ r \in Claimable
    /\ \A q \in Claimable : createdAt[r] <= createdAt[q]

-----------------------------------------------------------------------------
(* Statements.  Each constrains the variables it writes.                   *)

\* The conditional increment of checkAndDecrementQuota within one period.
CheckAndDecrementQuota(o) ==
    /\ usageCount[o] < Limit[o]
    /\ usageCount' = [usageCount EXCEPT ![o] = @ + 1]

\* Mutant of RestoreQuota: the unit is not given back.
RestoreForgotten(o) == UNCHANGED usageCount

\* The floored decrement: a no-op when the meter stands at zero (which is
\* also where it stands for an organization without an ACTIVE subscription).
RestoreQuota(o) ==
    usageCount' = [usageCount EXCEPT ![o] = IF @ > 0 THEN @ - 1 ELSE @]

\* serviceRequest.create: a STAGED row younger than every other one.
CreateRow(r) ==
    /\ status[r] = "NONE"
    /\ status' = [status EXCEPT ![r] = "STAGED"]
    /\ createdAt' = [createdAt EXCEPT ![r] = Cardinality(Rows) + 1]
    /\ UNCHANGED <<txSignature, slot, audits>>

\* Mutant of FlipToInProgress: an update by id, without the status guard.
FlipUnconditionally(r) ==
    /\ status' = [status EXCEPT ![r] = "IN_PROGRESS"]
    /\ UNCHANGED <<createdAt, txSignature, slot, usageCount, audits>>

\* The conditional updateMany of a claim, when it matches the row.
FlipToInProgress(r) ==
    /\ status[r] \in CLAIMABLE
    /\ status' = [status EXCEPT ![r] = "IN_PROGRESS"]
    /\ UNCHANGED <<createdAt, txSignature, slot, usageCount, audits>>

\* The worker's update of txSignature: by id, whatever the row holds.
WriteSignature(r, s) ==
    /\ txSignature' = [txSignature EXCEPT ![r] = s]
    /\ UNCHANGED <<status, createdAt, slot, usageCount, audits>>

\* The worker's final update: by id, whatever the row's status.
WriteConfirmed(r, v) ==
    /\ status' = [status EXCEPT ![r] = "CONFIRMED"]
    /\ slot' = [slot EXCEPT ![r] = v]
    /\ UNCHANGED <<createdAt, txSignature, usageCount, audits>>

\* Mutants of FailServiceRequest: the audit row is forgotten; the unit is
\* given back but the row keeps its status.
FailUnaudited(r) ==
    /\ OrgOf[r] # NoOrg
    /\ status' = [status EXCEPT ![r] = "FAILED"]
    /\ RestoreQuota(OrgOf[r])
    /\ UNCHANGED <<createdAt, txSignature, slot, audits>>

FailWithoutStatus(r) ==
    /\ OrgOf[r] # NoOrg
    /\ RestoreQuota(OrgOf[r])
    /\ audits' = [audits EXCEPT ![r] = @ + 1]
    /\ UNCHANGED <<status, createdAt, txSignature, slot>>

\* The transaction of failServiceRequest: FAILED by id whatever the row's
\* status, the unit of quota back, one audit row.  Prisma rejects the query
\* restoreQuota(null) builds (Subscription.orgId is required), so for a row
\* without an organization the transaction never commits.
FailServiceRequest(r) ==
    /\ OrgOf[r] # NoOrg
    /\ status' = [status EXCEPT ![r] = "FAILED"]
    /\ RestoreQuota(OrgOf[r])
    /\ audits' = [audits EXCEPT ![r] = @ + 1]
    /\ UNCHANGED <<createdAt, txSignature, slot>>

=============================================================================
