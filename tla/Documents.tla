------------------------------ MODULE Documents ------------------------------
(***************************************************************************)
(* Documents in the private bucket: the upload widget of a staged request  *)
(* (ServiceActions.tsx) with POST /api/upload, and createServiceRequest of *)
(* lib/intake.ts, which consumes quota, stores the document and stages the *)
(* row in one transaction.                                                 *)
(*                                                                         *)
(* The bucket is no part of the transaction: a PUT is not rolled back, and *)
(* one that is reported failed may have been carried out.  The quota       *)
(* update locks the subscription's row until the transaction ends.         *)
(***************************************************************************)
EXTENDS Integers, FiniteSets

CONSTANTS
    Intakes,  \* calls of createServiceRequest, each with a document of its own
    NoIntake,
    Quota,    \* units of the one organization they belong to
    Files,    \* files the filer may pick
    NoFile,
    Valid     \* the ones within size whose content matches a whitelisted type

ASSUME DocumentsAssumption ==
    /\ NoIntake \notin Intakes /\ NoFile \notin Files
    /\ Quota \in Nat /\ Valid \subseteq Files

VARIABLES
    stage,      \* per call, where its transaction stands
    usage,      \* the committed usageCount
    holder,     \* the call whose transaction has incremented it, or NoIntake
    objects,    \* the documents in the bucket
    staged,     \* the calls whose ServiceRequest row is committed
    kept,       \* per call, the fields of its StoredDocument that are committed
    file,       \* the widget's chosen file
    uploading,  \* the file whose upload is under way
    result,     \* the upload route's answer on its way back
    done,       \* whether the widget shows success
    switched    \* history: another file was picked during the last upload

intakeVars == <<stage, usage, holder, staged, kept>>
widgetVars == <<file, uploading, result, done, switched>>
\* What storeDocument returns.
Fields == {"objectKey", "sha256", "iv", "authTag"}

docVars == <<intakeVars, objects, widgetVars>>

DocTypeOK ==
    /\ stage \in [Intakes -> {"idle", "metered", "stored", "created", "committed", "failed"}]
    /\ usage \in Nat
    /\ holder \in Intakes \cup {NoIntake}
    /\ objects \subseteq Intakes \cup Files
    /\ staged \subseteq Intakes
    /\ kept \in [Intakes -> SUBSET Fields]
    /\ file \in Files \cup {NoFile} /\ uploading \in Files \cup {NoFile}
    /\ result \in {"none", "ok", "error"}
    /\ done \in BOOLEAN /\ switched \in BOOLEAN

DocInit ==
    /\ stage = [c \in Intakes |-> "idle"]
    /\ usage = 0 /\ holder = NoIntake
    /\ objects = {} /\ staged = {} /\ kept = [c \in Intakes |-> {}]
    /\ file = NoFile /\ uploading = NoFile /\ result = "none" /\ done = FALSE /\ switched = FALSE

-----------------------------------------------------------------------------
(* createServiceRequest.                                                   *)

\* Mutant of Consume: checkAndDecrementQuota without the transaction.
ConsumeOutside(c) ==
    /\ stage[c] = "idle" /\ holder = NoIntake
    /\ usage < Quota
    /\ usage' = usage + 1
    /\ stage' = [stage EXCEPT ![c] = "metered"]
    /\ UNCHANGED <<holder, staged, kept, objects, widgetVars>>

\* checkAndDecrementQuota on the transaction; whoever comes second waits for
\* the row's lock and reads what is committed then.
Consume(c) ==
    /\ stage[c] = "idle" /\ holder = NoIntake
    /\ usage < Quota
    /\ holder' = c
    /\ stage' = [stage EXCEPT ![c] = "metered"]
    /\ UNCHANGED <<usage, staged, kept, objects, widgetVars>>

\* NoActiveSubscriptionError or QuotaExceededError.
Exceeded(c) ==
    /\ stage[c] = "idle" /\ holder = NoIntake
    /\ usage >= Quota
    /\ stage' = [stage EXCEPT ![c] = "failed"]
    /\ UNCHANGED <<usage, holder, staged, kept, objects, widgetVars>>

\* storeDocument: encrypt, PUT, and a good answer.
Store(c) ==
    /\ stage[c] = "metered"
    /\ objects' = objects \cup {c}
    /\ stage' = [stage EXCEPT ![c] = "stored"]
    /\ UNCHANGED <<usage, holder, staged, kept, widgetVars>>

\* tx.serviceRequest.create and tx.auditLog.create.
CreateRows(c) ==
    /\ stage[c] = "stored"
    /\ stage' = [stage EXCEPT ![c] = "created"]
    /\ UNCHANGED <<usage, holder, staged, kept, objects, widgetVars>>

\* Mutant of Commit: the audit row was written outside the transaction's client
\* and did not get through.
CommitUnaudited(c) ==
    /\ stage[c] = "created"
    /\ stage' = [stage EXCEPT ![c] = "committed"]
    /\ usage' = usage + 1 /\ holder' = NoIntake
    /\ staged' = staged \cup {c}
    /\ kept' = [kept EXCEPT ![c] = {"sha256"}]
    /\ UNCHANGED <<objects, widgetVars>>

\* The row keeps the hash, the audit row the object key.
Commit(c) ==
    /\ stage[c] = "created"
    /\ stage' = [stage EXCEPT ![c] = "committed"]
    /\ usage' = usage + (IF holder = c THEN 1 ELSE 0) /\ holder' = NoIntake
    /\ staged' = staged \cup {c}
    /\ kept' = [kept EXCEPT ![c] = {"sha256", "objectKey"}]
    /\ UNCHANGED <<objects, widgetVars>>

\* Any step throws, the PUT with or without effect, the transaction times out
\* or the process dies: everything but the bucket is rolled back.
Abort(c) ==
    /\ stage[c] \in {"metered", "stored", "created"}
    /\ stage' = [stage EXCEPT ![c] = "failed"]
    /\ holder' = NoIntake
    /\ objects' \in {objects} \cup (IF stage[c] = "metered" THEN {objects \cup {c}} ELSE {})
    /\ UNCHANGED <<usage, staged, kept, widgetVars>>

-----------------------------------------------------------------------------
(* The upload widget.                                                      *)

\* onChange of the file input, which stays enabled during an upload.
Pick(f) ==
    /\ f # file
    /\ file' = f /\ done' = FALSE
    /\ switched' = (switched \/ uploading # NoFile)
    /\ UNCHANGED <<intakeVars, objects, uploading, result>>

\* onUpload.
StartUpload ==
    /\ file # NoFile /\ uploading = NoFile
    /\ uploading' = file /\ done' = FALSE /\ switched' = FALSE
    /\ UNCHANGED <<intakeVars, objects, file, result>>

\* Mutant of AcceptUpload: the answer is sent before the PUT is awaited.
AcceptUnawaited ==
    /\ uploading \in Valid /\ result = "none"
    /\ result' = "ok"
    /\ objects' \in {objects, objects \cup {uploading}}
    /\ UNCHANGED <<intakeVars, file, uploading, done, switched>>

\* POST /api/upload: size, declared type and content are right; stored.
AcceptUpload ==
    /\ uploading \in Valid /\ result = "none"
    /\ result' = "ok"
    /\ objects' = objects \cup {uploading}
    /\ UNCHANGED <<intakeVars, file, uploading, done, switched>>

\* 400, 413 or 415 before anything is stored; a key that is not configured or a
\* PUT that fails, with or without effect; or the answer is lost.
RejectUpload ==
    /\ uploading # NoFile /\ result = "none"
    /\ result' = "error"
    /\ objects' \in {objects} \cup (IF uploading \in Valid THEN {objects \cup {uploading}} ELSE {})
    /\ UNCHANGED <<intakeVars, file, uploading, done, switched>>

\* The answer reaches the widget.
ShowResult ==
    /\ result # "none"
    /\ done' = (result = "ok")
    /\ uploading' = NoFile /\ result' = "none"
    /\ UNCHANGED <<intakeVars, objects, file, switched>>

IntakeStep(c) == Consume(c) \/ Exceeded(c) \/ Store(c) \/ CreateRows(c) \/ Commit(c) \/ Abort(c)

WidgetNext ==
    \/ \E f \in Files : Pick(f)
    \/ StartUpload \/ AcceptUpload \/ RejectUpload \/ ShowResult

DocNext == WidgetNext \/ \E c \in Intakes : IntakeStep(c)

-----------------------------------------------------------------------------
\* A row staged by createServiceRequest has its document in the bucket and its
\* hash and object key on record, and the meter counts these rows and nothing
\* else, whatever was rolled back in between.
StagingIsWhole ==
    /\ usage = Cardinality(staged) /\ usage <= Quota
    /\ staged \subseteq objects
    /\ \A c \in Intakes : kept[c] = IF c \in staged THEN {"sha256", "objectKey"} ELSE {}

\* "Document uploaded and encrypted" is true of the file now chosen, unless it
\* was chosen while another one was under way.
SuccessIsTrue == done /\ ~switched => file \in objects

\* api/upload/route.ts:96, "iv/authTag are key references that the caller
\* (T-205) records alongside the staged service request".
StagedDocumentReadable ==
    \A c \in staged : {"objectKey", "iv", "authTag"} \subseteq kept[c]

=============================================================================
