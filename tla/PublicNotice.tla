---------------------------- MODULE PublicNotice ----------------------------
(***************************************************************************)
(* One public notice: the page /n/<token> that its recipient opens, the    *)
(* first-access record kept of it (lib/noticeAccess.ts), the mails to the  *)
(* owner, and the certificate PDF that a filer downloads                   *)
(* (lib/certificate-store.ts, lib/certificate-pdf.ts).                     *)
(*                                                                         *)
(* Every page request and every download is a process of its own; a step   *)
(* is one database statement or one call of a service.  recordFirstAccess  *)
(* is an interactive transaction: what it writes is staged until it        *)
(* commits, and an insert of the unique NoticeAccess.noticeId waits for    *)
(* the transaction that has staged one.                                    *)
(*                                                                         *)
(* A PDF is who generated it (its footer carries the time) and the facts   *)
(* it shows.                                                               *)
(***************************************************************************)
EXTENDS Integers, FiniteSets

CONSTANTS
    Visits,      \* requests of the notice page
    Downloads,   \* requests of the certificate
    ProofFacts,  \* what the worker adds to the row: on-chain proof, Hedera record
    Viewed,      \* the fact that the addendum adds
    NoPdf,       \* no certificate
    MaxFaults    \* bound on crashes, aborted transactions and failed inserts

Facts == ProofFacts \cup {Viewed}
Pdfs == [by : Downloads, shows : SUBSET Facts]

ASSUME NoticeAssumption ==
    /\ Viewed \notin ProofFacts
    /\ NoPdf \notin Pdfs
    /\ MaxFaults \in Nat

VARIABLES
    ownerEmail,  \* whether the organization has supplied an address
    proof,       \* the proof columns of the ServiceRequest row that are set
    rows,        \* committed rows of the notice: "access", "addendum"
    audits,      \* committed NOTICE_FIRST_ACCESSED audit rows
    staged,      \* per visit, what its open transaction has written
    visit,       \* per visit, where the page request stands
    alert,       \* per visit, where its detached sendFirstAccessAlert stands
    emails,      \* mails of sendFirstAccessEmail that were accepted
    certificate, \* the CertificatePdf row
    download,    \* per download, where the request stands
    pdf,         \* per download, the PDF it holds or has answered with
    faults       \* faults so far

rowVars == <<ownerEmail, proof, rows, audits>>
visitVars == <<staged, visit, alert, emails>>
downloadVars == <<certificate, download, pdf>>
vars == <<rowVars, visitVars, downloadVars, faults>>

RowKinds == {"access", "addendum"}

\* Stages of recordFirstAccess inside its transaction, in order.
InTransaction == {"absent", "created", "addended", "audited"}
VisitStages == {"idle", "found", "emailing", "rendering", "served", "refused", "lost"}
                  \cup InTransaction
DownloadStages == {"idle", "generating", "storing", "rereading", "answered", "refused"}

TypeOK ==
    /\ ownerEmail \in BOOLEAN
    /\ proof \subseteq ProofFacts
    /\ rows \subseteq RowKinds
    /\ audits \in Nat
    /\ staged \in [Visits -> SUBSET (RowKinds \cup {"audit"})]
    /\ visit \in [Visits -> VisitStages]
    /\ alert \in [Visits -> {"none", "pending", "sent", "dropped"}]
    /\ emails \in Nat
    /\ certificate \in Pdfs \cup {NoPdf}
    /\ download \in [Downloads -> DownloadStages]
    /\ pdf \in [Downloads -> Pdfs \cup {NoPdf}]
    /\ faults \in 0..MaxFaults

Init ==
    /\ ownerEmail \in BOOLEAN
    /\ proof = {}
    /\ rows = {}
    /\ audits = 0
    /\ staged = [v \in Visits |-> {}]
    /\ visit = [v \in Visits |-> "idle"]
    /\ alert = [v \in Visits |-> "none"]
    /\ emails = 0
    /\ certificate = NoPdf
    /\ download = [d \in Downloads |-> "idle"]
    /\ pdf = [d \in Downloads |-> NoPdf]
    /\ faults = 0

\* What a certificate generated now would show: the committed columns and addendum.
Shown == proof \cup (IF "addendum" \in rows THEN {Viewed} ELSE {})

\* The worker or a Hedera recording fills in a proof column.
RecordProof(f) ==
    /\ f \notin proof
    /\ proof' = proof \cup {f}
    /\ UNCHANGED <<ownerEmail, rows, audits, visitVars, downloadVars, faults>>

-----------------------------------------------------------------------------
(* The notice page.                                                        *)

GoTo(v, from, to) ==
    /\ visit[v] = from
    /\ visit' = [visit EXCEPT ![v] = to]

\* The limiter admits the request and loadNotice finds the row.
LoadNotice(v) ==
    /\ GoTo(v, "idle", "found")
    /\ UNCHANGED <<rowVars, staged, alert, emails, downloadVars, faults>>

\* The limiter refuses it (429), the token is unknown (404) or the lookup throws.
TurnAway(v) ==
    /\ GoTo(v, "idle", "refused")
    /\ UNCHANGED <<rowVars, staged, alert, emails, downloadVars, faults>>

\* Mutant of FindService: a repeated view is taken for a first one by the page.
FindServiceEmailing(v) ==
    /\ GoTo(v, "found", IF "access" \notin rows THEN "absent"
                        ELSE IF ownerEmail THEN "emailing" ELSE "rendering")
    /\ UNCHANGED <<rowVars, staged, alert, emails, downloadVars, faults>>

\* First statement of the transaction: is there an access row already?
FindService(v) ==
    /\ GoTo(v, "found", IF "access" \in rows THEN "rendering" ELSE "absent")
    /\ UNCHANGED <<rowVars, staged, alert, emails, downloadVars, faults>>

\* Mutant of CreateAccess: the page does not catch the unique violation.
CreateAccessRethrown(v) ==
    /\ visit[v] = "absent"
    /\ \A w \in Visits : "access" \notin staged[w]
    /\ \/ /\ "access" \notin rows
          /\ GoTo(v, "absent", "created")
          /\ staged' = [staged EXCEPT ![v] = @ \cup {"access"}]
       \/ /\ "access" \in rows
          /\ GoTo(v, "absent", "refused")
          /\ staged' = [staged EXCEPT ![v] = {}]
    /\ UNCHANGED <<rowVars, alert, emails, downloadVars, faults>>

\* noticeAccess.create.  noticeId is unique: the insert waits for another
\* transaction that has staged one, and fails once one is committed.
CreateAccess(v) ==
    /\ visit[v] = "absent"
    /\ \A w \in Visits : "access" \notin staged[w]
    /\ \/ /\ "access" \notin rows
          /\ GoTo(v, "absent", "created")
          /\ staged' = [staged EXCEPT ![v] = @ \cup {"access"}]
       \/ /\ "access" \in rows
          /\ GoTo(v, "absent", "rendering")
          /\ staged' = [staged EXCEPT ![v] = {}]
    /\ UNCHANGED <<rowVars, alert, emails, downloadVars, faults>>

\* Mutant of WriteFirstViewedAddendum: the shared client in place of tx.
WriteAddendumOutside(v) ==
    /\ GoTo(v, "created", "addended")
    /\ rows' = rows \cup {"addendum"}
    /\ UNCHANGED <<ownerEmail, proof, audits, staged, alert, emails, downloadVars, faults>>

\* writeFirstViewedAddendum, on the transaction's own client.
WriteFirstViewedAddendum(v) ==
    /\ GoTo(v, "created", "addended")
    /\ staged' = [staged EXCEPT ![v] = @ \cup {"addendum"}]
    /\ UNCHANGED <<rowVars, alert, emails, downloadVars, faults>>

\* auditLog.create, then the alert is started and not awaited.
WriteAudit(v) ==
    /\ GoTo(v, "addended", "audited")
    /\ staged' = [staged EXCEPT ![v] = @ \cup {"audit"}]
    /\ alert' = [alert EXCEPT ![v] = "pending"]
    /\ UNCHANGED <<rowVars, emails, downloadVars, faults>>

\* The transaction commits; the page goes on to mail the owner, if there is one.
CommitAccess(v) ==
    /\ GoTo(v, "audited", IF ownerEmail THEN "emailing" ELSE "rendering")
    /\ rows' = rows \cup (staged[v] \ {"audit"})
    /\ audits' = audits + Cardinality(staged[v] \cap {"audit"})
    /\ staged' = [staged EXCEPT ![v] = {}]
    /\ UNCHANGED <<ownerEmail, proof, alert, emails, downloadVars, faults>>

\* sendFirstAccessEmail: skipped without an API key, refused, or accepted.
SendFirstAccessEmail(v) ==
    /\ GoTo(v, "emailing", "rendering")
    /\ emails' \in {emails, emails + 1}
    /\ UNCHANGED <<rowVars, staged, alert, downloadVars, faults>>

RenderCoverSheet(v) ==
    /\ GoTo(v, "rendering", "served")
    /\ UNCHANGED <<rowVars, staged, alert, emails, downloadVars, faults>>

\* The detached sendFirstAccessAlert: nobody to alert, a failure that is only
\* logged, the end of the process, or a mail.
SendFirstAccessAlert(v) ==
    /\ alert[v] = "pending"
    /\ \/ ownerEmail /\ alert' = [alert EXCEPT ![v] = "sent"]
       \/ alert' = [alert EXCEPT ![v] = "dropped"]
    /\ UNCHANGED <<rowVars, staged, visit, emails, downloadVars, faults>>

Fault ==
    /\ faults < MaxFaults
    /\ faults' = faults + 1

\* A statement, the commit or the transaction's time limit fails: everything
\* staged is rolled back and the page swallows the error.
AbortAccess(v) ==
    /\ Fault
    /\ visit[v] \in InTransaction
    /\ visit' = [visit EXCEPT ![v] = "rendering"]
    /\ staged' = [staged EXCEPT ![v] = {}]
    /\ UNCHANGED <<rowVars, alert, emails, downloadVars>>

\* The process dies: the server rolls its transaction back, the page is lost.
CrashVisit(v) ==
    /\ Fault
    /\ visit[v] \in InTransaction \cup {"found", "emailing", "rendering"}
    /\ visit' = [visit EXCEPT ![v] = "lost"]
    /\ staged' = [staged EXCEPT ![v] = {}]
    /\ UNCHANGED <<rowVars, alert, emails, downloadVars>>

-----------------------------------------------------------------------------
(* GET /api/certificate/:noticeId and getOrCreateCertificatePdf.           *)

Answer(d, bytes) ==
    /\ download' = [download EXCEPT ![d] = "answered"]
    /\ pdf' = [pdf EXCEPT ![d] = bytes]

\* 429, 401, or a query that throws and is answered 404.
RefuseDownload(d) ==
    /\ download[d] \in {"idle", "generating", "rereading"}
    /\ download' = [download EXCEPT ![d] = "refused"]
    /\ UNCHANGED <<rowVars, visitVars, certificate, pdf, faults>>

\* The stored certificate is the answer, if there is one.
FindCertificate(d) ==
    /\ download[d] = "idle"
    /\ \/ certificate # NoPdf /\ Answer(d, certificate)
       \/ /\ certificate = NoPdf
          /\ download' = [download EXCEPT ![d] = "generating"]
          /\ UNCHANGED pdf
    /\ UNCHANGED <<rowVars, visitVars, certificate, faults>>

\* The PDF shows what is committed now.
GenerateCertificatePdf(d) ==
    /\ download[d] = "generating"
    /\ download' = [download EXCEPT ![d] = "storing"]
    /\ pdf' = [pdf EXCEPT ![d] = [by |-> d, shows |-> Shown]]
    /\ UNCHANGED <<rowVars, visitVars, certificate, faults>>

\* Mutant of StoreCertificate: an upsert.
UpsertCertificate(d) ==
    /\ download[d] = "storing"
    /\ certificate' = pdf[d]
    /\ Answer(d, pdf[d])
    /\ UNCHANGED <<rowVars, visitVars, faults>>

\* certificatePdf.create, or the unique violation of a later generator.
StoreCertificate(d) ==
    /\ download[d] = "storing"
    /\ \/ /\ certificate = NoPdf
          /\ certificate' = pdf[d]
          /\ Answer(d, pdf[d])
       \/ /\ certificate # NoPdf
          /\ download' = [download EXCEPT ![d] = "rereading"]
          /\ UNCHANGED <<certificate, pdf>>
    /\ UNCHANGED <<rowVars, visitVars, faults>>

\* The insert fails for another reason: the catch does not tell them apart.
StoreFails(d) ==
    /\ Fault
    /\ download[d] = "storing"
    /\ download' = [download EXCEPT ![d] = "rereading"]
    /\ UNCHANGED <<rowVars, visitVars, certificate, pdf>>

\* Mutant of RereadCertificate: the loser answers with its own bytes.
AnswerOwnBytes(d) ==
    /\ download[d] = "rereading"
    /\ Answer(d, pdf[d])
    /\ UNCHANGED <<rowVars, visitVars, certificate, faults>>

\* The winner's row if there is one, this generator's own bytes otherwise.
RereadCertificate(d) ==
    /\ download[d] = "rereading"
    /\ Answer(d, IF certificate # NoPdf THEN certificate ELSE pdf[d])
    /\ UNCHANGED <<rowVars, visitVars, certificate, faults>>

-----------------------------------------------------------------------------
VisitStep(v) ==
    \/ FindService(v) \/ CreateAccess(v) \/ WriteFirstViewedAddendum(v)
    \/ WriteAudit(v) \/ CommitAccess(v) \/ SendFirstAccessEmail(v)
    \/ RenderCoverSheet(v)

VisitNext(v) ==
    \/ VisitStep(v) \/ LoadNotice(v) \/ TurnAway(v) \/ SendFirstAccessAlert(v)
    \/ AbortAccess(v) \/ CrashVisit(v)

DownloadNext(d) ==
    \/ RefuseDownload(d) \/ FindCertificate(d) \/ GenerateCertificatePdf(d)
    \/ StoreCertificate(d) \/ StoreFails(d) \/ RereadCertificate(d)

Next ==
    \/ \E f \in ProofFacts : RecordProof(f)
    \/ \E v \in Visits : VisitNext(v)
    \/ \E d \in Downloads : DownloadNext(d)

Spec == Init /\ [][Next]_vars

\* The runtime goes on with a request it has admitted; a lock is held only by
\* a transaction that goes on too.
FairSpec == Spec /\ \A v \in Visits : WF_vars(VisitStep(v))

-----------------------------------------------------------------------------
(* Properties.                                                             *)

\* The access row, the certificate addendum and one audit row are there
\* together or not at all, whoever raced for the first view and whatever
\* aborted (lib/noticeAccess.ts: "all in ONE transaction", idempotent).
AccessRecordedWhole ==
    /\ rows \in {{}, RowKinds}
    /\ audits = (IF rows = {} THEN 0 ELSE 1)

\* A first view costs the owner two mails, one per channel: page.tsx:173 mails
\* on isFirstAccess, after the commit, and noticeAccess.ts:111 starts an alert
\* before it.  So the owner gets at most two per recorded view, whoever races
\* for it; one more takes a transaction that was aborted after its alert was
\* started, or that is about to commit.
OwnerMailsBounded ==
    /\ emails <= audits
    /\ emails + Cardinality({v \in Visits : alert[v] = "sent"})
           <= 2 * audits + faults + Cardinality({v \in Visits : visit[v] = "audited"})

\* Two answers that differ from the stored certificate take as many failed
\* inserts (getOrCreateCertificatePdf: the loser of a race answers with the
\* winner's bytes).
AnswersAgree ==
    Cardinality({d \in Downloads : download[d] = "answered" /\ pdf[d] # certificate})
        <= faults

\* The bytes handed out as the certificate are never replaced in the table.
CertificateWrittenOnce ==
    [][certificate # NoPdf => certificate' = certificate]_vars

\* Once the notice is found the recipient sees it, whatever happens to the
\* recording and the mails, unless the process itself dies (page.tsx: "a
\* logging/email failure must never stop the recipient seeing the notice").
TrackingNeverBlocksView ==
    \A v \in Visits : visit[v] = "found" ~> visit[v] \in {"served", "lost"}

=============================================================================
