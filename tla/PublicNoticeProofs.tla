------------------------- MODULE PublicNoticeProofs -------------------------
(***************************************************************************)
(* The first-access record is whole and unique, the owner gets two mails   *)
(* about it but for faults, and the answers of the certificate agree but   *)
(* for faults: for every number of page requests and downloads, every set  *)
(* of proof facts and any faults.                                          *)
(***************************************************************************)
EXTENDS PublicNotice, FiniteSetTheorems, TLAPS

\* What a transaction has staged by each stage.
StagedAt(stage) ==
    CASE stage = "created" -> {"access"}
      [] stage = "addended" -> {"access", "addendum"}
      [] stage = "audited" -> {"access", "addendum", "audit"}
      [] OTHER -> {}

Writing == {"created", "addended", "audited"}

\* A transaction that has staged the access row is the only one, and nothing
\* is committed yet: the unique insert has waited for the others.
OneWriter ==
    \A v \in Visits : visit[v] \in Writing =>
        /\ rows = {}
        /\ \A w \in Visits : visit[w] \in Writing => w = v

RecordTypes ==
    /\ visit \in [Visits -> VisitStages]
    /\ staged \in [Visits -> SUBSET (RowKinds \cup {"audit"})]
    /\ audits \in Nat

RecordInv ==
    /\ RecordTypes
    /\ \A v \in Visits : staged[v] = StagedAt(visit[v])
    /\ OneWriter
    /\ AccessRecordedWhole

CertificateInv ==
    /\ certificate \in Pdfs \cup {NoPdf}
    /\ pdf \in [Downloads -> Pdfs \cup {NoPdf}]
    /\ \A d \in Downloads : download[d] = "storing" => pdf[d] # NoPdf
    /\ download \in [Downloads -> DownloadStages]
    /\ proof \subseteq ProofFacts

\* Both invariants hold at the start.
LEMMA NoticeInit ==
  ASSUME Init
  PROVE  RecordInv /\ CertificateInv
BY DEF Init, RecordInv, RecordTypes, VisitStages, OneWriter, Writing, StagedAt,
       AccessRecordedWhole, CertificateInv, DownloadStages

\* Everything that a step of the page can do to the record.
LEMMA RecordStep ==
  ASSUME RecordInv, NEW v \in Visits, VisitNext(v)
  PROVE  RecordInv'
<1> USE DEF RecordInv, RecordTypes, VisitStages, InTransaction, RowKinds
<1>1. CASE FindService(v)
  BY <1>1 DEF FindService, GoTo, rowVars, OneWriter, Writing, StagedAt, AccessRecordedWhole
<1>2. CASE CreateAccess(v)
  <2>1. RecordTypes'
    BY <1>2 DEF CreateAccess, GoTo, rowVars
  <2>2. \A w \in Visits : visit[w] \notin Writing
    BY <1>2 DEF CreateAccess, StagedAt, Writing
  <2>3. (\A w \in Visits : staged[w] = StagedAt(visit[w]))'
    BY <1>2 DEF CreateAccess, GoTo, StagedAt
  <2>4. OneWriter'
    BY <1>2, <2>2 DEF CreateAccess, GoTo, rowVars, OneWriter, Writing, AccessRecordedWhole
  <2> QED
    BY <1>2, <2>1, <2>3, <2>4 DEF CreateAccess, rowVars, AccessRecordedWhole
<1>3. CASE WriteFirstViewedAddendum(v)
  <2>1. RecordTypes' /\ AccessRecordedWhole'
    BY <1>3 DEF WriteFirstViewedAddendum, GoTo, rowVars, AccessRecordedWhole
  <2>2. (\A w \in Visits : staged[w] = StagedAt(visit[w]))'
    BY <1>3 DEF WriteFirstViewedAddendum, GoTo, StagedAt
  <2>3. OneWriter'
    BY <1>3 DEF WriteFirstViewedAddendum, GoTo, rowVars, OneWriter, Writing
  <2> QED
    BY <2>1, <2>2, <2>3
<1>4. CASE WriteAudit(v)
  <2>1. RecordTypes' /\ AccessRecordedWhole'
    BY <1>4 DEF WriteAudit, GoTo, rowVars, AccessRecordedWhole
  <2>2. (\A w \in Visits : staged[w] = StagedAt(visit[w]))'
    BY <1>4 DEF WriteAudit, GoTo, StagedAt
  <2>3. OneWriter'
    BY <1>4 DEF WriteAudit, GoTo, rowVars, OneWriter, Writing
  <2> QED
    BY <2>1, <2>2, <2>3
<1>5. CASE CommitAccess(v)
  <2>1. rows = {} /\ audits = 0 /\ staged[v] = {"access", "addendum", "audit"}
    BY <1>5 DEF CommitAccess, GoTo, OneWriter, Writing, AccessRecordedWhole, StagedAt
  <2>2. Cardinality(staged[v] \cap {"audit"}) = 1
    <3>1. staged[v] \cap {"audit"} = {"audit"}
      BY <2>1
    <3> QED
      BY <3>1, FS_Singleton
  <2>3. rows' = {"access", "addendum"} /\ audits' = 1
    BY <1>5, <2>1, <2>2 DEF CommitAccess
  <2>4. /\ visit' = [visit EXCEPT ![v] = IF ownerEmail THEN "emailing" ELSE "rendering"]
        /\ staged' = [staged EXCEPT ![v] = {}]
    BY <1>5 DEF CommitAccess, GoTo
  <2>5. visit[v] \in Writing
    BY <1>5 DEF CommitAccess, GoTo, Writing
  <2>6. \A w \in Visits : visit'[w] \notin Writing
    BY <2>4, <2>5 DEF OneWriter, Writing
  <2> QED
    BY <2>3, <2>4, <2>6 DEF OneWriter, AccessRecordedWhole, StagedAt
<1>6. CASE AbortAccess(v) \/ CrashVisit(v)
  <2>1. PICK s \in {"rendering", "lost"} :
            /\ visit' = [visit EXCEPT ![v] = s]
            /\ staged' = [staged EXCEPT ![v] = {}]
            /\ rows' = rows /\ audits' = audits
    BY <1>6 DEF AbortAccess, CrashVisit, rowVars
  <2> QED
    BY <2>1 DEF OneWriter, Writing, StagedAt, AccessRecordedWhole
<1>7. CASE LoadNotice(v) \/ TurnAway(v) \/ SendFirstAccessEmail(v) \/ RenderCoverSheet(v)
  <2>1. PICK s \in {"found", "refused", "rendering", "served"} :
            /\ visit' = [visit EXCEPT ![v] = s]
            /\ visit[v] \notin Writing
            /\ staged' = staged /\ rows' = rows /\ audits' = audits
    BY <1>7 DEF LoadNotice, TurnAway, SendFirstAccessEmail, RenderCoverSheet, GoTo, rowVars, Writing
  <2> QED
    BY <2>1 DEF OneWriter, Writing, StagedAt, AccessRecordedWhole
<1>8. CASE SendFirstAccessAlert(v)
  BY <1>8 DEF SendFirstAccessAlert, rowVars, OneWriter, Writing, StagedAt, AccessRecordedWhole
<1> QED
  BY <1>1, <1>2, <1>3, <1>4, <1>5, <1>6, <1>7, <1>8 DEF VisitNext, VisitStep

\* The worker, the downloads and stutters leave the record alone.
LEMMA RecordUntouched ==
  ASSUME RecordInv, visit' = visit, staged' = staged, rows' = rows, audits' = audits
  PROVE  RecordInv'
BY DEF RecordInv, RecordTypes, OneWriter, Writing, StagedAt, AccessRecordedWhole

\* Every step of PublicNotice keeps it.
LEMMA RecordInductive ==
  ASSUME RecordInv, [Next]_vars
  PROVE  RecordInv'
<1>1. CASE \E v \in Visits : VisitNext(v)
  BY <1>1, RecordStep
<1>2. CASE \E f \in ProofFacts : RecordProof(f)
  BY <1>2, RecordUntouched DEF RecordProof, visitVars
<1>3. CASE \E d \in Downloads : DownloadNext(d)
  BY <1>3, RecordUntouched DEF DownloadNext, RefuseDownload, FindCertificate,
     GenerateCertificatePdf, StoreCertificate, StoreFails, RereadCertificate, rowVars, visitVars
<1>4. CASE UNCHANGED vars
  BY <1>4, RecordUntouched DEF vars, rowVars, visitVars
<1> QED
  BY <1>1, <1>2, <1>3, <1>4 DEF Next

\* One access row, one addendum and one audit row, or none of them: whoever
\* races for the first view, and whatever aborts (recordFirstAccess).
THEOREM RecordWhole == Spec => []AccessRecordedWhole
<1>1. RecordInv => AccessRecordedWhole
  BY DEF RecordInv
<1> QED
  BY <1>1, NoticeInit, RecordInductive, PTL DEF Spec

-----------------------------------------------------------------------------
(* Certificates.                                                           *)

\* A download holds and stores a certificate or none.
LEMMA CertificateStep ==
  ASSUME CertificateInv, NEW d \in Downloads, DownloadNext(d)
  PROVE  CertificateInv'
<1> USE DEF CertificateInv, DownloadStages
<1>p. proof' = proof
  BY DEF DownloadNext, RefuseDownload, FindCertificate, GenerateCertificatePdf,
     StoreCertificate, StoreFails, RereadCertificate, rowVars
<1>1. CASE RefuseDownload(d) \/ StoreFails(d)
  BY <1>1, <1>p DEF RefuseDownload, StoreFails
<1>2. CASE FindCertificate(d)
  BY <1>2, <1>p DEF FindCertificate, Answer
<1>3. CASE GenerateCertificatePdf(d)
  <2> DEFINE made == [by |-> d, shows |-> Shown]
  <2>1. made \in Pdfs /\ made # NoPdf
    BY NoticeAssumption DEF Pdfs, Facts, Shown
  <2>2. /\ download' = [download EXCEPT ![d] = "storing"]
        /\ pdf' = [pdf EXCEPT ![d] = made] /\ certificate' = certificate
    BY <1>3 DEF GenerateCertificatePdf
  <2> HIDE DEF made
  <2> QED
    BY <1>p, <2>1, <2>2
<1>4. CASE StoreCertificate(d)
  BY <1>4, <1>p DEF StoreCertificate, Answer
<1>5. CASE RereadCertificate(d)
  BY <1>5, <1>p DEF RereadCertificate, Answer
<1> QED
  BY <1>1, <1>2, <1>3, <1>4, <1>5 DEF DownloadNext

\* Every step keeps that.
LEMMA CertificateInductive ==
  ASSUME CertificateInv, [Next]_vars
  PROVE  CertificateInv'
<1>1. CASE \E d \in Downloads : DownloadNext(d)
  BY <1>1, CertificateStep
<1>2. CASE (\E v \in Visits : VisitNext(v)) \/ UNCHANGED vars
  <2>1. UNCHANGED downloadVars /\ proof' = proof
    BY <1>2 DEF vars, rowVars, VisitNext, VisitStep, FindService, CreateAccess,
       WriteFirstViewedAddendum, WriteAudit, CommitAccess, SendFirstAccessEmail,
       RenderCoverSheet, LoadNotice, TurnAway, SendFirstAccessAlert, AbortAccess, CrashVisit
  <2> QED
    BY <2>1 DEF CertificateInv, downloadVars
<1>3. CASE \E f \in ProofFacts : RecordProof(f)
  BY <1>3 DEF RecordProof, CertificateInv, downloadVars
<1> QED
  BY <1>1, <1>2, <1>3 DEF Next

\* The stored certificate is never replaced: getOrCreateCertificatePdf only
\* inserts.
THEOREM CertificateKept == Spec => CertificateWrittenOnce
<1>1. ASSUME [Next]_vars
      PROVE  [certificate # NoPdf => certificate' = certificate]_vars
  <2>1. CASE \E d \in Downloads : DownloadNext(d)
    BY <2>1 DEF DownloadNext, RefuseDownload, FindCertificate, GenerateCertificatePdf,
       StoreCertificate, StoreFails, RereadCertificate
  <2>2. CASE (\E v \in Visits : VisitNext(v)) \/ (\E f \in ProofFacts : RecordProof(f))
    BY <2>2 DEF downloadVars, RecordProof, VisitNext, VisitStep, FindService, CreateAccess,
       WriteFirstViewedAddendum, WriteAudit, CommitAccess, SendFirstAccessEmail,
       RenderCoverSheet, LoadNotice, TurnAway, SendFirstAccessAlert, AbortAccess, CrashVisit
  <2> QED
    BY <1>1, <2>1, <2>2 DEF Next
<1> QED
  BY <1>1, PTL DEF Spec, CertificateWrittenOnce

-----------------------------------------------------------------------------
(* What faults may cost.                                                   *)

\* A set that gains at most one element when a count goes up stays within it.
LEMMA OneMorePaid ==
  ASSUME NEW S, NEW T, IsFiniteSet(S), NEW n \in Nat, NEW m \in Nat, Cardinality(S) <= n,
         \/ T \subseteq S /\ m >= n
         \/ m = n + 1 /\ \E x : T \subseteq S \cup {x}
  PROVE  IsFiniteSet(T) /\ Cardinality(T) <= m
<1>0. Cardinality(S) \in Nat
  BY FS_CardinalityType
<1>1. CASE T \subseteq S /\ m >= n
  <2>1. IsFiniteSet(T) /\ Cardinality(T) <= Cardinality(S)
    BY <1>1, FS_Subset
  <2> QED
    BY <1>0, <1>1, <2>1, FS_CardinalityType
<1>2. ASSUME NEW x, T \subseteq S \cup {x}, m = n + 1
      PROVE  IsFiniteSet(T) /\ Cardinality(T) <= m
  <2>1. IsFiniteSet(S \cup {x}) /\ Cardinality(S \cup {x}) <= Cardinality(S) + 1
    BY <1>0, FS_AddElement
  <2>2. IsFiniteSet(T) /\ Cardinality(T) <= Cardinality(S \cup {x})
    BY <1>2, <2>1, FS_Subset
  <2> QED
    BY <1>0, <1>2, <2>1, <2>2, FS_CardinalityType
<1> QED
  BY <1>1, <1>2

\* Downloads answered, or about to be, with bytes that are not the stored ones.
Dissent ==
    {d \in Downloads : \/ download[d] = "answered" /\ pdf[d] # certificate
                       \/ download[d] = "rereading" /\ certificate = NoPdf}

DissentPaidFor ==
    /\ faults \in Nat
    /\ \A d \in Downloads : download[d] \in {"storing", "rereading", "answered"} => pdf[d] # NoPdf
    /\ IsFiniteSet(Dissent) /\ Cardinality(Dissent) <= faults

\* Only a failed insert adds one.
LEMMA DissentStep ==
  ASSUME NoticeAssumption, CertificateInv, DissentPaidFor, [Next]_vars
  PROVE  DissentPaidFor'
<1>f. /\ faults \in Nat /\ faults' \in {faults, faults + 1}
      /\ download \in [Downloads -> DownloadStages] /\ pdf \in [Downloads -> Pdfs \cup {NoPdf}]
  BY DEF DissentPaidFor, CertificateInv, vars, Next, RecordProof, VisitNext, VisitStep, FindService,
     CreateAccess, WriteFirstViewedAddendum, WriteAudit, CommitAccess, SendFirstAccessEmail,
     RenderCoverSheet, LoadNotice, TurnAway, SendFirstAccessAlert, AbortAccess, CrashVisit, Fault,
     DownloadNext, RefuseDownload, FindCertificate, GenerateCertificatePdf, StoreCertificate,
     StoreFails, RereadCertificate
<1>h. \A d \in Downloads : download[d] \in {"storing", "rereading", "answered"} => pdf[d] # NoPdf
  BY DEF DissentPaidFor
<1>1. CASE UNCHANGED downloadVars
  <2>1. Dissent' = Dissent
    BY <1>1 DEF Dissent, downloadVars
  <2> QED
    BY <1>1, <1>f, <2>1, OneMorePaid DEF DissentPaidFor, downloadVars
<1>2. ASSUME NEW d \in Downloads, DownloadNext(d)
      PROVE  DissentPaidFor'
  <2>1. (\A e \in Downloads : download[e] \in {"storing", "rereading", "answered"} => pdf[e] # NoPdf)'
    <3>1. CASE GenerateCertificatePdf(d)
      <4> DEFINE made == [by |-> d, shows |-> Shown]
      <4>1. made # NoPdf
        BY NoticeAssumption DEF Pdfs, Facts, Shown, CertificateInv
      <4>2. download' = [download EXCEPT ![d] = "storing"] /\ pdf' = [pdf EXCEPT ![d] = made]
        BY <3>1 DEF GenerateCertificatePdf
      <4> HIDE DEF made
      <4> QED
        BY <1>f, <1>h, <4>1, <4>2
    <3>2. CASE RefuseDownload(d) \/ FindCertificate(d) \/ StoreCertificate(d) \/ StoreFails(d)
               \/ RereadCertificate(d)
      BY <1>f, <1>h, <3>2 DEF RefuseDownload, FindCertificate, StoreCertificate, StoreFails,
         RereadCertificate, Answer
    <3> QED
      BY <1>2, <3>1, <3>2 DEF DownloadNext
  <2>2. CASE StoreFails(d)
    <3>1. (\E x : Dissent' \subseteq Dissent \cup {x}) /\ faults' = faults + 1
      BY <1>f, <2>2 DEF StoreFails, Fault, Dissent
    <3>2. IsFiniteSet(Dissent') /\ Cardinality(Dissent') <= faults'
      BY <1>f, <3>1, OneMorePaid DEF DissentPaidFor
    <3> QED
      BY <1>f, <2>1, <3>2 DEF DissentPaidFor
  <2>3. CASE RefuseDownload(d) \/ FindCertificate(d) \/ GenerateCertificatePdf(d) \/ StoreCertificate(d)
             \/ RereadCertificate(d)
    <3>1. faults' = faults
      BY <2>3 DEF RefuseDownload, FindCertificate, GenerateCertificatePdf, StoreCertificate, RereadCertificate
    <3>2. ASSUME NEW e \in Downloads, e # d, e \in Dissent' PROVE e \in Dissent
      BY <1>f, <1>h, <2>3, <3>2 DEF RefuseDownload, FindCertificate, GenerateCertificatePdf,
         StoreCertificate, RereadCertificate, Answer, Dissent
    <3>3. d \in Dissent' => d \in Dissent
      BY <1>f, <1>h, <2>3 DEF RefuseDownload, FindCertificate, GenerateCertificatePdf,
         StoreCertificate, RereadCertificate, Answer, Dissent
    <3>4. Dissent' \subseteq Dissent
      BY <3>2, <3>3 DEF Dissent
    <3> QED
      BY <1>f, <2>1, <3>1, <3>4, OneMorePaid DEF DissentPaidFor
  <2> QED
    BY <1>2, <2>2, <2>3 DEF DownloadNext
<1>3. CASE (\E v \in Visits : VisitNext(v)) \/ (\E f \in ProofFacts : RecordProof(f)) \/ UNCHANGED vars
  <2>1. UNCHANGED downloadVars
    BY <1>3 DEF vars, RecordProof, VisitNext, VisitStep, FindService, CreateAccess,
       WriteFirstViewedAddendum, WriteAudit, CommitAccess, SendFirstAccessEmail,
       RenderCoverSheet, LoadNotice, TurnAway, SendFirstAccessAlert, AbortAccess, CrashVisit
  <2> QED
    BY <1>1, <2>1
<1> QED
  BY <1>2, <1>3 DEF Next

\* Two answers that differ from the stored certificate take as many failed
\* inserts: the loser of a race answers with the winner's bytes.
THEOREM AnswersAgreeButForFaults == Spec => []AnswersAgree
<1>1. Init => DissentPaidFor
  <2> SUFFICES ASSUME Init PROVE DissentPaidFor
    OBVIOUS
  <2>1. Dissent = {} /\ faults = 0
    BY DEF Init, Dissent
  <2> QED
    BY <2>1, FS_EmptySet DEF Init, DissentPaidFor
<1>2. CertificateInv /\ DissentPaidFor /\ [Next]_vars => DissentPaidFor'
  BY DissentStep, NoticeAssumption
<1>3. DissentPaidFor => AnswersAgree
  <2> SUFFICES ASSUME DissentPaidFor PROVE AnswersAgree
    OBVIOUS
  <2> DEFINE T == {d \in Downloads : download[d] = "answered" /\ pdf[d] # certificate}
  <2>1. T \subseteq Dissent
    BY DEF Dissent
  <2>2. Cardinality(T) <= faults
    BY <2>1, OneMorePaid DEF DissentPaidFor
  <2> QED
    BY <2>2 DEF AnswersAgree
<1> QED
  BY <1>1, <1>2, <1>3, NoticeInit, RecordInductive, CertificateInductive, PTL DEF Spec

\* The visits whose alert was started, but for one whose commit is still to come.
Alerted == {v \in Visits : alert[v] # "none" /\ visit[v] # "audited"}

TellInv ==
    /\ faults \in Nat /\ alert \in [Visits -> {"none", "pending", "sent", "dropped"}]
    /\ emails \in Nat /\ emails <= audits
    /\ \A v \in Visits : visit[v] = "emailing" =>
          /\ audits = 1 /\ emails = 0
          /\ \A w \in Visits : visit[w] = "emailing" => w = v
    /\ IsFiniteSet(Alerted) /\ Cardinality(Alerted) <= audits + faults

\* A step of a page that neither commits nor mails.
LEMMA TellQuiet ==
  ASSUME RecordInv, TellInv, NEW v \in Visits, NEW s \in VisitStages, s # "emailing",
         UNCHANGED <<audits, emails>>, \A w \in Visits : w # v => visit'[w] = visit[w],
         alert' \in [Visits -> {"none", "pending", "sent", "dropped"}],
         visit'[v] = s, faults' \in {faults, faults + 1},
         \/ faults' = faults /\ Alerted' \subseteq Alerted
         \/ faults' = faults + 1 /\ Alerted' \subseteq Alerted \cup {v}
  PROVE  TellInv'
<1>0. /\ audits \in Nat /\ faults \in Nat /\ audits' = audits /\ emails' = emails
      /\ visit \in [Visits -> VisitStages] /\ emails \in Nat /\ emails <= audits
  BY DEF RecordInv, RecordTypes, TellInv
<1>1. IsFiniteSet(Alerted') /\ Cardinality(Alerted') <= audits' + faults'
  <2>1. IsFiniteSet(Alerted) /\ Cardinality(Alerted) <= audits + faults
    BY DEF TellInv
  <2>2. CASE faults' = faults /\ Alerted' \subseteq Alerted
    BY <1>0, <2>1, <2>2, OneMorePaid
  <2>3. CASE faults' = faults + 1 /\ Alerted' \subseteq Alerted \cup {v}
    <3>1. audits + faults \in Nat /\ audits' + faults' = (audits + faults) + 1 /\ audits' + faults' \in Nat
      BY <1>0, <2>3
    <3>2. \E x : Alerted' \subseteq Alerted \cup {x}
      BY <2>3
    <3> QED
      BY <2>1, <3>1, <3>2, OneMorePaid
  <2> QED
    BY <2>2, <2>3
<1>2. \A w \in Visits : visit'[w] = "emailing" => visit[w] = "emailing"
  OBVIOUS
<1>3. \A w \in Visits : visit'[w] = "emailing" =>
         /\ audits' = 1 /\ emails' = 0
         /\ \A u \in Visits : visit'[u] = "emailing" => u = w
  BY <1>0, <1>2 DEF TellInv
<1>4. faults' \in Nat /\ emails' \in Nat /\ emails' <= audits'
  BY <1>0
<1> QED
  BY <1>1, <1>3, <1>4 DEF TellInv

\* Only the commit of the one first view makes a page mail, once; an alert whose
\* transaction did not commit was cut short by a fault.
LEMMA TellStep ==
  ASSUME RecordInv, TellInv, [Next]_vars
  PROVE  TellInv'
<1>t. /\ visit \in [Visits -> VisitStages] /\ audits \in Nat /\ faults \in Nat
      /\ alert \in [Visits -> {"none", "pending", "sent", "dropped"}]
      /\ \A v \in Visits : visit[v] \in Writing => rows = {} /\ audits = 0
  BY DEF RecordInv, RecordTypes, OneWriter, AccessRecordedWhole, TellInv
<1>1. ASSUME UNCHANGED <<visit, alert, audits, emails>>, faults' \in {faults, faults + 1}
      PROVE  TellInv'
  <2>1. Alerted' = Alerted
    BY <1>1 DEF Alerted
  <2> QED
    BY <1>1, <1>t, <2>1, OneMorePaid DEF TellInv
<1>2. ASSUME NEW v \in Visits, VisitNext(v)
      PROVE  TellInv'
  <2>1. CASE CommitAccess(v)
    <3>1. /\ visit[v] = "audited" /\ UNCHANGED <<alert, emails, faults>> /\ staged[v] = {"access", "addendum", "audit"}
          /\ visit' = [visit EXCEPT ![v] = IF ownerEmail THEN "emailing" ELSE "rendering"]
      BY <2>1 DEF CommitAccess, GoTo, RecordInv, StagedAt
    <3>2. audits = 0 /\ audits' = 1
      <4>1. staged[v] \cap {"audit"} = {"audit"}
        BY <3>1
      <4>2. Cardinality(staged[v] \cap {"audit"}) = 1
        BY <4>1, FS_Singleton
      <4> QED
        BY <1>t, <2>1, <3>1, <4>2 DEF CommitAccess, Writing
    <3>3. emails = 0 /\ \A w \in Visits : visit[w] # "emailing"
      BY <3>2 DEF TellInv
    <3>4. \A w \in Visits : visit'[w] = "emailing" => w = v
      BY <1>t, <3>1, <3>3
    <3>5. \E x : Alerted' \subseteq Alerted \cup {x}
      BY <1>t, <3>1 DEF Alerted
    <3>6. IsFiniteSet(Alerted') /\ Cardinality(Alerted') <= audits' + faults'
      <4>1. audits + faults \in Nat /\ audits' + faults' = audits + faults + 1 /\ audits' + faults' \in Nat
        BY <1>t, <3>1, <3>2
      <4> QED
        BY <3>5, <4>1, OneMorePaid DEF TellInv
    <3> QED
      BY <1>t, <3>1, <3>2, <3>3, <3>4, <3>6 DEF TellInv
  <2>2. CASE SendFirstAccessEmail(v)
    <3>1. /\ visit[v] = "emailing" /\ visit' = [visit EXCEPT ![v] = "rendering"]
          /\ emails' \in {emails, emails + 1} /\ UNCHANGED <<alert, audits, faults>>
      BY <2>2 DEF SendFirstAccessEmail, GoTo, rowVars
    <3>2. audits = 1 /\ emails = 0 /\ \A w \in Visits : visit'[w] # "emailing"
      BY <1>t, <3>1 DEF TellInv
    <3>3. Alerted' = Alerted
      BY <1>t, <3>1 DEF Alerted
    <3> QED
      BY <1>t, <3>1, <3>2, <3>3 DEF TellInv
  <2>3. CASE AbortAccess(v) \/ CrashVisit(v)
    <3>1. PICK s \in {"rendering", "lost"} :
            visit' = [visit EXCEPT ![v] = s] /\ UNCHANGED <<alert, audits, emails>> /\ faults' = faults + 1
      BY <2>3 DEF AbortAccess, CrashVisit, Fault, rowVars
    <3>2. Alerted' \subseteq Alerted \cup {v}
      BY <1>t, <3>1 DEF Alerted
    <3> QED
      BY <1>t, <3>1, <3>2, TellQuiet DEF VisitStages
  <2>4. CASE \/ FindService(v) \/ CreateAccess(v) \/ WriteFirstViewedAddendum(v) \/ RenderCoverSheet(v)
             \/ LoadNotice(v) \/ TurnAway(v)
    <3>1. PICK s \in VisitStages \ {"emailing", "audited"} :
            /\ visit' = [visit EXCEPT ![v] = s] /\ visit[v] # "audited"
            /\ UNCHANGED <<alert, audits, emails, faults>>
      BY <2>4 DEF FindService, CreateAccess, WriteFirstViewedAddendum, RenderCoverSheet, LoadNotice, TurnAway,
         GoTo, rowVars, VisitStages, InTransaction
    <3>2. Alerted' \subseteq Alerted
      BY <1>t, <3>1 DEF Alerted
    <3> QED
      BY <1>t, <3>1, <3>2, TellQuiet
  <2>5. CASE WriteAudit(v)
    <3>1. /\ visit' = [visit EXCEPT ![v] = "audited"] /\ alert' = [alert EXCEPT ![v] = "pending"]
          /\ UNCHANGED <<audits, emails, faults>>
      BY <2>5 DEF WriteAudit, GoTo, rowVars
    <3>2. \A w \in Visits : w # v => visit'[w] = visit[w] /\ (alert'[w] # "none" => alert[w] # "none")
      BY <1>t, <3>1
    <3>3. Alerted' \subseteq Alerted
      BY <1>t, <3>1, <3>2 DEF Alerted
    <3> QED
      BY <1>t, <3>1, <3>3, TellQuiet DEF VisitStages, InTransaction
  <2>6. CASE SendFirstAccessAlert(v)
    <3>1. /\ UNCHANGED <<visit, audits, emails, faults>>
          /\ alert' \in [Visits -> {"none", "pending", "sent", "dropped"}]
          /\ \A w \in Visits : alert'[w] # "none" => alert[w] # "none"
      BY <1>t, <2>6 DEF SendFirstAccessAlert, rowVars
    <3>2. Alerted' \subseteq Alerted
      BY <3>1 DEF Alerted
    <3>3. IsFiniteSet(Alerted') /\ Cardinality(Alerted') <= audits' + faults'
      BY <1>t, <3>1, <3>2, OneMorePaid DEF TellInv
    <3>4. \A w \in Visits : visit'[w] = "emailing" => visit[w] = "emailing" /\ audits' = 1 /\ emails' = 0
      BY <3>1 DEF TellInv
    <3> QED
      BY <3>1, <3>3, <3>4 DEF TellInv
  <2> QED
    BY <1>2, <2>1, <2>2, <2>3, <2>4, <2>5, <2>6 DEF VisitNext, VisitStep
<1>3. ASSUME NEW d \in Downloads, DownloadNext(d)
      PROVE  TellInv'
  <2>1. UNCHANGED <<visit, alert, audits, emails>> /\ faults' \in {faults, faults + 1}
    BY <1>3 DEF DownloadNext, RefuseDownload, FindCertificate, GenerateCertificatePdf, StoreCertificate,
       StoreFails, RereadCertificate, Fault, rowVars, visitVars
  <2> QED
    BY <1>1, <2>1
<1>4. CASE (\E f \in ProofFacts : RecordProof(f)) \/ UNCHANGED vars
  BY <1>1, <1>4 DEF RecordProof, vars, rowVars, visitVars
<1> QED
  BY <1>2, <1>3, <1>4 DEF Next

\* The alerts that went out are of visits already counted, or of the one whose
\* transaction is about to commit.
LEMMA SentAreCounted ==
  ASSUME RecordInv, TellInv
  PROVE  OwnerMailsBounded
<1> DEFINE Sent == {v \in Visits : alert[v] = "sent"}
           Near == {v \in Visits : visit[v] = "audited"}
<1>0. emails \in Nat /\ audits \in Nat /\ faults \in Nat /\ emails <= audits
  BY DEF RecordInv, RecordTypes, TellInv
<1>1. IsFiniteSet(Alerted) /\ Cardinality(Alerted) \in Nat /\ Cardinality(Alerted) <= audits + faults
  BY FS_CardinalityType DEF TellInv
<1>2. IsFiniteSet(Near) /\ Cardinality(Near) \in Nat
  <2>1. CASE Near = {}
    BY <2>1, FS_EmptySet
  <2>2. ASSUME NEW v \in Near PROVE Near = {v}
    BY <2>2 DEF RecordInv, OneWriter, Writing
  <2>3. CASE \E v \in Near : Near = {v}
    <3>1. PICK v : Near = {v}
      BY <2>3
    <3>2. IsFiniteSet({v}) /\ Cardinality({v}) = 1
      BY FS_Singleton
    <3> QED
      BY <3>1, <3>2
  <2> QED
    BY <2>1, <2>2, <2>3
<1>3. Cardinality(Sent) \in Nat /\ Cardinality(Sent) <= Cardinality(Alerted) + Cardinality(Near)
  <2>1. Sent \subseteq Alerted \cup Near
    BY DEF Alerted
  <2>2. IsFiniteSet(Alerted \cup Near) /\ Cardinality(Alerted \cup Near) \in Nat
    BY <1>1, <1>2, FS_Union, FS_CardinalityType
  <2>3. IsFiniteSet(Sent) /\ Cardinality(Sent) \in Nat /\ Cardinality(Sent) <= Cardinality(Alerted \cup Near)
    BY <2>1, <2>2, FS_Subset, FS_CardinalityType
  <2>4. IsFiniteSet(Alerted \cap Near) /\ Cardinality(Alerted \cap Near) \in Nat
    BY <1>1, FS_Intersection, FS_CardinalityType
  <2>5. Cardinality(Alerted \cup Near)
           = Cardinality(Alerted) + Cardinality(Near) - Cardinality(Alerted \cap Near)
    BY <1>1, <1>2, FS_Union
  <2> HIDE DEF Sent, Near
  <2> QED
    BY <1>1, <1>2, <2>2, <2>3, <2>4, <2>5
<1>4. emails + Cardinality(Sent) <= 2 * audits + faults + Cardinality(Near)
  <2> HIDE DEF Sent, Near
  <2> QED
    BY <1>0, <1>1, <1>2, <1>3
<1> QED
  BY <1>0, <1>4 DEF OwnerMailsBounded

\* The owner gets two mails about a recorded view, the one of page.tsx and the
\* alert of noticeAccess.ts; one more takes an aborted transaction, or comes
\* just before its commit.
THEOREM OwnerMails == Spec => []OwnerMailsBounded
<1>1. Init => TellInv
  <2> SUFFICES ASSUME Init PROVE TellInv
    OBVIOUS
  <2>1. Alerted = {}
    BY DEF Init, Alerted
  <2> QED
    BY <2>1, FS_EmptySet DEF Init, TellInv
<1>2. RecordInv /\ TellInv /\ [Next]_vars => TellInv'
  BY TellStep
<1>3. RecordInv /\ TellInv => OwnerMailsBounded
  BY SentAreCounted
<1> QED
  BY <1>1, <1>2, <1>3, NoticeInit, RecordInductive, PTL DEF Spec

=============================================================================
