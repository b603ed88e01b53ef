---------------------------- MODULE FilingProofs ----------------------------
(***************************************************************************)
(* Filing, for every number of submissions, intakes, names and files and   *)
(* any number of lost answers: what is staged twice was paid for by a lost *)
(* answer, a staged row is whole, and success is shown of the file that    *)
(* was stored.                                                             *)
(***************************************************************************)
EXTENDS Filing, FiniteSetTheorems, TLAPS

\* The submissions whose handler may yet stage a row or has.
Live == {p \in Posts : at[p] \in {"sent", "accepted", "staged"}}

\* The form waits for one of them; the others lost their answer, or one of them
\* is the reason why the form was left.
AnswerInv ==
    /\ IsFiniteSet(Live)
    /\ left => waiting = NoPost
    /\ Cardinality(Live \ {waiting}) <= lost + (IF left THEN 1 ELSE 0)

FormInv == FormTypeOK /\ AnswerInv

\* The transaction that has incremented the meter is the only one under way.
LockInv ==
    /\ \A c \in Intakes : stage[c] \in {"metered", "stored", "created"} <=> holder = c
    /\ usage + (IF holder = NoIntake THEN 0 ELSE 1) <= Quota
    /\ \A c \in Intakes : stage[c] \in {"stored", "created"} => c \in objects
    /\ \A c \in Intakes : c \in staged <=> stage[c] = "committed"
    /\ IsFiniteSet(staged)

\* The answer on its way to the widget is about the file being uploaded.
WidgetInv ==
    /\ result # "none" => uploading # NoFile
    /\ result = "ok" => uploading \in objects
    /\ uploading # NoFile /\ ~switched => file = uploading

DocInv == DocTypeOK /\ LockInv /\ WidgetInv /\ StagingIsWhole /\ SuccessIsTrue

FilingInv == FormInv /\ DocInv

-----------------------------------------------------------------------------
\* Both parts start within their invariants.
LEMMA FilingInit ==
  ASSUME FormAssumption, DocumentsAssumption, Init
  PROVE  FilingInv
<1> USE DEF Init, FormInit, DocInit, FormAssumption, DocumentsAssumption
<1>1. FormTypeOK
  <2>1. sent \in [Posts -> [input : Inputs \cup {NoAddress}, hint : Addresses]]
    BY DEF Addresses
  <2>2. row \in [Posts -> [name : Inputs \cup {NoAddress}, wallet : Inputs \cup Addresses]]
    BY DEF Addresses, NoRow
  <2>3. edits \in 0..MaxEdits /\ lost \in 0..MaxLost
    OBVIOUS
  <2>4. at \in [Posts -> {"idle", "sent", "accepted", "staged", "unresolved", "refused"}]
    OBVIOUS
  <2> QED
    BY <2>1, <2>2, <2>3, <2>4 DEF FormTypeOK, Addresses
<1>2. AnswerInv
  <2>1. Live = {} /\ Live \ {waiting} = {}
    BY DEF Live
  <2> QED
    BY <2>1, FS_EmptySet DEF AnswerInv
<1>3. DocTypeOK /\ WidgetInv /\ SuccessIsTrue
  BY DEF DocTypeOK, WidgetInv, SuccessIsTrue
<1>4. LockInv /\ StagingIsWhole
  BY FS_EmptySet DEF LockInv, StagingIsWhole
<1> QED
  BY <1>1, <1>2, <1>3, <1>4 DEF FilingInv, FormInv, DocInv

\* A lookup answers with an address or with none.
LEMMA LookupType ==
  ASSUME FormAssumption, NEW v, NEW up
  PROVE  ResolveRoute(v, up) \in Addresses
BY DEF FormAssumption, ResolveRoute, Addresses

\* Types of the form and of the handler.
LEMMA FormType ==
  ASSUME FormAssumption, FormTypeOK, FormNext
  PROVE  FormTypeOK'
<1> USE DEF FormTypeOK, FormAssumption, fieldVars, postVars, Addresses
<1>1. ASSUME NEW v \in Inputs, EditField(v)
      PROVE  FormTypeOK'
  BY <1>1 DEF EditField, looksLikeENSName
<1>2. CASE StartLookup
  BY <1>2 DEF StartLookup
<1>3. ASSUME NEW up \in BOOLEAN, AnswerLookup(up)
      PROVE  FormTypeOK'
  <2>1. resolved' \in Addresses
    <3>1. ResolveRoute(lookup, up) \in Addresses
      BY LookupType
    <3> QED
      BY <1>3, <3>1, Zenon DEF AnswerLookup
  <2> QED
    BY <1>3, <2>1 DEF AnswerLookup
<1>4. ASSUME NEW p \in Posts, Submit(p)
      PROVE  FormTypeOK'
  <2>1. [input |-> input, hint |-> resolved] \in [input : Inputs \cup {NoAddress}, hint : Addresses]
    OBVIOUS
  <2>2. sent' \in [Posts -> [input : Inputs \cup {NoAddress}, hint : Addresses]]
    BY <1>4, <2>1 DEF Submit
  <2> QED
    BY <1>4, <2>2 DEF Submit
<1>5. ASSUME NEW p \in Posts, Refuse(p) \/ StageRow(p)
      PROVE  FormTypeOK'
  BY <1>5 DEF Refuse, StageRow
<1>6. ASSUME NEW p \in Posts, AnswerPost(p) \/ LoseAnswer(p)
      PROVE  FormTypeOK'
  <2>1. (at[p] = "staged") \in BOOLEAN
    OBVIOUS
  <2>2. left' \in BOOLEAN
    BY <1>6, <2>1, Zenon DEF AnswerPost, LoseAnswer
  <2>3. lost' \in 0..MaxLost /\ waiting' = NoPost /\ UNCHANGED <<at, sent, row, fieldVars>>
    BY <1>6 DEF AnswerPost, LoseAnswer
  <2> QED
    BY <2>2, <2>3
<1>7. ASSUME NEW p \in Posts, NEW up \in BOOLEAN, Decide(p, up)
      PROVE  FormTypeOK'
  <2>1. at' \in [Posts -> {"idle", "sent", "accepted", "staged", "unresolved", "refused"}]
    BY <1>7 DEF Decide
  <2>2. row' \in [Posts -> [name : Inputs \cup {NoAddress}, wallet : Inputs \cup Addresses]]
    BY <1>7 DEF Decide
  <2> QED
    BY <1>7, <2>1, <2>2 DEF Decide
<1> QED
  BY <1>1, <1>2, <1>3, <1>4, <1>5, <1>6, <1>7 DEF FormNext

\* One more element counts for at most one.
LEMMA OneMore ==
  ASSUME NEW S, NEW x, IsFiniteSet(S)
  PROVE  /\ IsFiniteSet(S \cup {x})
         /\ Cardinality(S \cup {x}) <= Cardinality(S) + 1
<1>1. Cardinality(S) \in Nat
  BY FS_CardinalityType
<1>2. CASE x \in S
  <2>1. S \cup {x} = S
    BY <1>2
  <2>2. Cardinality(S) <= Cardinality(S) + 1
    BY <1>1
  <2> QED
    BY <2>1, <2>2
<1>3. CASE x \notin S
  BY <1>1, <1>3, FS_AddElement
<1> QED
  BY <1>2, <1>3

\* Which submissions are live, and what the form knows of them.
LEMMA FormAnswers ==
  ASSUME FormAssumption, FormInv, FormNext
  PROVE  AnswerInv'
<1> USE DEF FormInv, FormTypeOK, fieldVars, postVars
<1>f. IsFiniteSet(Live) /\ IsFiniteSet(Live \ {waiting}) /\ Cardinality(Live \ {waiting}) \in Nat
  BY FS_Difference, FS_CardinalityType DEF AnswerInv
<1>l. lost \in Nat
  OBVIOUS
<1>1. CASE UNCHANGED <<at, waiting, left, lost>>
  BY <1>1 DEF AnswerInv, Live
<1>2. ASSUME NEW p \in Posts, Submit(p)
      PROVE  AnswerInv'
  <2>1. waiting = NoPost /\ waiting \notin Live /\ p \notin Live /\ ~left
    BY <1>2 DEF Submit, Live, FormAssumption
  <2>2. Live' = Live \cup {p} /\ waiting' = p /\ UNCHANGED <<left, lost>>
    BY <1>2 DEF Submit, Live
  <2>3. IsFiniteSet(Live')
    BY <1>f, <2>2, FS_AddElement
  <2>4. Live' \ {waiting'} = Live \ {waiting}
    BY <2>1, <2>2
  <2> QED
    BY <2>1, <2>2, <2>3, <2>4 DEF AnswerInv
<1>3. ASSUME NEW p \in Posts, Refuse(p) \/ StageRow(p) \/ (\E up \in BOOLEAN : Decide(p, up))
      PROVE  AnswerInv'
  <2>1. Live' \subseteq Live /\ UNCHANGED <<waiting, left, lost>>
    BY <1>3 DEF Refuse, StageRow, Decide, Live
  <2>2. Live' \ {waiting'} \subseteq Live \ {waiting}
    BY <2>1
  <2>3. IsFiniteSet(Live') /\ Cardinality(Live' \ {waiting'}) <= Cardinality(Live \ {waiting})
        /\ Cardinality(Live' \ {waiting'}) \in Nat
    BY <1>f, <2>1, <2>2, FS_Subset, FS_CardinalityType
  <2> QED
    BY <1>f, <1>l, <2>1, <2>3 DEF AnswerInv
<1>4. ASSUME NEW p \in Posts, AnswerPost(p) \/ LoseAnswer(p)
      PROVE  AnswerInv'
  <2>1. Live' = Live /\ waiting = p /\ waiting' = NoPost /\ ~left /\ NoPost \notin Live
    BY <1>4 DEF AnswerPost, LoseAnswer, Live, AnswerInv, FormAssumption
  <2>2. Live' \ {waiting'} \subseteq (Live \ {waiting}) \cup {p}
    BY <2>1
  <2>3. /\ IsFiniteSet((Live \ {waiting}) \cup {p})
        /\ Cardinality((Live \ {waiting}) \cup {p}) <= Cardinality(Live \ {waiting}) + 1
    BY <1>f, OneMore
  <2>4. /\ Cardinality(Live' \ {waiting'}) <= Cardinality(Live \ {waiting}) + 1
        /\ Cardinality(Live' \ {waiting'}) \in Nat
    BY <1>f, <2>2, <2>3, FS_Subset, FS_CardinalityType
  <2>5. CASE LoseAnswer(p)
    <3>1. lost' = lost + 1 /\ left' = left
      BY <2>5 DEF LoseAnswer
    <3> QED
      BY <1>f, <1>l, <2>1, <2>4, <3>1 DEF AnswerInv
  <2>6. CASE AnswerPost(p) /\ at[p] = "staged"
    <3>1. lost' = lost /\ left'
      BY <2>6 DEF AnswerPost
    <3> QED
      BY <1>f, <1>l, <2>1, <2>4, <3>1 DEF AnswerInv
  <2>7. CASE AnswerPost(p) /\ at[p] # "staged"
    <3>1. lost' = lost /\ ~left' /\ p \notin Live
      BY <2>7 DEF AnswerPost, Live
    <3>2. Live' \ {waiting'} = Live \ {waiting}
      BY <2>1, <3>1
    <3> QED
      BY <1>f, <1>l, <2>1, <3>1, <3>2 DEF AnswerInv
  <2> QED
    BY <1>4, <2>5, <2>6, <2>7
<1> QED
  BY <1>1, <1>2, <1>3, <1>4 DEF FormNext, EditField, StartLookup, AnswerLookup

\* The invariant of the form.
LEMMA FormStep ==
  ASSUME FormAssumption, FormInv, FormNext
  PROVE  FormInv'
BY FormType, FormAnswers DEF FormInv

-----------------------------------------------------------------------------
\* createServiceRequest: the lock makes the check and the increment one step.
LEMMA IntakeKeeps ==
  ASSUME DocumentsAssumption, DocInv, NEW c \in Intakes, IntakeStep(c)
  PROVE  DocInv'
<1> USE DEF DocInv, DocTypeOK, LockInv, DocumentsAssumption, widgetVars
<1>1. DocTypeOK'
  <2>1. CASE Consume(c) \/ Exceeded(c) \/ Store(c) \/ CreateRows(c)
    BY <2>1 DEF Consume, Exceeded, Store, CreateRows
  <2>2. CASE Commit(c)
    <3>1. kept' \in [Intakes -> SUBSET Fields]
      BY <2>2 DEF Commit, Fields
    <3> QED
      BY <2>2, <3>1 DEF Commit
  <2>3. CASE Abort(c)
    BY <2>3 DEF Abort
  <2> QED
    BY <2>1, <2>2, <2>3 DEF IntakeStep
<1>2. objects \subseteq objects' /\ UNCHANGED widgetVars
  BY DEF IntakeStep, Consume, Exceeded, Store, CreateRows, Commit, Abort
<1>3. WidgetInv' /\ SuccessIsTrue'
  BY <1>2 DEF WidgetInv, SuccessIsTrue
<1>4. LockInv'
  <2>1. CASE Consume(c) \/ Exceeded(c) \/ Store(c) \/ CreateRows(c) \/ Abort(c)
    BY <2>1 DEF Consume, Exceeded, Store, CreateRows, Abort
  <2>2. CASE Commit(c)
    <3>1. holder = c /\ c \in objects
      BY <2>2 DEF Commit
    <3>2. IsFiniteSet(staged')
      BY <2>2, FS_AddElement DEF Commit
    <3> QED
      BY <2>2, <3>1, <3>2 DEF Commit
  <2> QED
    BY <2>1, <2>2 DEF IntakeStep
<1>5. StagingIsWhole'
  <2>1. CASE Consume(c) \/ Exceeded(c) \/ Store(c) \/ CreateRows(c) \/ Abort(c)
    BY <1>2, <2>1 DEF Consume, Exceeded, Store, CreateRows, Abort, StagingIsWhole
  <2>2. CASE Commit(c)
    <3>1. holder = c /\ c \in objects /\ c \notin staged
      BY <2>2 DEF Commit
    <3>2. staged' = staged \cup {c} /\ usage' = usage + 1 /\ objects' = objects
      BY <2>2, <3>1 DEF Commit
    <3>3. Cardinality(staged') = Cardinality(staged) + 1
      BY <3>1, <3>2, FS_AddElement
    <3>4. \A i \in Intakes : kept'[i] = IF i \in staged' THEN {"sha256", "objectKey"} ELSE {}
      BY <2>2, <3>2 DEF Commit, StagingIsWhole
    <3>5. usage' <= Quota
      BY <3>1, <3>2
    <3> QED
      BY <3>1, <3>2, <3>3, <3>4, <3>5 DEF StagingIsWhole
  <2> QED
    BY <2>1, <2>2 DEF IntakeStep
<1> QED
  BY <1>1, <1>3, <1>4, <1>5

\* The upload widget and its route.
LEMMA WidgetKeeps ==
  ASSUME DocumentsAssumption, DocInv, WidgetNext
  PROVE  DocInv'
<1> USE DEF DocInv, DocTypeOK, DocumentsAssumption
<1>1. UNCHANGED intakeVars /\ objects \subseteq objects'
  BY DEF WidgetNext, Pick, StartUpload, AcceptUpload, RejectUpload, ShowResult
<1>2. LockInv' /\ StagingIsWhole'
  BY <1>1 DEF intakeVars, LockInv, StagingIsWhole
<1>3. DocTypeOK' /\ WidgetInv' /\ SuccessIsTrue'
  <2> USE DEF WidgetInv, SuccessIsTrue, intakeVars
  <2>1. ASSUME NEW f \in Files, Pick(f)
        PROVE  DocTypeOK' /\ WidgetInv' /\ SuccessIsTrue'
    BY <2>1 DEF Pick
  <2>2. CASE StartUpload
    BY <2>2 DEF StartUpload
  <2>3. CASE AcceptUpload
    BY <2>3 DEF AcceptUpload
  <2>4. CASE RejectUpload
    BY <2>4 DEF RejectUpload
  <2>5. CASE ShowResult
    BY <2>5 DEF ShowResult
  <2> QED
    BY <2>1, <2>2, <2>3, <2>4, <2>5 DEF WidgetNext
<1> QED
  BY <1>2, <1>3

-----------------------------------------------------------------------------
\* Form, handler, transactions and widget, in any interleaving.
THEOREM FilingInvariant == Spec => []FilingInv
<1>1. Init => FilingInv
  BY FilingInit, FormAssumption, DocumentsAssumption
<1>2. ASSUME FilingInv, [Next]_filingVars
      PROVE  FilingInv'
  <2>1. CASE FormNext /\ UNCHANGED docVars
    <3>1. FormInv'
      BY <1>2, <2>1, FormStep, FormAssumption DEF FilingInv
    <3>2. DocInv'
      BY <1>2, <2>1 DEF FilingInv, DocInv, DocTypeOK, LockInv, WidgetInv, StagingIsWhole, SuccessIsTrue,
           docVars, intakeVars, widgetVars
    <3> QED
      BY <3>1, <3>2 DEF FilingInv
  <2>f. ASSUME UNCHANGED formVars
        PROVE  FormInv'
    BY <1>2, <2>f DEF FilingInv, FormInv, FormTypeOK, AnswerInv, Live,
         formVars, fieldVars, postVars
  <2>2. CASE WidgetNext /\ UNCHANGED formVars
    BY <1>2, <2>2, <2>f, WidgetKeeps, DocumentsAssumption DEF FilingInv
  <2>3. CASE (\E c \in Intakes : IntakeStep(c)) /\ UNCHANGED formVars
    BY <1>2, <2>3, <2>f, IntakeKeeps, DocumentsAssumption DEF FilingInv
  <2>4. CASE UNCHANGED filingVars
    <3>1. DocInv'
      BY <1>2, <2>4 DEF FilingInv, DocInv, DocTypeOK, LockInv, WidgetInv, StagingIsWhole, SuccessIsTrue,
           filingVars, docVars, intakeVars, widgetVars
    <3> QED
      BY <3>1, <2>4, <2>f DEF FilingInv, filingVars
  <2> QED
    BY <1>2, <2>1, <2>2, <2>3, <2>4 DEF Next
<1> QED
  BY <1>1, <1>2, PTL DEF Spec

\* A filing is staged again only when the answer to an earlier one was lost.
THEOREM DuplicatesPaidFor == Spec => []DuplicatesCostLostAnswers
<1>1. FilingInv => DuplicatesCostLostAnswers
  <2> SUFFICES ASSUME FilingInv
               PROVE  DuplicatesCostLostAnswers
    OBVIOUS
  <2> DEFINE S == {p \in Posts : at[p] \in {"accepted", "staged"}}
  <2> USE DEF FilingInv, FormInv, AnswerInv, FormTypeOK
  <2>1. IsFiniteSet(Live \ {waiting}) /\ Cardinality(Live \ {waiting}) \in Nat
    BY FS_Difference, FS_CardinalityType
  <2>2. CASE waiting \in Live
    <3>1. S \subseteq (Live \ {waiting}) \cup {waiting} /\ ~left
      BY <2>2, FormAssumption DEF Live, FormAssumption
    <3>2. /\ IsFiniteSet((Live \ {waiting}) \cup {waiting})
          /\ Cardinality((Live \ {waiting}) \cup {waiting}) <= Cardinality(Live \ {waiting}) + 1
      BY <2>1, OneMore
    <3>3. Cardinality(S) <= Cardinality(Live \ {waiting}) + 1 /\ Cardinality(S) \in Nat
      BY <2>1, <3>1, <3>2, FS_Subset, FS_CardinalityType
    <3> QED
      BY <2>1, <3>1, <3>3 DEF DuplicatesCostLostAnswers
  <2>3. CASE waiting \notin Live
    <3>1. S \subseteq Live \ {waiting}
      BY <2>3 DEF Live
    <3>2. Cardinality(S) <= Cardinality(Live \ {waiting}) /\ Cardinality(S) \in Nat
      BY <2>1, <3>1, FS_Subset, FS_CardinalityType
    <3> QED
      BY <2>1, <3>2 DEF DuplicatesCostLostAnswers
  <2> QED
    BY <2>2, <2>3
<1> QED
  BY <1>1, FilingInvariant, PTL

\* Document, row, audit row and meter of createServiceRequest agree, whichever
\* transactions are rolled back and whatever the bucket keeps of them.
THEOREM StagedWhole == Spec => []StagingIsWhole
<1>1. FilingInv => StagingIsWhole
  BY DEF FilingInv, DocInv
<1> QED
  BY <1>1, FilingInvariant, PTL

\* The widget claims success only for a file that is in the bucket, unless the
\* filer picked another one during the upload.
THEOREM SuccessTrue == Spec => []SuccessIsTrue
<1>1. FilingInv => SuccessIsTrue
  BY DEF FilingInv, DocInv
<1> QED
  BY <1>1, FilingInvariant, PTL

=============================================================================
