-------------------------- MODULE DashboardProofs --------------------------
(***************************************************************************)
(* Once the page watches an outcome its badge stays, and the page is never *)
(* ahead of the row, for every number of polls under way, of workers and   *)
(* of faults beside it; beside a single worker an outcome it shows is the  *)
(* row's, unless an answer of the database was lost.                       *)
(***************************************************************************)
EXTENDS Dashboard, FulfilmentProofs

\* An effect that was run with an outcome has no poll out that could still be
\* received, and agrees with the badge; nor has a page that is not open.
Quiet ==
    (badge = "closed" \/ watching \in Terminal) =>
        /\ badge = watching
        /\ \A p \in Polls : poll[p] = "free"

\* "free" and "asked" are no status, and an outcome is one.
LEMMA Statuses ==
  /\ "free" \notin ServiceStatus /\ "asked" \notin ServiceStatus /\ "closed" \notin ServiceStatus
  /\ Terminal \subseteq ServiceStatus
BY DEF ServiceStatus, Terminal

\* The page's own steps.
PageNext ==
    \/ OpenPage \/ Refresh \/ Rerun
    \/ \E p \in Polls : Tick(p) \/ Answer(p) \/ PollFails(p) \/ Receive(p)

\* It holds at first.
LEMMA QuietInit == DashInit => Quiet
BY Statuses DEF DashInit, Quiet

\* No step of the page ends it.
LEMMA PageQuiet ==
  ASSUME Quiet, PageNext
  PROVE  Quiet'
<1>1. CASE OpenPage
  BY <1>1 DEF OpenPage, Quiet
<1>2. CASE Refresh
  BY <1>2 DEF Refresh, Quiet
<1>3. CASE Rerun
  BY <1>3 DEF Rerun, Quiet
<1>4. ASSUME NEW p \in Polls, Tick(p) \/ Answer(p) \/ PollFails(p)
      PROVE  Quiet'
  <2>1. badge # "closed" /\ watching \notin Terminal
    BY <1>4, Statuses DEF Tick, Answer, PollFails, Quiet
  <2> QED
    BY <1>4, <2>1 DEF Tick, Answer, PollFails, Quiet
<1>5. ASSUME NEW p \in Polls, Receive(p)
      PROVE  Quiet'
  <2>1. badge # "closed" /\ watching \notin Terminal
    BY <1>5, Statuses DEF Receive, Quiet
  <2>2. badge' # "closed" /\ watching' \notin Terminal
    BY <1>5, <2>1, Statuses DEF Receive
  <2> QED
    BY <2>2 DEF Quiet
<1> QED
  BY <1>1, <1>2, <1>3, <1>4, <1>5 DEF PageNext

\* Intake, workers and the cluster leave the browser alone.
LEMMA QuietStep ==
  ASSUME Quiet, [DashNext]_dashVars
  PROVE  Quiet'
<1>1. CASE UNCHANGED pageVars
  BY <1>1 DEF pageVars, Quiet
<1>2. CASE PageNext
  BY <1>2, PageQuiet
<1> QED
  BY <1>1, <1>2 DEF DashNext, PageNext, dashVars

\* A step that changes the badge of a page that watches an outcome does not
\* exist.
LEMMA BadgeStep ==
  ASSUME Quiet, [DashNext]_dashVars, watching \in Terminal
  PROVE  badge' = badge
<1>1. CASE UNCHANGED pageVars
  BY <1>1 DEF pageVars
<1>2. CASE OpenPage
  BY <1>2, Statuses DEF OpenPage, Quiet
<1>3. CASE Refresh \/ Rerun
  BY <1>3 DEF Refresh, Rerun
<1>4. ASSUME NEW p \in Polls, Tick(p) \/ Answer(p) \/ PollFails(p)
      PROVE  badge' = badge
  BY <1>4 DEF Tick, Answer, PollFails
<1>5. ASSUME NEW p \in Polls, Receive(p)
      PROVE  FALSE
  BY <1>5, Statuses DEF Receive, Quiet
<1> QED
  BY <1>1, <1>2, <1>3, <1>4, <1>5 DEF DashNext, dashVars

\* OutcomeStays (LiveStatus.tsx): the effect that saw an outcome has cancelled
\* every poll and starts none, so nothing can take the badge back.
THEOREM OutcomeKept == DashSpec => OutcomeStays
<1>1. DashInit => Quiet
  BY QuietInit
<1>2. Quiet /\ [DashNext]_dashVars => Quiet'
  BY QuietStep
<1>3. Quiet /\ [DashNext]_dashVars => [(watching \in Terminal) => badge' = badge]_dashVars
  BY BadgeStep
<1> QED
  BY <1>1, <1>2, <1>3, PTL DEF DashSpec, OutcomeStays

-----------------------------------------------------------------------------
(* What the page shows, against the row.                                   *)

\* The system without the page takes the same steps: the page writes none of
\* its variables, so that every theorem about Fulfilment holds beside it.
LEMMA CoreStep ==
  ASSUME [DashNext]_dashVars
  PROVE  [Next]_vars /\ (PageNext => UNCHANGED vars)
<1>1. ASSUME PageNext PROVE UNCHANGED vars
  BY <1>1 DEF PageNext, OpenPage, Refresh, Rerun, Tick, Answer, PollFails, Receive
<1> QED
  BY <1>1 DEF DashNext, PageNext, dashVars

\* Dashboard implements Fulfilment: intake, workers and cluster never notice
\* that somebody watches.
THEOREM PageIsPassive == DashSpec => Spec
<1>1. DashInit => Init
  BY DEF DashInit
<1>2. [DashNext]_dashVars => [Next]_vars
  BY CoreStep
<1> QED
  BY <1>1, <1>2, PTL DEF DashSpec, Spec

\* What the page may show, or be told, of a row in status s.
MayShow(s) ==
    {x \in ServiceStatus :
        /\ s # "NONE"
        /\ x = "IN_PROGRESS" => s \in {"IN_PROGRESS"} \cup Terminal
        /\ x \in Terminal => s \in Terminal}

\* The inductive invariant: everything the page holds may be shown, and a page
\* that watches or polls is one of an existing row.
PageInv ==
    /\ {badge, watching, section} \subseteq MayShow(status[Watched]) \cup {"closed"}
    /\ poll \in [Polls -> MayShow(status[Watched]) \cup {"free", "asked"}]
    /\ (badge # "closed" \/ \E p \in Polls : poll[p] # "free") => status[Watched] # "NONE"
    /\ (badge = "closed" => watching = "closed" /\ section = "closed" /\ ~refreshing)
    /\ refreshing \in BOOLEAN

\* A page shows what its row is at once.
LEMMA RowMayBeShown ==
  ASSUME NEW s \in ServiceStatus \cup {"NONE"}, s # "NONE"
  PROVE  s \in MayShow(s)
BY DEF MayShow, ServiceStatus, Terminal

\* It holds at first.
LEMMA PageInit == DashInit => PageInv
BY DEF DashInit, PageInv

\* A step of the rest of the system only makes more true.
LEMMA PageBesideCore ==
  ASSUME TypeOK, [Next]_vars, UNCHANGED pageVars, PageInv
  PROVE  PageInv'
<1>1. MayShow(status[Watched]) \subseteq MayShow(status[Watched])'
  BY StatusForward, DashboardAssumption DEF MayShow
<1>2. status[Watched] # "NONE" => status'[Watched] # "NONE"
  BY StatusForward, DashboardAssumption
<1> DEFINE M == MayShow(status[Watched])
           N == MayShow(status[Watched])'
<1> HIDE DEF M, N
<1>3. M \subseteq N
  BY <1>1 DEF M, N
<1>4. poll' \in [Polls -> N \cup {"free", "asked"}]
  BY <1>3 DEF PageInv, pageVars, M
<1>5. {badge, watching, section}' \subseteq N \cup {"closed"}
  BY <1>3 DEF PageInv, pageVars, M
<1> QED
  BY <1>2, <1>4, <1>5 DEF PageInv, pageVars, N

\* The page's own steps show and answer what the row is, or what was shown or
\* answered before.
LEMMA PageOwnStep ==
  ASSUME TypeOK, PageNext, UNCHANGED vars, PageInv
  PROVE  PageInv'
<1> DEFINE M == MayShow(status[Watched])
<1>1. status' = status /\ status[Watched] \in ServiceStatus \cup {"NONE"}
  BY DashboardAssumption DEF vars, coreVars, storeVars, TypeOK, WorkerTypeOK, StoreTypeOK
<1>2. (status[Watched] # "NONE" => status[Watched] \in M) /\ M' = M
  BY <1>1, RowMayBeShown DEF MayShow
<1>3. M \subseteq ServiceStatus /\ "free" \notin M /\ "asked" \notin M /\ "closed" \notin M
      /\ (M # {} => status[Watched] # "NONE")
  BY Statuses DEF MayShow
<1> HIDE DEF M
<1>i. /\ badge \in M \cup {"closed"} /\ watching \in M \cup {"closed"} /\ section \in M \cup {"closed"}
      /\ poll \in [Polls -> M \cup {"free", "asked"}]
      /\ (badge # "closed" \/ \E p \in Polls : poll[p] # "free") => status[Watched] # "NONE"
      /\ (badge = "closed" => watching = "closed" /\ section = "closed" /\ ~refreshing)
      /\ refreshing \in BOOLEAN
  BY DEF PageInv, M
<1> SUFFICES
      /\ badge' \in M \cup {"closed"} /\ watching' \in M \cup {"closed"} /\ section' \in M \cup {"closed"}
      /\ poll' \in [Polls -> M \cup {"free", "asked"}]
      /\ (badge' # "closed" \/ \E p \in Polls : poll'[p] # "free") => status[Watched] # "NONE"
      /\ (badge' = "closed" => watching' = "closed" /\ section' = "closed" /\ ~refreshing')
      /\ refreshing' \in BOOLEAN
  BY <1>1, <1>2 DEF PageInv, M
<1>4. CASE OpenPage
  BY <1>4, <1>2, <1>3, <1>i DEF OpenPage, Rows
<1>5. CASE Refresh \/ Rerun
  BY <1>5, <1>2, <1>3, <1>i DEF Refresh, Rerun
<1>6. ASSUME NEW p \in Polls, Tick(p) \/ Answer(p) \/ PollFails(p)
      PROVE  /\ UNCHANGED <<badge, watching, section, refreshing>>
             /\ poll' \in [Polls -> M \cup {"free", "asked"}]
             /\ status[Watched] # "NONE"
  <2>1. CASE Tick(p)
    <3>1. badge # "closed"
      BY <2>1, <1>i, Statuses DEF Tick
    <3> QED
      BY <2>1, <3>1, <1>i DEF Tick
  <2>2. CASE Answer(p)
    <3>1. status[Watched] \in M
      BY <2>2, <1>2, <1>i DEF Answer
    <3> QED
      BY <2>2, <3>1, <1>3, <1>i DEF Answer
  <2>3. CASE PollFails(p)
    BY <2>3, <1>i DEF PollFails
  <2> QED
    BY <1>6, <2>1, <2>2, <2>3
<1>7. ASSUME NEW p \in Polls, Receive(p)
      PROVE  /\ UNCHANGED <<watching, section>>
             /\ badge' = badge \/ badge' = poll[p]
             /\ refreshing' \in BOOLEAN
             /\ poll[p] \in M
             /\ poll' \in [Polls -> M \cup {"free", "asked"}]
             /\ badge' = "closed" => badge = "closed" /\ refreshing' = refreshing
  BY <1>7, <1>i, Statuses DEF Receive
<1> QED
  BY <1>4, <1>5, <1>6, <1>7, <1>i, <1>3 DEF PageNext

\* Whoever takes the step.
LEMMA PageStep ==
  ASSUME TypeOK, [DashNext]_dashVars, PageInv
  PROVE  PageInv'
<1>1. CASE UNCHANGED pageVars
  BY <1>1, CoreStep, PageBesideCore
<1>2. CASE PageNext
  BY <1>2, CoreStep, PageOwnStep
<1> QED
  BY <1>1, <1>2 DEF DashNext, PageNext, dashVars

\* PageNeverAhead (LiveStatus.tsx, page.tsx and the status route): a delivery
\* only goes forward, so that an answer grows old but never wrong.
THEOREM PageBehindRow == DashSpec => []PageNeverAhead
<1>1. PageInv => PageNeverAhead
  <2> SUFFICES ASSUME PageInv PROVE PageNeverAhead
    OBVIOUS
  <2> DEFINE told == {badge, watching, section} \cup {poll[p] : p \in Polls}
  <2>1. told \subseteq MayShow(status[Watched]) \cup {"closed", "free", "asked"}
    BY DEF PageInv
  <2> HIDE DEF told
  <2>2. /\ told \cap ServiceStatus # {} => status[Watched] # "NONE"
        /\ "IN_PROGRESS" \in told => status[Watched] \in {"IN_PROGRESS"} \cup Terminal
        /\ told \cap Terminal # {} => status[Watched] \in Terminal
    BY <2>1, Statuses DEF MayShow, Terminal
  <2> QED
    BY <2>2 DEF PageNeverAhead, told
<1>2. TypeOK /\ PageInv /\ [DashNext]_dashVars => PageInv'
  BY PageStep
<1> QED
  BY <1>1, <1>2, PageInit, PageIsPassive, TypeCorrect, PTL DEF DashSpec

-----------------------------------------------------------------------------
(* Beside a single worker.                                                 *)

\* An outcome is the row's, or that of a row that was failed after its
\* confirmation, the answer to which was lost.
TrueOutcome(x) == x \in Terminal => x = status[Watched] \/ Misled(x)

\* So is every outcome the page shows, or is told by an answer on its way.
OutcomeTrue ==
    /\ \A x \in {badge, watching, section} : TrueOutcome(x)
    /\ \A p \in Polls : TrueOutcome(poll[p])

\* The page copies outcomes from the row and from itself.
LEMMA OutcomeTrueStep ==
  ASSUME TypeOK, TypeOK', WorkerAssumption, [DashNext]_dashVars, PageInv, OutcomeTrue,
         OutcomeStep(Watched), faults' >= faults
  PROVE  OutcomeTrue'
<1>1. CASE UNCHANGED pageVars
  <2> DEFINE Later(x) == x \in Terminal => x = status'[Watched] \/
                           (x = "CONFIRMED" /\ status'[Watched] = "FAILED" /\ faults' > 0)
  <2>1. faults \in Nat /\ faults' \in Nat
    BY DEF TypeOK, WorkerTypeOK, WorkerAssumption
  <2>2. ASSUME NEW x, TrueOutcome(x) PROVE Later(x)
    BY <2>1, <2>2 DEF TrueOutcome, Misled, OutcomeStep, Terminal
  <2>3. /\ Later(badge) /\ Later(watching) /\ Later(section)
        /\ \A p \in Polls : Later(poll[p])
    BY <2>2 DEF OutcomeTrue
  <2> QED
    BY <1>1, <2>3 DEF OutcomeTrue, TrueOutcome, Misled, pageVars
<1>2. CASE PageNext
  <2> DEFINE T(x) == x \in Terminal => x = status[Watched] \/
                       (x = "CONFIRMED" /\ status[Watched] = "FAILED" /\ faults > 0)
  <2>1. status' = status /\ faults' = faults
    BY <1>2, CoreStep DEF vars, coreVars, storeVars, workerVars
  <2>2. /\ T(badge) /\ T(watching) /\ T(section) /\ T("free") /\ T("asked") /\ T(status[Watched])
        /\ \A p \in Polls : T(poll[p])
    BY Statuses DEF OutcomeTrue, TrueOutcome, Misled
  <2>3. poll = [p \in Polls |-> poll[p]]
    BY DEF PageInv
  <2> SUFFICES T(badge') /\ T(watching') /\ T(section') /\ \A p \in Polls : T(poll'[p])
    BY <2>1 DEF OutcomeTrue, TrueOutcome, Misled
  <2> HIDE DEF T
  <2>4. CASE OpenPage \/ Refresh \/ Rerun
    BY <2>4, <2>1, <2>2 DEF OpenPage, Refresh, Rerun
  <2>5. ASSUME NEW p \in Polls, Tick(p) \/ Answer(p) \/ PollFails(p) \/ Receive(p)
        PROVE  T(badge') /\ T(watching') /\ T(section') /\ \A q \in Polls : T(poll'[q])
    <3>1. \E x : T(x) /\ poll' = [poll EXCEPT ![p] = x]
      BY <2>5, <2>2 DEF Tick, Answer, PollFails, Receive
    <3>2. \A q \in Polls : T(poll'[q])
      BY <3>1, <2>2, <2>3
    <3>3. T(badge') /\ T(watching') /\ T(section')
      BY <2>5, <2>2 DEF Tick, Answer, PollFails, Receive
    <3> QED
      BY <3>2, <3>3
  <2> QED
    BY <1>2, <2>4, <2>5 DEF PageNext
<1> QED
  BY <1>1, <1>2 DEF DashNext, PageNext, dashVars

\* No step takes a fault back.
LEMMA FaultsGrow ==
  ASSUME TypeOK, WorkerAssumption, [Next]_vars
  PROVE  faults' >= faults
<1>1. faults \in Nat
  BY DEF TypeOK, WorkerTypeOK, WorkerAssumption
<1> USE DEF workerVars, coreVars, vars
<1>2. ASSUME NEW w \in Workers, Start(w) \/ RunOnce(w) \/ DbRefuses(w) \/ DbReplyLost(w) \/ Crash(w)
      PROVE  faults' >= faults
  BY <1>1, <1>2 DEF Start, RunOnce, Find, FindNothing, Claim, LoseClaim, Send, SendFails, SendReplyLost,
     Persist, Confirm, ConfirmFails, Verify, VerifyFails, Commit, Fail, FailThrows, DbRefuses, DbReplyLost,
     Crash, Fault
<1>3. ASSUME NEW r \in Requests, Meter(r) \/ Refuse(r) \/ Create(r) \/ CreateFails(r)
      PROVE  faults' >= faults
  BY <1>1, <1>3 DEF Meter, Refuse, Create, CreateFails
<1> QED
  BY <1>1, <1>2, <1>3, NextCases

\* Beside a single worker an outcome on the page is the row's own, or it is
\* CONFIRMED, the row FAILED, and an answer of the database was lost: FAILED is
\* never shown of a delivered row.  With several workers FAILED can turn into
\* CONFIRMED behind a page that no longer polls (their final updates are by id).
THEOREM OutcomesShownAreTrue == Solo => (DashSpec => []OutcomeTrue)
<1>1. Init => SoloInv
  BY DEF Init, WorkerInit, StoreInit, SoloInv, InMemory, Holding, Verified, ConfirmedBySignature,
         FailureAudited
<1>2. DashInit => OutcomeTrue
  BY Statuses DEF DashInit, OutcomeTrue, TrueOutcome
<1>3. Solo /\ TypeOK /\ TypeOK' /\ SoloInv /\ [Next]_vars => SoloInv'
  BY SoloStep, StoreAssumption, WorkerAssumption
<1>4. Solo /\ TypeOK /\ TypeOK' /\ SoloInv /\ PageInv /\ OutcomeTrue /\ [DashNext]_dashVars => OutcomeTrue'
  <2> SUFFICES ASSUME Solo, TypeOK, TypeOK', SoloInv, PageInv, OutcomeTrue, [DashNext]_dashVars
               PROVE  OutcomeTrue'
    OBVIOUS
  <2>1. OutcomeStep(Watched)
    BY CoreStep, SoloStep, StoreAssumption, WorkerAssumption, DashboardAssumption
  <2>2. faults' >= faults
    BY CoreStep, FaultsGrow, WorkerAssumption
  <2> QED
    BY <2>1, <2>2, OutcomeTrueStep, WorkerAssumption
<1>5. TypeOK /\ PageInv /\ [DashNext]_dashVars => PageInv'
  BY PageStep
<1>6. SUFFICES ASSUME Solo PROVE DashSpec => []OutcomeTrue
  OBVIOUS
<1>7. Spec => [](TypeOK /\ SoloInv)
  BY <1>1, <1>3, <1>6, TypeCorrect, PTL DEF Spec
<1> QED
  BY <1>2, <1>4, <1>5, <1>6, <1>7, PageInit, PageIsPassive, PTL DEF DashSpec

=============================================================================
