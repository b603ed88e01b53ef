-------------------------- MODULE FulfilmentProofs --------------------------
(***************************************************************************)
(* Theorems about Fulfilment for every set of requests, organizations,     *)
(* workers and signatures, every bound and every kind of database error.   *)
(***************************************************************************)
EXTENDS Fulfilment, FiniteSetTheorems, TLAPS

\* The disjuncts of one step, flattened: which action of which actor it is.
LEMMA NextCases ==
  ASSUME [Next]_vars
  PROVE  \/ \E r \in Requests : Meter(r) \/ Refuse(r) \/ Create(r) \/ CreateFails(r)
         \/ /\ UNCHANGED intake
            /\ \E w \in Workers :
                 \/ Start(w) \/ RunOnce(w) \/ DbRefuses(w) \/ DbReplyLost(w) \/ Crash(w)
         \/ \E s \in Sigs : Chain!Settle(s) /\ UNCHANGED <<storeVars, workerVars, intake>>
         \/ UNCHANGED vars
  BY Zenon DEF Next, IntakeNext, WorkerNext

-----------------------------------------------------------------------------
(* Type correctness.                                                       *)

\* A row's rank of insertion is a number: there are finitely many requests.
LEMMA RowsCounted == StoreAssumption => Cardinality(Rows) \in Nat
<1> SUFFICES ASSUME StoreAssumption PROVE Cardinality(Rows) \in Nat
  OBVIOUS
<1>1. Rows \subseteq Requests
  BY DEF Rows
<1>2. IsFiniteSet(Rows)
  BY <1>1, FS_Subset DEF StoreAssumption
<1> QED
  BY <1>2, FS_CardinalityType

\* The intake handlers preserve the type invariant.
LEMMA IntakeType ==
  ASSUME StoreAssumption, WorkerAssumption, TypeOK,
         NEW r \in Requests, Meter(r) \/ Refuse(r) \/ Create(r) \/ CreateFails(r)
  PROVE  TypeOK'
<1> USE DEF TypeOK, WorkerTypeOK, StoreTypeOK, Chain!ChainTypeOK, workerVars, chainVars
<1>1. CASE Meter(r)
  BY <1>1 DEF Meter, CheckAndDecrementQuota, StoreAssumption
<1>2. CASE Refuse(r) \/ CreateFails(r)
  BY <1>2 DEF Refuse, CreateFails, coreVars, storeVars
<1>3. CASE Create(r)
  BY <1>3, RowsCounted DEF Create, CreateRow, ServiceStatus
<1> QED
  BY <1>1, <1>2, <1>3

\* The worker's statements preserve the types of the two tables.
LEMMA UpdateType ==
  ASSUME StoreTypeOK, NEW r \in Requests,
         \/ FlipToInProgress(r)
         \/ \E s \in Sigs : WriteSignature(r, s)
         \/ \E v \in {"null", "zero", "real"} : WriteConfirmed(r, v)
  PROVE  StoreTypeOK'
<1> USE DEF StoreTypeOK, ServiceStatus
<1>1. CASE FlipToInProgress(r)
  BY <1>1 DEF FlipToInProgress
<1>2. CASE \E s \in Sigs : WriteSignature(r, s)
  BY <1>2 DEF WriteSignature
<1>3. CASE \E v \in {"null", "zero", "real"} : WriteConfirmed(r, v)
  BY <1>3 DEF WriteConfirmed
<1> QED
  BY <1>1, <1>2, <1>3

\* So does the failure transaction: the floor of RestoreQuota keeps the meter
\* a natural number.
LEMMA FailType ==
  ASSUME StoreAssumption, StoreTypeOK, NEW r \in Requests, FailServiceRequest(r)
  PROVE  StoreTypeOK'
<1>1. OrgOf[r] \in Orgs
  BY DEF FailServiceRequest, StoreAssumption
<1> QED
  BY <1>1 DEF FailServiceRequest, RestoreQuota, StoreTypeOK, ServiceStatus

\* The part of the type invariant about the workers' own memory.
LocalType ==
    /\ pc \in [Workers -> Locations]
    /\ job \in [Workers -> Requests \cup {NoReq}]
    /\ sigOf \in [Workers -> Sigs \cup {NoSig}]
    /\ slotRead \in [Workers -> {"null", "zero", "real"}]
    /\ \A w \in Workers : pc[w] \notin {"down", "exited", "poll"} => job[w] \in Requests
    /\ \A w \in Workers : pc[w] \in {"persist", "confirm", "verify", "commit"} => sigOf[w] \in Sigs

\* Both ways a worker's control moves preserve it: Forget to a location that
\* has no job, Goto to one whose signature is already there.
LEMMA MoveType ==
  ASSUME LocalType, NEW w \in Workers,
         NEW l \in Locations,
         \/ Forget(w, l) /\ l \in {"down", "exited", "poll"}
         \/ Goto(w, l) /\ job[w] \in Requests
              /\ (l \in {"persist", "confirm", "verify", "commit"} => sigOf[w] \in Sigs)
  PROVE  LocalType'
  BY DEF LocalType, Forget, Goto

\* A fault stays within its bound.
LEMMA FaultType == WorkerAssumption /\ faults \in 0..MaxFaults /\ Fault => faults' \in 0..MaxFaults
  BY DEF Fault, WorkerAssumption

\* TypeOK, regrouped by whose state it is about.
LEMMA TypeParts ==
  /\ TypeOK <=> /\ StoreTypeOK /\ Chain!ChainTypeOK /\ LocalType /\ faults \in 0..MaxFaults
                /\ intake \in [Requests -> {"idle", "metered", "staged", "refused", "lost"}]
  /\ TypeOK' <=> /\ StoreTypeOK' /\ Chain!ChainTypeOK' /\ LocalType' /\ faults' \in 0..MaxFaults
                 /\ intake' \in [Requests -> {"idle", "metered", "staged", "refused", "lost"}]
  BY DEF TypeOK, WorkerTypeOK, LocalType

\* The worker's own steps preserve the type invariant.
LEMMA WorkerType ==
  ASSUME StoreAssumption, WorkerAssumption, TypeOK, UNCHANGED intake, NEW w \in Workers,
         Start(w) \/ RunOnce(w) \/ DbRefuses(w) \/ DbReplyLost(w) \/ Crash(w)
  PROVE  TypeOK'
<1> SUFFICES /\ StoreTypeOK' /\ Chain!ChainTypeOK' /\ LocalType' /\ faults' \in 0..MaxFaults
  BY TypeParts
<1>0. /\ StoreTypeOK /\ Chain!ChainTypeOK /\ LocalType /\ faults \in 0..MaxFaults
      /\ pc[w] \notin {"down", "exited", "poll"} => job[w] \in Requests
      /\ pc[w] \in {"persist", "confirm", "verify", "commit"} => sigOf[w] \in Sigs
      /\ sigOf[w] \in Sigs \cup {NoSig}
      /\ slotRead[w] \in {"null", "zero", "real"}
  BY TypeParts DEF LocalType
<1> USE <1>0
<1> HIDE DEF StoreTypeOK, LocalType
<1>s. UNCHANGED storeVars => StoreTypeOK'
  BY DEF storeVars, StoreTypeOK
<1>c. UNCHANGED chainVars => Chain!ChainTypeOK'
  BY DEF chainVars, Chain!ChainTypeOK
<1>n. ASSUME NothingClaimed(w) \/ Thrown(w) PROVE LocalType'
  <2>1. PICK l \in {"down", "exited", "poll"} : Forget(w, l)
    BY <1>n DEF NothingClaimed, Thrown
  <2> QED
    BY <2>1, MoveType DEF Locations
<1>f. Fault => faults' \in 0..MaxFaults
  BY FaultType
<1>b. ASSUME NEW s \in Sigs, Chain!Broadcast(s, job[w]), job[w] \in Requests
      PROVE  Chain!ChainTypeOK'
  BY <1>b DEF Chain!Broadcast, Chain!ChainTypeOK
<1>1. CASE Start(w)
  BY <1>1, <1>s, <1>c, MoveType DEF Start, Locations
<1>2. CASE Find(w)
  <2>1. LocalType'
    BY <1>2 DEF Find, LocalType, Locations, StoreTypeOK
  <2> QED
    BY <1>2, <2>1, <1>s, <1>c DEF Find
<1>3. CASE FindNothing(w)
  BY <1>3, <1>s, <1>c, <1>n DEF FindNothing
<1>4. CASE Claim(w)
  <2>1. LocalType'
    BY <1>4, MoveType DEF Claim, Locations
  <2>2. StoreTypeOK'
    BY <1>4 DEF Claim, FlipToInProgress, StoreTypeOK, ServiceStatus
  <2> QED
    BY <1>4, <2>1, <2>2, <1>c DEF Claim
<1>5. CASE LoseClaim(w)
  BY <1>5, <1>s, <1>c, <1>n DEF LoseClaim
<1>6. CASE Send(w)
  <2>1. PICK s \in Sigs : Chain!Broadcast(s, job[w]) /\ sigOf' = [sigOf EXCEPT ![w] = s]
    BY <1>6 DEF Send
  <2>2. LocalType'
    BY <1>6, <2>1 DEF Send, LocalType, Locations
  <2> QED
    BY <1>6, <2>1, <2>2, <1>s, <1>b DEF Send
<1>7. CASE SendFails(w) \/ ConfirmFails(w) \/ VerifyFails(w)
  BY <1>7, <1>s, <1>c, MoveType DEF SendFails, ConfirmFails, VerifyFails, Locations
<1>8. CASE SendReplyLost(w)
  BY <1>8, <1>s, <1>b, <1>f, MoveType DEF SendReplyLost, Locations
<1>9. CASE Persist(w)
  BY <1>9, <1>c, UpdateType, MoveType DEF Persist, Locations
<1>10. CASE Confirm(w)
  <2>1. LocalType'
    BY <1>10 DEF Confirm, LocalType, Locations
  <2> QED
    BY <1>10, <2>1, <1>s, <1>c DEF Confirm
<1>11. CASE Verify(w)
  BY <1>11, <1>s, <1>c, MoveType DEF Verify, Locations
<1>12. CASE Commit(w)
  BY <1>12, <1>c, UpdateType, MoveType DEF Commit, Locations
<1>13. CASE Fail(w)
  <2>1. StoreTypeOK'
    BY <1>13, FailType DEF Fail
  <2> QED
    BY <1>13, <2>1, <1>c, MoveType DEF Fail, Locations
<1>14. CASE FailThrows(w)
  BY <1>14, <1>s, <1>c, <1>n DEF FailThrows
<1>15. CASE DbRefuses(w)
  BY <1>15, <1>s, <1>c, <1>f, <1>n, MoveType DEF DbRefuses, Locations
<1>16. CASE DbReplyLost(w)
  <2>1. LocalType'
    BY <1>16, <1>n, MoveType DEF DbReplyLost, Locations
  <2>2. StoreTypeOK'
    BY <1>16, UpdateType, FailType DEF DbReplyLost
  <2> QED
    BY <1>16, <2>1, <2>2, <1>c, <1>f DEF DbReplyLost
<1>17. CASE Crash(w)
  BY <1>17, <1>s, <1>c, <1>f, MoveType DEF Crash, Locations
<1> QED
  BY <1>1, <1>2, <1>3, <1>4, <1>5, <1>6, <1>7, <1>8, <1>9, <1>10, <1>11, <1>12, <1>13,
     <1>14, <1>15, <1>16, <1>17 DEF RunOnce

\* Whoever takes the step, the types stay.
LEMMA TypeStep ==
  ASSUME StoreAssumption, WorkerAssumption, TypeOK, [Next]_vars
  PROVE  TypeOK'
<1>1. CASE \E s \in Sigs : Chain!Settle(s) /\ UNCHANGED <<storeVars, workerVars, intake>>
  BY <1>1 DEF Chain!Settle, TypeOK, WorkerTypeOK, StoreTypeOK, Chain!ChainTypeOK,
              storeVars, workerVars
<1>2. CASE UNCHANGED vars
  BY <1>2 DEF vars, coreVars, storeVars, workerVars, chainVars, TypeOK, WorkerTypeOK,
              StoreTypeOK, Chain!ChainTypeOK
<1> QED
  BY <1>1, <1>2, NextCases, IntakeType, WorkerType

\* Every variable keeps its type: in particular the meter never leaves the
\* naturals, whoever restores units, and a worker with work in hand always
\* holds a row and, past the send, a signature.
THEOREM TypeCorrect == Spec => []TypeOK
<1> USE StoreAssumption, WorkerAssumption
<1>1. Init => TypeOK
  BY DEF Init, WorkerInit, StoreInit, TypeOK, WorkerTypeOK, StoreTypeOK, Locations,
         Chain!ChainInit, Chain!ChainTypeOK, StoreAssumption, WorkerAssumption
<1>2. TypeOK /\ [Next]_vars => TypeOK'
  BY TypeStep
<1> QED
  BY <1>1, <1>2, PTL DEF Spec

-----------------------------------------------------------------------------
(* What holds whatever the number of workers.                              *)

\* A delivery goes forward whatever the number of workers: the claim, the only
\* statement that writes a non-terminal status over an existing one, is guarded,
\* and nothing takes a row back to STAGED or away.
LEMMA StatusForward ==
  ASSUME TypeOK, [Next]_vars
  PROVE  \A r \in Requests :
            /\ status[r] # "NONE" => status'[r] # "NONE"
            /\ status[r] \in {"IN_PROGRESS"} \cup Terminal => status'[r] \in {"IN_PROGRESS"} \cup Terminal
            /\ status[r] \in Terminal => status'[r] \in Terminal
<1> DEFINE Forward == \A r \in Requests :
              /\ status[r] # "NONE" => status'[r] # "NONE"
              /\ status[r] \in {"IN_PROGRESS"} \cup Terminal => status'[r] \in {"IN_PROGRESS"} \cup Terminal
              /\ status[r] \in Terminal => status'[r] \in Terminal
<1> USE DEF Terminal
<1>0. UNCHANGED status => Forward
  OBVIOUS
<1>s. status \in [Requests -> ServiceStatus \cup {"NONE"}]
  BY DEF TypeOK, WorkerTypeOK, StoreTypeOK
<1>w. ASSUME NEW r \in Requests,
             \/ FlipToInProgress(r)
             \/ \E s : WriteSignature(r, s)
             \/ \E v : WriteConfirmed(r, v)
             \/ FailServiceRequest(r)
      PROVE  Forward
  <2>1. CASE \E s : WriteSignature(r, s)
    BY <2>1, <1>0 DEF WriteSignature
  <2>2. CASE FlipToInProgress(r)
    BY <2>2, <1>s DEF FlipToInProgress, CLAIMABLE
  <2>3. CASE (\E v : WriteConfirmed(r, v)) \/ FailServiceRequest(r)
    BY <2>3, <1>s DEF WriteConfirmed, FailServiceRequest
  <2> QED
    BY <1>w, <2>1, <2>2, <2>3
<1>1. CASE \E r \in Requests : Meter(r) \/ Refuse(r) \/ Create(r) \/ CreateFails(r)
  BY <1>1, <1>s DEF Meter, Refuse, Create, CreateFails, CreateRow, coreVars, storeVars
<1>2. ASSUME NEW w \in Workers,
             Start(w) \/ RunOnce(w) \/ DbRefuses(w) \/ DbReplyLost(w) \/ Crash(w)
      PROVE  Forward
  <2>1. pc[w] \notin {"down", "exited", "poll"} => job[w] \in Requests
    BY DEF TypeOK, WorkerTypeOK
  <2>2. CASE Claim(w) \/ Persist(w) \/ Commit(w) \/ Fail(w) \/ DbReplyLost(w)
    BY <2>1, <2>2, <1>w DEF Claim, Persist, Commit, Fail, DbReplyLost
  <2>3. CASE ~(Claim(w) \/ Persist(w) \/ Commit(w) \/ Fail(w) \/ DbReplyLost(w))
    <3>1. UNCHANGED storeVars
      BY <1>2, <2>3 DEF RunOnce, Start, Find, FindNothing, LoseClaim, Send, SendFails,
         SendReplyLost, Confirm, ConfirmFails, Verify, VerifyFails, FailThrows, DbRefuses, Crash
    <3> QED
      BY <3>1, <1>0 DEF storeVars
  <2> QED
    BY <2>2, <2>3
<1>3. CASE \E s \in Sigs : Chain!Settle(s) /\ UNCHANGED <<storeVars, workerVars, intake>>
  BY <1>3, <1>0 DEF storeVars
<1>4. CASE UNCHANGED vars
  BY <1>4, <1>0 DEF vars, coreVars, storeVars
<1> QED
  BY <1>1, <1>2, <1>3, <1>4, NextCases

\* A terminal row is never claimed again.
THEOREM TerminalStays == Spec => TerminalNeverReopened
<1> DEFINE Stays == \A r \in Requests : status[r] \in Terminal => status'[r] \in Terminal
<1>1. TypeOK /\ [Next]_vars => Stays
  BY StatusForward
<1> QED
  BY <1>1, TypeCorrect, PTL DEF Spec, TerminalNeverReopened

\* What the cluster finalized stays finalized, under the memo it has.
LEMMA ChainMonotone ==
  ASSUME TypeOK, [Next]_vars, NEW s \in Sigs, Chain!Finalized(s)
  PROVE  Chain!Finalized(s)' /\ memoOf'[s] = memoOf[s]
<1> USE DEF Chain!Finalized
<1>t. memoOf \in [Sigs -> Requests \cup {NoReq}] /\ DOMAIN txState = Sigs
  BY DEF TypeOK, WorkerTypeOK, Chain!ChainTypeOK
<1>0. UNCHANGED chainVars => Chain!Finalized(s)' /\ memoOf'[s] = memoOf[s]
  BY DEF chainVars
<1>1. CASE \E r \in Requests : Meter(r) \/ Refuse(r) \/ Create(r) \/ CreateFails(r)
  BY <1>0, <1>1 DEF Meter, Refuse, Create, CreateFails, coreVars
<1>2. ASSUME NEW w \in Workers,
             Start(w) \/ RunOnce(w) \/ DbRefuses(w) \/ DbReplyLost(w) \/ Crash(w)
      PROVE  Chain!Finalized(s)' /\ memoOf'[s] = memoOf[s]
  <2>1. CASE Send(w) \/ SendReplyLost(w)
    BY <1>t, <2>1 DEF Send, SendReplyLost, Chain!Broadcast
  <2>2. CASE ~(Send(w) \/ SendReplyLost(w))
    <3>1. UNCHANGED chainVars
      BY <1>2, <2>2 DEF RunOnce, Start, Find, FindNothing, Claim, LoseClaim, SendFails, Persist,
         Confirm, ConfirmFails, Verify, VerifyFails, Commit, Fail, FailThrows, DbRefuses,
         DbReplyLost, Crash
    <3> QED
      BY <3>1, <1>0
  <2> QED
    BY <2>1, <2>2
<1>3. CASE \E q \in Sigs : Chain!Settle(q) /\ UNCHANGED <<storeVars, workerVars, intake>>
  BY <1>t, <1>3 DEF Chain!Settle
<1>4. CASE UNCHANGED vars
  BY <1>4, <1>0 DEF vars, coreVars
<1> QED
  BY <1>1, <1>2, <1>3, <1>4, NextCases

\* The memo of a transaction about to be reported as CONFIRMED was compared.
Verified ==
    \A w \in Workers : pc[w] = "commit" =>
        memoOf[sigOf[w]] = job[w] /\ Chain!Finalized(sigOf[w])

\* A row gets CONFIRMED only with such a transaction.
NewlyProven ==
    \A r \in Requests : status'[r] = "CONFIRMED" =>
        status[r] = "CONFIRMED" \/ \E s \in Sigs : memoOf'[s] = r /\ Chain!Finalized(s)'

\* The comparison and its outcome survive every step, whoever takes it.
LEMMA VerifiedStep ==
  ASSUME TypeOK, TypeOK', Verified, [Next]_vars
  PROVE  Verified' /\ NewlyProven
<1>t. /\ status \in [Requests -> ServiceStatus \cup {"NONE"}]
      /\ pc \in [Workers -> Locations]
      /\ job \in [Workers -> Requests \cup {NoReq}]
      /\ sigOf \in [Workers -> Sigs \cup {NoSig}]
      /\ \A w \in Workers : pc[w] = "commit" => sigOf[w] \in Sigs /\ job[w] \in Requests
  BY DEF TypeOK, WorkerTypeOK, StoreTypeOK
<1>m. \A s \in Sigs : Chain!Finalized(s) => Chain!Finalized(s)' /\ memoOf'[s] = memoOf[s]
  BY ChainMonotone
\* It is enough to look at who enters "commit", and which row gets CONFIRMED.
<1>v. ASSUME \A w \in Workers : pc'[w] = "commit" =>
                \/ pc[w] = "commit" /\ sigOf'[w] = sigOf[w] /\ job'[w] = job[w]
                \/ /\ sigOf'[w] \in Sigs
                   /\ memoOf[sigOf'[w]] = job'[w]
                   /\ Chain!Finalized(sigOf'[w])
      PROVE  Verified'
  BY <1>t, <1>m, <1>v DEF Verified
<1>c. ASSUME \A r \in Requests : status'[r] = "CONFIRMED" =>
                status[r] = "CONFIRMED" \/ \E w \in Workers : pc[w] = "commit" /\ job[w] = r
      PROVE  NewlyProven
  <2>1. ASSUME NEW w \in Workers, pc[w] = "commit"
        PROVE  \E s \in Sigs : memoOf'[s] = job[w] /\ Chain!Finalized(s)'
    BY <1>t, <1>m, <2>1 DEF Verified
  <2> QED
    BY <1>c, <2>1 DEF NewlyProven
<1>0. UNCHANGED workerVars => Verified'
  BY <1>v, <1>t DEF workerVars
<1>s. UNCHANGED status => NewlyProven
  BY <1>c
<1>1. CASE \E r \in Requests : Meter(r) \/ Refuse(r) \/ Create(r) \/ CreateFails(r)
  <2>1. UNCHANGED workerVars
    BY <1>1 DEF Meter, Refuse, Create, CreateFails, coreVars
  <2>2. \A r \in Requests : status'[r] = "CONFIRMED" => status[r] = "CONFIRMED"
    BY <1>1, <1>t DEF Meter, Refuse, Create, CreateFails, CreateRow, coreVars, storeVars
  <2> QED
    BY <1>0, <1>c, <2>1, <2>2
<1>2. ASSUME NEW w \in Workers,
             Start(w) \/ RunOnce(w) \/ DbRefuses(w) \/ DbReplyLost(w) \/ Crash(w)
      PROVE  Verified' /\ NewlyProven
  <2> USE <1>t
  <2>1. CASE Verify(w)
    <3>1. sigOf[w] \in Sigs
      BY <2>1 DEF Verify, TypeOK, WorkerTypeOK
    <3>2. Verified'
      BY <2>1, <3>1, <1>v DEF Verify, Goto
    <3> QED
      BY <2>1, <3>2, <1>s DEF Verify, storeVars
  <2>2. CASE ~Verify(w)
    <3>1. \A v \in Workers : pc'[v] = "commit" =>
             pc[v] = "commit" /\ sigOf'[v] = sigOf[v] /\ job'[v] = job[v]
      <4>1. \A l : Forget(w, l) /\ l # "commit" => \A v \in Workers : pc'[v] = "commit" =>
               pc[v] = "commit" /\ sigOf'[v] = sigOf[v] /\ job'[v] = job[v]
        BY DEF Forget
      <4>2. \A l : Goto(w, l) /\ l # "commit" => \A v \in Workers : pc'[v] = "commit" =>
               pc[v] = "commit" /\ sigOf'[v] = sigOf[v] /\ job'[v] = job[v]
        BY DEF Goto
      <4>3. CASE Find(w) \/ Send(w) \/ Confirm(w)
        BY <4>3 DEF Find, Send, Confirm
      <4>4. CASE ~(Find(w) \/ Send(w) \/ Confirm(w))
        BY <1>2, <2>2, <4>1, <4>2, <4>4 DEF RunOnce, Start, FindNothing, Claim, LoseClaim,
           SendFails, SendReplyLost, Persist, ConfirmFails, VerifyFails, Commit, Fail, FailThrows,
           DbRefuses, DbReplyLost, Crash, NothingClaimed, Thrown
      <4> QED
        BY <4>3, <4>4
    <3>2. \A r \in Requests : status'[r] = "CONFIRMED" =>
             status[r] = "CONFIRMED" \/ (pc[w] = "commit" /\ job[w] = r)
      <4>1. CASE Claim(w) \/ Persist(w) \/ Commit(w) \/ Fail(w) \/ DbReplyLost(w)
        BY <4>1 DEF Claim, Persist, Commit, Fail, DbReplyLost, FlipToInProgress, WriteSignature,
           WriteConfirmed, FailServiceRequest
      <4>2. CASE ~(Claim(w) \/ Persist(w) \/ Commit(w) \/ Fail(w) \/ DbReplyLost(w))
        BY <1>2, <4>2 DEF RunOnce, Start, Find, FindNothing, LoseClaim, Send, SendFails,
           SendReplyLost, Confirm, ConfirmFails, Verify, VerifyFails, FailThrows, DbRefuses, Crash,
           storeVars
      <4> QED
        BY <4>1, <4>2
    <3> QED
      BY <3>1, <3>2, <1>v, <1>c
  <2> QED
    BY <2>1, <2>2
<1>3. CASE \E s \in Sigs : Chain!Settle(s) /\ UNCHANGED <<storeVars, workerVars, intake>>
  BY <1>3, <1>0, <1>s DEF storeVars
<1>4. CASE UNCHANGED vars
  BY <1>4, <1>0, <1>s DEF vars, coreVars, storeVars
<1> QED
  BY <1>1, <1>2, <1>3, <1>4, NextCases

\* So does the proof a CONFIRMED row has.
LEMMA ProvenStep ==
  ASSUME TypeOK, TypeOK', Verified, ConfirmedIsProven, [Next]_vars
  PROVE  Verified' /\ ConfirmedIsProven'
<1>1. Verified' /\ NewlyProven
  BY VerifiedStep
<1>2. \A s \in Sigs : Chain!Finalized(s) => Chain!Finalized(s)' /\ memoOf'[s] = memoOf[s]
  BY ChainMonotone
<1> QED
  BY <1>1, <1>2 DEF NewlyProven, ConfirmedIsProven

\* A CONFIRMED row is backed by a finalized transaction with its own memo, for
\* any number of workers, crashes and database errors of either kind.
THEOREM ConfirmedProven == Spec => []ConfirmedIsProven
<1>1. Init => Verified /\ ConfirmedIsProven
  BY DEF Init, WorkerInit, StoreInit, Verified, ConfirmedIsProven
<1>2. TypeOK /\ TypeOK' /\ Verified /\ ConfirmedIsProven /\ [Next]_vars
        => Verified' /\ ConfirmedIsProven'
  BY ProvenStep
<1> QED
  BY <1>1, <1>2, TypeCorrect, PTL DEF Spec

-----------------------------------------------------------------------------
(* What holds of a single worker, restarted after crashes, and a database  *)
(* whose calls fail in either way.                                         *)

Solo == \A v, w \in Workers : v = w

\* The inductive invariant: what the worker remembers agrees with the row.
\* The snapshot of findFirst is not stale; the row it works on is IN_PROGRESS,
\* unless the answer to its final update was lost; and the signature in memory
\* is the one on the row, except between the broadcast and its update, when the
\* row has none.
InMemory(w) ==
    /\ pc[w] = "claim" => status[job[w]] \in CLAIMABLE /\ sigOf[w] = txSignature[job[w]]
    /\ Holding(w) => \/ status[job[w]] = "IN_PROGRESS"
                     \/ pc[w] = "fail" /\ status[job[w]] = "CONFIRMED" /\ faults > 0
    /\ pc[w] \in {"send", "persist"} => txSignature[job[w]] = NoSig
    /\ pc[w] \in {"confirm", "verify", "commit"} => sigOf[w] = txSignature[job[w]]

SoloInv ==
    /\ \A w \in Workers : InMemory(w)
    /\ Verified
    /\ ConfirmedBySignature
    /\ FailureAudited

\* What a step does to the outcome of request q, and to its signature.
OutcomeStep(q) ==
    /\ status[q] = "FAILED" => status'[q] = "FAILED"
    /\ status[q] = "CONFIRMED" /\ status'[q] # "CONFIRMED" =>
          InDoubt(q) /\ faults > 0 /\ status'[q] = "FAILED"

SignatureStep(q) == txSignature[q] # NoSig => txSignature'[q] = txSignature[q]

\* No step of an intake handler disturbs a row that exists.
LEMMA SoloIntake ==
  ASSUME TypeOK, SoloInv, NEW r \in Requests, Meter(r) \/ Refuse(r) \/ Create(r) \/ CreateFails(r)
  PROVE  /\ \A w \in Workers : InMemory(w)'
         /\ ConfirmedBySignature' /\ FailureAudited'
         /\ \A q \in Requests : OutcomeStep(q)
         /\ UNCHANGED txSignature
<1> USE DEF OutcomeStep
<1> USE DEF TypeOK, WorkerTypeOK, StoreTypeOK, Terminal, ServiceStatus
<1>1. CASE Create(r)
  <2>1. /\ status[r] = "NONE" /\ status' = [status EXCEPT ![r] = "STAGED"]
        /\ UNCHANGED <<txSignature, audits, workerVars, chainVars>>
    BY <1>1 DEF Create, CreateRow
  <2>2. \A w \in Workers : InMemory(w)'
    BY <2>1 DEF SoloInv, InMemory, Holding, workerVars, CLAIMABLE
  <2> QED
    BY <2>1, <2>2 DEF SoloInv, ConfirmedBySignature, FailureAudited, chainVars, Chain!Finalized
<1>2. CASE Meter(r) \/ Refuse(r) \/ CreateFails(r)
  <2>1. UNCHANGED <<status, txSignature, audits, workerVars, chainVars>>
    BY <1>2 DEF Meter, Refuse, CreateFails, coreVars, storeVars
  <2> QED
    BY <2>1 DEF SoloInv, InMemory, Holding, ConfirmedBySignature, FailureAudited, workerVars,
       chainVars, Chain!Finalized
<1> QED
  BY <1>1, <1>2

\* One step of the only worker: the invariant survives, an outcome is
\* not revised but in doubt and a signature is not replaced.
LEMMA SoloWorker ==
  ASSUME Solo, StoreAssumption, WorkerAssumption, TypeOK, TypeOK', SoloInv, [Next]_vars, NEW w \in Workers,
         Start(w) \/ RunOnce(w) \/ DbRefuses(w) \/ DbReplyLost(w) \/ Crash(w)
  PROVE  /\ \A v \in Workers : InMemory(v)'
         /\ ConfirmedBySignature' /\ FailureAudited'
         /\ \A q \in Requests : OutcomeStep(q) /\ SignatureStep(q)
<1> DEFINE Final == \A q \in Requests : OutcomeStep(q)
           Kept == \A q \in Requests : SignatureStep(q)
<1> SUFFICES InMemory(w)' /\ ConfirmedBySignature' /\ FailureAudited' /\ Final /\ Kept
  BY DEF Solo
<1>t. /\ status \in [Requests -> ServiceStatus \cup {"NONE"}]
      /\ txSignature \in [Requests -> Sigs \cup {NoSig}]
      /\ audits \in [Requests -> Nat]
      /\ pc \in [Workers -> Locations]
      /\ job \in [Workers -> Requests \cup {NoReq}]
      /\ sigOf \in [Workers -> Sigs \cup {NoSig}]
      /\ pc[w] \notin {"down", "exited", "poll"} => job[w] \in Requests
      /\ pc[w] \in {"persist", "confirm", "verify", "commit"} => sigOf[w] \in Sigs
      /\ NoSig \notin Sigs /\ faults \in Nat
  BY DEF TypeOK, WorkerTypeOK, StoreTypeOK, StoreAssumption, WorkerAssumption
<1> USE <1>t DEF CLAIMABLE, OutcomeStep, SignatureStep
<1>i. InMemory(w) /\ Verified /\ ConfirmedBySignature /\ FailureAudited
  BY DEF SoloInv
<1>m. \A s \in Sigs : Chain!Finalized(s) => Chain!Finalized(s)' /\ memoOf'[s] = memoOf[s]
  BY ChainMonotone
\* With the tables unchanged only the worker's memory is left to look at.
<1>s. UNCHANGED storeVars => ConfirmedBySignature' /\ FailureAudited' /\ Final /\ Kept
  BY <1>i, <1>m DEF storeVars, ConfirmedBySignature, FailureAudited
<1>f. ASSUME NEW l \in {"down", "exited", "poll"}, Forget(w, l) PROVE InMemory(w)'
  BY <1>f DEF Forget, InMemory, Holding
<1>g. ASSUME Goto(w, "fail"), UNCHANGED storeVars, Holding(w), pc[w] # "fail" PROVE InMemory(w)'
  BY <1>g, <1>i DEF Goto, storeVars, InMemory, Holding
<1>1. CASE Start(w) \/ FindNothing(w) \/ LoseClaim(w) \/ FailThrows(w) \/ Crash(w)
  BY <1>1, <1>s, <1>f DEF Start, FindNothing, LoseClaim, FailThrows, Crash, NothingClaimed, Thrown
<1>2. CASE Find(w)
  <2>1. InMemory(w)'
    BY <1>2 DEF Find, InMemory, Holding, storeVars, IsOldestClaimable, Claimable
  <2> QED
    BY <1>2, <2>1, <1>s DEF Find
<1>3. CASE Claim(w)
  BY <1>3, <1>i, <1>m DEF Claim, FlipToInProgress, Goto, InMemory, Holding, ConfirmedBySignature,
     FailureAudited
<1>4. CASE Send(w)
  <2>1. InMemory(w)'
    BY <1>4, <1>i DEF Send, InMemory, Holding, storeVars
  <2> QED
    BY <1>4, <2>1, <1>s DEF Send
<1>5. CASE SendFails(w) \/ SendReplyLost(w) \/ ConfirmFails(w) \/ VerifyFails(w)
  BY <1>5, <1>s, <1>g DEF SendFails, SendReplyLost, ConfirmFails, VerifyFails, Holding
<1>6. CASE Persist(w)
  BY <1>6, <1>i, <1>m DEF Persist, WriteSignature, Goto, InMemory, Holding, ConfirmedBySignature,
     FailureAudited
<1>7. CASE Confirm(w)
  <2>1. InMemory(w)'
    BY <1>7, <1>i DEF Confirm, InMemory, Holding, storeVars
  <2> QED
    BY <1>7, <2>1, <1>s DEF Confirm
<1>8. CASE Verify(w)
  <2>1. InMemory(w)'
    BY <1>8, <1>i DEF Verify, Goto, InMemory, Holding, storeVars
  <2> QED
    BY <1>8, <2>1, <1>s DEF Verify
<1>9. CASE Commit(w)
  <2>1. ConfirmedBySignature'
    BY <1>9, <1>i, <1>m DEF Commit, WriteConfirmed, Verified, InMemory, ConfirmedBySignature
  <2> QED
    BY <1>9, <2>1, <1>i, <1>f DEF Commit, WriteConfirmed, InMemory, Holding, FailureAudited
\* deps.fail: of a row in progress, or of one confirmed in doubt.
<1>x. ASSUME pc[w] = "fail", FailServiceRequest(job[w])
      PROVE  ConfirmedBySignature' /\ FailureAudited' /\ Final /\ Kept
  <2>1. /\ status' = [status EXCEPT ![job[w]] = "FAILED"] /\ audits' = [audits EXCEPT ![job[w]] = @ + 1]
        /\ UNCHANGED txSignature
    BY <1>x DEF FailServiceRequest
  <2>2. \/ status[job[w]] = "IN_PROGRESS"
        \/ status[job[w]] = "CONFIRMED" /\ faults > 0 /\ InDoubt(job[w])
    BY <1>x, <1>i DEF InMemory, Holding, InDoubt
  <2>3. ConfirmedBySignature'
    BY <2>1, <1>i, <1>m DEF ConfirmedBySignature
  <2>4. FailureAudited'
    BY <2>1, <2>2, <1>i, <1>x DEF FailureAudited
  <2> QED
    BY <2>1, <2>2, <2>3, <2>4, <1>x
<1>10. CASE Fail(w)
  BY <1>10, <1>x, <1>f DEF Fail
<1>11. CASE DbRefuses(w)
  BY <1>11, <1>s, <1>f, <1>g DEF DbRefuses, Thrown, Holding
<1>12. CASE DbReplyLost(w)
  <2>1. faults' = faults + 1 /\ UNCHANGED chainVars
    BY <1>12 DEF DbReplyLost, Fault
  <2>2. CASE pc[w] = "claim" /\ FlipToInProgress(job[w]) /\ Thrown(w)
    BY <2>2, <1>i, <1>m, <1>f DEF FlipToInProgress, Thrown, InMemory, ConfirmedBySignature, FailureAudited
  <2>3. CASE pc[w] = "persist" /\ WriteSignature(job[w], sigOf[w]) /\ Goto(w, "fail")
    BY <2>3, <1>i, <1>m DEF WriteSignature, Goto, InMemory, Holding, ConfirmedBySignature, FailureAudited
  <2>4. CASE pc[w] = "commit" /\ WriteConfirmed(job[w], slotRead[w]) /\ Goto(w, "fail")
    <3>1. ConfirmedBySignature'
      BY <2>4, <1>i, <1>m DEF WriteConfirmed, Verified, InMemory, ConfirmedBySignature
    <3>2. InMemory(w)'
      BY <2>1, <2>4, <1>i DEF WriteConfirmed, Goto, InMemory, Holding
    <3> QED
      BY <2>4, <3>1, <3>2, <1>i DEF WriteConfirmed, InMemory, Holding, FailureAudited
  <2>5. CASE pc[w] = "fail" /\ FailServiceRequest(job[w]) /\ Thrown(w)
    BY <2>5, <1>x, <1>f DEF Thrown
  <2> QED
    BY <1>12, <2>2, <2>3, <2>4, <2>5 DEF DbReplyLost
<1> QED
  BY <1>1, <1>2, <1>3, <1>4, <1>5, <1>6, <1>7, <1>8, <1>9, <1>10, <1>11, <1>12 DEF RunOnce

\* The cluster's steps and stuttering leave the tables and the worker alone.
LEMMA SoloStep ==
  ASSUME Solo, StoreAssumption, WorkerAssumption, TypeOK, TypeOK', SoloInv, [Next]_vars
  PROVE  /\ SoloInv'
         /\ \A q \in Requests : OutcomeStep(q) /\ SignatureStep(q)
<1>1. Verified'
  <2>1. ConfirmedIsProven
    BY DEF SoloInv, ConfirmedBySignature, ConfirmedIsProven
  <2> QED
    BY <2>1, ProvenStep DEF SoloInv
<1>2. CASE UNCHANGED <<storeVars, workerVars>>
  <2>1. \A s \in Sigs : Chain!Finalized(s) => Chain!Finalized(s)' /\ memoOf'[s] = memoOf[s]
    BY ChainMonotone
  <2> QED
    BY <1>1, <1>2, <2>1 DEF SoloInv, InMemory, Holding, ConfirmedBySignature, FailureAudited,
       storeVars, workerVars, OutcomeStep, SignatureStep
<1> QED
  BY <1>1, <1>2, NextCases, SoloIntake, SoloWorker DEF SoloInv, vars, coreVars, SignatureStep

\* A single worker's outcome, signature and audit row belong together: the
\* signature on a CONFIRMED row is the verified one, and a row is FAILED
\* exactly when it was audited, once.
THEOREM SoloSafety == Solo => (Spec => [](ConfirmedBySignature /\ FailureAudited))
<1>1. Init => SoloInv
  BY DEF Init, WorkerInit, StoreInit, SoloInv, InMemory, Holding, Verified, ConfirmedBySignature,
         FailureAudited
<1>2. Solo /\ TypeOK /\ TypeOK' /\ SoloInv /\ [Next]_vars => SoloInv'
  BY SoloStep, StoreAssumption, WorkerAssumption
<1>3. SoloInv => ConfirmedBySignature /\ FailureAudited
  BY DEF SoloInv
<1>4. SUFFICES ASSUME Solo PROVE Spec => [](ConfirmedBySignature /\ FailureAudited)
  OBVIOUS
<1> QED
  BY <1>1, <1>2, <1>3, <1>4, TypeCorrect, PTL DEF Spec

\* With a single worker a signature on record is never overwritten and outcomes
\* are final, although the updates are by id only; but for a row whose final
\* update was carried out and not answered, which the worker goes on to fail.
THEOREM SoloFinal == Solo => (Spec => RevisedOnlyInDoubt)
<1>1. Init => SoloInv
  BY DEF Init, WorkerInit, StoreInit, SoloInv, InMemory, Holding, Verified, ConfirmedBySignature,
         FailureAudited
<1> DEFINE Kept == \A r \in Requests :
              /\ status[r] = "FAILED" => status'[r] = "FAILED"
              /\ status[r] = "CONFIRMED" /\ status'[r] # "CONFIRMED" =>
                    InDoubt(r) /\ faults > 0 /\ status'[r] = "FAILED"
              /\ txSignature[r] # NoSig => txSignature'[r] = txSignature[r]
<1>2. Solo /\ TypeOK /\ TypeOK' /\ SoloInv /\ [Next]_vars => SoloInv' /\ Kept
  BY SoloStep, StoreAssumption, WorkerAssumption DEF OutcomeStep, SignatureStep
<1>3. SUFFICES ASSUME Solo PROVE Spec => RevisedOnlyInDoubt
  OBVIOUS
<1> HIDE DEF Kept
<1>4. Spec => [][Kept]_vars
  BY <1>1, <1>2, <1>3, TypeCorrect, PTL DEF Spec
<1> QED
  BY <1>4 DEF RevisedOnlyInDoubt, Kept

\* With a single worker the three effects of deps.fail are there together: a row
\* is FAILED exactly when it was audited, and it was audited once.
THEOREM FailuresAudited == Solo => (Spec => []FailureAudited)
<1>1. SUFFICES ASSUME Solo PROVE Spec => []FailureAudited
  OBVIOUS
<1> QED
  BY <1>1, SoloSafety, PTL

-----------------------------------------------------------------------------
(* The meter, and the promise of ServiceLifecycle.                         *)

\* A request has a row exactly when its handler got to create it.
RowPerSubmission == \A q \in Requests : intake[q] = "staged" <=> status[q] # "NONE"

\* One submission changes its phase.
PhaseMoves(r, from, to) ==
    /\ Phase(r) \in from /\ Phase(r)' = to
    /\ \A q \in Requests : q # r => Phase(q)' = Phase(q)

\* ... to one that holds as many units.
Unmetered(r) ==
    \/ PhaseMoves(r, {"reserved"}, "forfeited")
    \/ PhaseMoves(r, {"reserved"}, "open")
    \/ PhaseMoves(r, {"open"}, "doubtful") /\ faults' = faults + 1
    \/ PhaseMoves(r, {"open", "doubtful"}, "served")

\* The steps of the system as ServiceLifecycle counts them.
MeterStep ==
    /\ faults' \in {faults, faults + 1}
    /\ \/ (\A q \in Requests : Phase(q)' = Phase(q)) /\ UNCHANGED usageCount
       \/ \E r \in Requests :
            \/ /\ PhaseMoves(r, {"none"}, "reserved")
               /\ IF OrgOf[r] = NoOrg THEN UNCHANGED usageCount ELSE CheckAndDecrementQuota(OrgOf[r])
            \/ Unmetered(r) /\ UNCHANGED usageCount
            \/ PhaseMoves(r, {"open", "doubtful"}, "returned") /\ OrgOf[r] # NoOrg /\ RestoreQuota(OrgOf[r])

\* The phase, case by case.
LEMMA PhaseCases ==
  ASSUME NEW r
  PROVE  /\ intake[r] \in {"idle", "refused"} => Phase(r) = "none"
         /\ intake[r] = "metered" => Phase(r) = "reserved"
         /\ intake[r] = "lost" => Phase(r) = "forfeited"
         /\ intake[r] = "staged" /\ InDoubt(r) => Phase(r) = "doubtful"
         /\ intake[r] = "staged" /\ status[r] = "CONFIRMED" /\ ~InDoubt(r) => Phase(r) = "served"
         /\ intake[r] = "staged" /\ status[r] = "FAILED" => Phase(r) = "returned"
         /\ intake[r] = "staged" /\ status[r] \notin {"CONFIRMED", "FAILED"} => Phase(r) = "open"
<1>1. InDoubt(r) => status[r] = "CONFIRMED"
  BY DEF InDoubt
<1> QED
  BY <1>1 DEF Phase

\* The same of the state a step ends in.
LEMMA NextPhaseCases ==
  ASSUME NEW r
  PROVE  /\ intake'[r] \in {"idle", "refused"} => Phase(r)' = "none"
         /\ intake'[r] = "metered" => Phase(r)' = "reserved"
         /\ intake'[r] = "lost" => Phase(r)' = "forfeited"
         /\ intake'[r] = "staged" /\ InDoubt(r)' => Phase(r)' = "doubtful"
         /\ intake'[r] = "staged" /\ status'[r] = "CONFIRMED" /\ ~InDoubt(r)' => Phase(r)' = "served"
         /\ intake'[r] = "staged" /\ status'[r] = "FAILED" => Phase(r)' = "returned"
         /\ intake'[r] = "staged" /\ status'[r] \notin {"CONFIRMED", "FAILED"} => Phase(r)' = "open"
<1>1. InDoubt(r)' => status'[r] = "CONFIRMED"
  BY DEF InDoubt
<1> QED
  BY <1>1 DEF Phase

\* A submission that no statement touched and no worker took up or let go.
LEMMA PhaseKept ==
  ASSUME NEW q, intake'[q] = intake[q], status'[q] = status[q], InDoubt(q)' <=> InDoubt(q)
  PROVE  Phase(q)' = Phase(q)
BY DEF Phase

\* ... which is so of every other submission when the workers stand still.
LEMMA WorkersStand ==
  ASSUME NEW q, intake'[q] = intake[q], status'[q] = status[q], UNCHANGED <<pc, job>>
  PROVE  Phase(q)' = Phase(q)
<1>1. InDoubt(q)' <=> InDoubt(q)
  BY DEF InDoubt
<1> QED
  BY <1>1, PhaseKept

\* The handler of POST.
LEMMA IntakeMeters ==
  ASSUME TypeOK, RowPerSubmission, NEW r \in Requests, Meter(r) \/ Refuse(r) \/ Create(r) \/ CreateFails(r)
  PROVE  MeterStep /\ RowPerSubmission'
<1>t. /\ intake \in [Requests -> {"idle", "metered", "staged", "refused", "lost"}]
      /\ status \in [Requests -> ServiceStatus \cup {"NONE"}]
  BY DEF TypeOK, WorkerTypeOK, StoreTypeOK
<1>c. /\ intake[r] = "idle" => Phase(r) = "none"
      /\ intake[r] = "metered" => Phase(r) = "reserved"
  BY PhaseCases
<1>w. UNCHANGED <<pc, job, faults>>
  BY DEF Meter, Refuse, Create, CreateFails, coreVars, workerVars
<1>1. CASE Meter(r)
  <2>1. intake[r] = "idle" /\ intake' = [intake EXCEPT ![r] = "metered"] /\ UNCHANGED status
    BY <1>1 DEF Meter
  <2>2. intake'[r] = "metered" /\ \A q \in Requests : q # r => intake'[q] = intake[q] /\ status'[q] = status[q]
    BY <1>t, <2>1
  <2>3. PhaseMoves(r, {"none"}, "reserved")
    BY <1>c, <2>1, <2>2, NextPhaseCases, WorkersStand, <1>w DEF PhaseMoves
  <2>4. RowPerSubmission'
    BY <2>1, <2>2 DEF RowPerSubmission
  <2> QED
    BY <1>1, <1>w, <2>3, <2>4 DEF Meter, MeterStep
<1>2. CASE Refuse(r)
  <2>1. intake[r] = "idle" /\ intake' = [intake EXCEPT ![r] = "refused"] /\ UNCHANGED <<status, usageCount>>
    BY <1>2 DEF Refuse, coreVars, storeVars
  <2>2. intake'[r] = "refused" /\ \A q \in Requests : q # r => intake'[q] = intake[q] /\ status'[q] = status[q]
    BY <1>t, <2>1
  <2>3. \A q \in Requests : Phase(q)' = Phase(q)
    BY <1>c, <2>1, <2>2, NextPhaseCases, WorkersStand, <1>w
  <2>4. RowPerSubmission'
    BY <2>1, <2>2 DEF RowPerSubmission
  <2> QED
    BY <1>w, <2>1, <2>3, <2>4 DEF MeterStep, Unmetered
<1>3. CASE Create(r)
  <2>1. /\ intake[r] = "metered" /\ intake' = [intake EXCEPT ![r] = "staged"] /\ UNCHANGED usageCount
        /\ status' = [status EXCEPT ![r] = "STAGED"]
    BY <1>3 DEF Create, CreateRow
  <2>2. /\ intake'[r] = "staged" /\ status'[r] = "STAGED"
        /\ \A q \in Requests : q # r => intake'[q] = intake[q] /\ status'[q] = status[q]
    BY <1>t, <2>1
  <2>3. PhaseMoves(r, {"reserved"}, "open")
    BY <1>c, <2>1, <2>2, NextPhaseCases, WorkersStand, <1>w DEF PhaseMoves
  <2>4. RowPerSubmission'
    BY <2>2 DEF RowPerSubmission
  <2> QED
    BY <1>w, <2>1, <2>3, <2>4 DEF MeterStep, Unmetered
<1>4. CASE CreateFails(r)
  <2>1. intake[r] = "metered" /\ intake' = [intake EXCEPT ![r] = "lost"] /\ UNCHANGED <<status, usageCount>>
    BY <1>4 DEF CreateFails, coreVars, storeVars
  <2>2. intake'[r] = "lost" /\ \A q \in Requests : q # r => intake'[q] = intake[q] /\ status'[q] = status[q]
    BY <1>t, <2>1
  <2>3. PhaseMoves(r, {"reserved"}, "forfeited")
    BY <1>c, <2>1, <2>2, NextPhaseCases, WorkersStand, <1>w DEF PhaseMoves
  <2>4. RowPerSubmission'
    BY <2>1, <2>2 DEF RowPerSubmission
  <2> QED
    BY <1>w, <2>1, <2>3, <2>4 DEF MeterStep, Unmetered
<1> QED
  BY <1>1, <1>2, <1>3, <1>4

\* What the only worker does to the two tables in a step, and whether it goes on
\* to fail the row: a claim, the final update, answered or not, the transaction
\* of deps.fail, or nothing.
WorkerTouches(w) ==
    \/ UNCHANGED <<status, usageCount>> /\ (pc'[w] = "fail" => status[job'[w]] = "IN_PROGRESS")
    \/ pc[w] = "claim" /\ FlipToInProgress(job[w]) /\ pc'[w] # "fail"
    \/ /\ pc[w] = "commit" /\ WriteConfirmed(job[w], slotRead[w])
       /\ pc'[w] = "fail" => job'[w] = job[w] /\ faults' = faults + 1
    \/ pc[w] = "fail" /\ FailServiceRequest(job[w]) /\ pc'[w] # "fail"

\* Every step of the only worker is one of these.
LEMMA WorkerSteps ==
  ASSUME TypeOK, SoloInv, NEW w \in Workers,
         Start(w) \/ RunOnce(w) \/ DbRefuses(w) \/ DbReplyLost(w) \/ Crash(w)
  PROVE  faults' \in {faults, faults + 1} /\ WorkerTouches(w)
<1>t. pc \in [Workers -> Locations] /\ job \in [Workers -> Requests \cup {NoReq}]
  BY DEF TypeOK, WorkerTypeOK
<1>i. Holding(w) /\ pc[w] # "fail" => status[job[w]] = "IN_PROGRESS"
  BY DEF SoloInv, InMemory
<1>f. ASSUME NEW l, l # "fail", Forget(w, l) PROVE pc'[w] # "fail"
  BY <1>f, <1>t DEF Forget
<1>g. ASSUME Goto(w, "fail") PROVE pc'[w] = "fail" /\ job'[w] = job[w]
  BY <1>g, <1>t DEF Goto
<1>h. ASSUME NEW l, l # "fail", Goto(w, l) PROVE pc'[w] # "fail"
  BY <1>h, <1>t DEF Goto
<1>s. UNCHANGED storeVars => UNCHANGED <<status, usageCount>>
  BY DEF storeVars
<1>1. CASE Start(w) \/ FindNothing(w) \/ LoseClaim(w) \/ FailThrows(w) \/ Crash(w)
  BY <1>1, <1>f, <1>s DEF Start, FindNothing, LoseClaim, FailThrows, Crash, NothingClaimed, Thrown, Fault,
     WorkerTouches
<1>2. CASE Find(w) \/ Send(w) \/ Confirm(w)
  BY <1>2, <1>t, <1>s DEF Find, Send, Confirm, WorkerTouches
<1>3. CASE Claim(w)
  BY <1>3, <1>h DEF Claim, WorkerTouches
<1>4. CASE SendFails(w) \/ SendReplyLost(w) \/ ConfirmFails(w) \/ VerifyFails(w)
  <2>1. Holding(w) /\ pc[w] # "fail" /\ Goto(w, "fail") /\ UNCHANGED storeVars
    BY <1>4 DEF SendFails, SendReplyLost, ConfirmFails, VerifyFails, Holding
  <2>2. faults' \in {faults, faults + 1}
    BY <1>4 DEF SendFails, SendReplyLost, ConfirmFails, VerifyFails, Fault
  <2> QED
    BY <2>1, <2>2, <1>g, <1>i, <1>s DEF WorkerTouches
<1>5. CASE Persist(w)
  BY <1>5, <1>h DEF Persist, WriteSignature, WorkerTouches
<1>6. CASE Verify(w)
  <2>1. Holding(w) /\ pc[w] # "fail" /\ UNCHANGED <<storeVars, faults>>
    BY <1>6 DEF Verify, Holding
  <2> QED
    BY <1>6, <2>1, <1>g, <1>h, <1>i, <1>s DEF Verify, WorkerTouches
<1>7. CASE Commit(w) \/ Fail(w)
  BY <1>7, <1>f DEF Commit, Fail, WorkerTouches
<1>8. CASE DbRefuses(w)
  <2>1. CASE pc[w] \in {"persist", "commit"} /\ Goto(w, "fail")
    BY <1>8, <2>1, <1>g, <1>i, <1>s DEF DbRefuses, Fault, Holding, WorkerTouches
  <2>2. CASE pc[w] \in {"poll", "claim", "fail"} /\ Thrown(w)
    BY <1>8, <2>2, <1>f, <1>s DEF DbRefuses, Fault, Thrown, WorkerTouches
  <2> QED
    BY <1>8, <2>1, <2>2 DEF DbRefuses
<1>9. CASE DbReplyLost(w)
  <2>f. faults' = faults + 1
    BY <1>9 DEF DbReplyLost, Fault
  <2>1. CASE pc[w] = "claim" /\ FlipToInProgress(job[w]) /\ Thrown(w)
    BY <2>f, <2>1, <1>f DEF Thrown, WorkerTouches
  <2>2. CASE pc[w] = "persist" /\ WriteSignature(job[w], sigOf[w]) /\ Goto(w, "fail")
    BY <2>f, <2>2, <1>g, <1>i DEF WriteSignature, Holding, WorkerTouches
  <2>3. CASE pc[w] = "commit" /\ WriteConfirmed(job[w], slotRead[w]) /\ Goto(w, "fail")
    BY <2>f, <2>3, <1>g DEF WorkerTouches
  <2>4. CASE pc[w] = "fail" /\ FailServiceRequest(job[w]) /\ Thrown(w)
    BY <2>f, <2>4, <1>f DEF Thrown, WorkerTouches
  <2> QED
    BY <1>9, <2>1, <2>2, <2>3, <2>4 DEF DbReplyLost
<1> QED
  BY <1>1, <1>2, <1>3, <1>4, <1>5, <1>6, <1>7, <1>8, <1>9 DEF RunOnce

\* A claim leaves the submission open; the final update serves it or, if its
\* answer is lost, leaves it in doubt; the transaction of deps.fail gives its
\* unit back; and a worker that dies or gives up in doubt has served it.
LEMMA WorkerMeters ==
  ASSUME Solo, TypeOK, SoloInv, RowPerSubmission, UNCHANGED intake, NEW w \in Workers,
         Start(w) \/ RunOnce(w) \/ DbRefuses(w) \/ DbReplyLost(w) \/ Crash(w)
  PROVE  MeterStep /\ RowPerSubmission'
<1>r. PICK r : r = job[w]
  OBVIOUS
<1>t. /\ status \in [Requests -> ServiceStatus \cup {"NONE"}]
      /\ pc[w] \in {"claim", "commit", "fail"} => r \in Requests
  BY <1>r DEF TypeOK, WorkerTypeOK, StoreTypeOK
<1>i. /\ pc[w] = "commit" => status[r] = "IN_PROGRESS"
      /\ pc[w] = "fail" => status[r] \in {"IN_PROGRESS", "CONFIRMED"}
  BY <1>r DEF SoloInv, InMemory, Holding
<1>d. \A q : /\ InDoubt(q) <=> status[q] = "CONFIRMED" /\ pc[w] = "fail" /\ r = q
             /\ InDoubt(q)' <=> status'[q] = "CONFIRMED" /\ pc'[w] = "fail" /\ job'[w] = q
  BY <1>r DEF InDoubt, Solo
<1>f. faults' \in {faults, faults + 1} /\ WorkerTouches(w)
  BY WorkerSteps
\* A statement about r alone touches no other submission.
<1>o. ASSUME NEW q \in Requests, q # r, status'[q] = status[q], ~InDoubt(q)'
      PROVE  Phase(q)' = Phase(q)
  <2>1. ~InDoubt(q)
    BY <1>o, <1>d
  <2> QED
    BY <1>o, <2>1, PhaseKept
<1>1. CASE UNCHANGED <<status, usageCount>> /\ (pc'[w] = "fail" => status[job'[w]] = "IN_PROGRESS")
  <2>0. RowPerSubmission' /\ \A q : ~InDoubt(q)'
    BY <1>1, <1>d DEF RowPerSubmission
  <2>1. CASE r \in Requests /\ InDoubt(r)
    <3>1. intake[r] = "staged" /\ status[r] = "CONFIRMED"
      BY <1>d, <2>1 DEF RowPerSubmission
    <3>2. Phase(r) = "doubtful" /\ Phase(r)' = "served"
      BY <1>1, <2>0, <2>1, <3>1, PhaseCases, NextPhaseCases
    <3>3. PhaseMoves(r, {"open", "doubtful"}, "served")
      BY <1>1, <1>o, <2>0, <3>2 DEF PhaseMoves
    <3> QED
      BY <1>1, <1>f, <2>0, <2>1, <3>3 DEF MeterStep, Unmetered
  <2>2. CASE ~(r \in Requests /\ InDoubt(r))
    <3>1. \A q \in Requests : ~InDoubt(q)
      BY <1>d, <2>2
    <3>2. \A q \in Requests : Phase(q)' = Phase(q)
      BY <1>1, <2>0, <3>1, PhaseKept
    <3> QED
      BY <1>1, <1>f, <2>0, <3>2 DEF MeterStep
  <2> QED
    BY <2>1, <2>2
\* What a statement makes of r.
<1>2. ASSUME NEW new \in {"IN_PROGRESS", "CONFIRMED", "FAILED"}, status' = [status EXCEPT ![r] = new],
             r \in Requests, status[r] # "NONE", pc'[w] = "fail" => job'[w] = r
      PROVE  /\ RowPerSubmission' /\ intake'[r] = "staged" /\ intake[r] = "staged" /\ status'[r] = new
             /\ \A q \in Requests : q # r => Phase(q)' = Phase(q)
  <2>1. status'[r] = new /\ \A q \in Requests : q # r => status'[q] = status[q]
    BY <1>2, <1>t
  <2>2. \A q \in Requests : q # r => ~InDoubt(q)'
    BY <1>2, <1>d
  <2>3. RowPerSubmission'
    BY <1>2, <2>1 DEF RowPerSubmission
  <2> QED
    BY <1>2, <1>o, <2>1, <2>2, <2>3 DEF RowPerSubmission
<1>3. CASE pc[w] = "claim" /\ FlipToInProgress(r) /\ pc'[w] # "fail"
  <2>1. /\ status' = [status EXCEPT ![r] = "IN_PROGRESS"] /\ UNCHANGED usageCount
        /\ status[r] \in {"STAGED", "IN_PROGRESS"} /\ r \in Requests
    BY <1>3, <1>t DEF FlipToInProgress, CLAIMABLE
  <2>2. /\ RowPerSubmission' /\ intake'[r] = "staged" /\ intake[r] = "staged" /\ status'[r] = "IN_PROGRESS"
        /\ \A q \in Requests : q # r => Phase(q)' = Phase(q)
    BY <1>2, <1>3, <2>1
  <2>3. Phase(r) = "open" /\ Phase(r)' = "open"
    BY <2>1, <2>2, PhaseCases, NextPhaseCases
  <2> QED
    BY <1>f, <2>1, <2>2, <2>3 DEF MeterStep
<1>4. CASE /\ pc[w] = "commit" /\ WriteConfirmed(r, slotRead[w])
           /\ pc'[w] = "fail" => job'[w] = r /\ faults' = faults + 1
  <2>1. /\ status' = [status EXCEPT ![r] = "CONFIRMED"] /\ UNCHANGED usageCount
        /\ status[r] = "IN_PROGRESS" /\ r \in Requests
    BY <1>4, <1>i, <1>t DEF WriteConfirmed
  <2>2. /\ RowPerSubmission' /\ intake'[r] = "staged" /\ intake[r] = "staged" /\ status'[r] = "CONFIRMED"
        /\ \A q \in Requests : q # r => Phase(q)' = Phase(q)
    BY <1>2, <1>4, <2>1
  <2>3. Phase(r) = "open"
    BY <2>1, <2>2, PhaseCases
  <2>4. CASE pc'[w] = "fail"
    <3>1. Phase(r)' = "doubtful"
      BY <1>4, <1>d, <2>2, <2>4, NextPhaseCases
    <3>2. PhaseMoves(r, {"open"}, "doubtful")
      BY <2>2, <2>3, <3>1 DEF PhaseMoves
    <3> QED
      BY <1>4, <1>f, <2>1, <2>2, <2>4, <3>2 DEF MeterStep, Unmetered
  <2>5. CASE pc'[w] # "fail"
    <3>1. Phase(r)' = "served"
      BY <1>d, <2>2, <2>5, NextPhaseCases
    <3>2. PhaseMoves(r, {"open", "doubtful"}, "served")
      BY <2>2, <2>3, <3>1 DEF PhaseMoves
    <3> QED
      BY <1>f, <2>1, <2>2, <3>2 DEF MeterStep, Unmetered
  <2> QED
    BY <2>4, <2>5
<1>5. CASE pc[w] = "fail" /\ FailServiceRequest(r) /\ pc'[w] # "fail"
  <2>1. /\ status' = [status EXCEPT ![r] = "FAILED"] /\ OrgOf[r] # NoOrg /\ RestoreQuota(OrgOf[r])
        /\ status[r] \in {"IN_PROGRESS", "CONFIRMED"} /\ r \in Requests
    BY <1>5, <1>i, <1>t DEF FailServiceRequest
  <2>2. /\ RowPerSubmission' /\ intake'[r] = "staged" /\ intake[r] = "staged" /\ status'[r] = "FAILED"
        /\ \A q \in Requests : q # r => Phase(q)' = Phase(q)
    BY <1>2, <1>5, <2>1
  <2>3. Phase(r) \in {"open", "doubtful"} /\ Phase(r)' = "returned"
    BY <1>5, <1>d, <2>1, <2>2, PhaseCases, NextPhaseCases
  <2>4. PhaseMoves(r, {"open", "doubtful"}, "returned")
    BY <2>2, <2>3 DEF PhaseMoves
  <2> QED
    BY <1>f, <2>1, <2>2, <2>4 DEF MeterStep
<1> QED
  BY <1>1, <1>3, <1>4, <1>5, <1>f, <1>r DEF WorkerTouches

\* The others leave rows and meters alone, or are the handlers of POST.
LEMMA SoloMeters ==
  ASSUME Solo, TypeOK, SoloInv, RowPerSubmission, [Next]_vars
  PROVE  MeterStep /\ RowPerSubmission'
<1>1. ASSUME UNCHANGED <<storeVars, workerVars, intake>>
      PROVE  MeterStep /\ RowPerSubmission'
  <2>1. \A q \in Requests : Phase(q)' = Phase(q)
    BY <1>1, WorkersStand DEF storeVars, workerVars
  <2> QED
    BY <1>1, <2>1 DEF MeterStep, RowPerSubmission, storeVars, workerVars
<1>2. CASE UNCHANGED vars
  BY <1>1, <1>2 DEF vars, coreVars
<1> QED
  BY <1>1, <1>2, WorkerMeters, IntakeMeters, NextCases

\* Whose unit the meter of an organization counts.
Holders(o) == {r \in Requests : OrgOf[r] = o /\ Billed(r)}

\* A unit is held by a submission in every phase but the first and the returned.
LEMMA HoldersByPhase ==
  ASSUME TypeOK, TypeOK', NEW r \in Requests
  PROVE  /\ Billed(r) <=> Phase(r) \notin {"none", "returned"}
         /\ Billed(r)' <=> Phase(r)' \notin {"none", "returned"}
<1>1. /\ intake[r] \in {"idle", "metered", "staged", "refused", "lost"}
      /\ intake'[r] \in {"idle", "metered", "staged", "refused", "lost"}
  BY DEF TypeOK
<1> QED
  BY <1>1, PhaseCases, NextPhaseCases DEF Billed

\* One unit more for the submission that is metered, one less for the one that
\* is returned, whose unit was counted, so that the floor is not reached.
LEMMA MeterCounts ==
  ASSUME StoreAssumption, TypeOK, TypeOK', MeterExact, MeterStep
  PROVE  MeterExact'
<1> SUFFICES ASSUME NEW o \in Orgs
             PROVE  usageCount'[o] = Cardinality(Holders(o)')
  BY DEF MeterExact, Holders
<1>t. /\ usageCount \in [Orgs -> Nat] /\ o # NoOrg /\ OrgOf \in [Requests -> Orgs \cup {NoOrg}]
      /\ usageCount[o] = Cardinality(Holders(o))
  BY DEF TypeOK, WorkerTypeOK, StoreTypeOK, StoreAssumption, MeterExact, Holders
<1>f. IsFiniteSet(Holders(o))
  BY FS_Subset DEF Holders, StoreAssumption
<1>b. \A q \in Requests : /\ q \in Holders(o) <=> OrgOf[q] = o /\ Phase(q) \notin {"none", "returned"}
                          /\ q \in Holders(o)' <=> OrgOf[q] = o /\ Phase(q)' \notin {"none", "returned"}
  BY HoldersByPhase DEF Holders
<1>s. Holders(o) \subseteq Requests /\ Holders(o)' \subseteq Requests
  BY DEF Holders
<1>1. CASE (\A q \in Requests : Phase(q)' = Phase(q)) /\ UNCHANGED usageCount
  <2>1. Holders(o)' = Holders(o)
    BY <1>1, <1>b, <1>s
  <2> QED
    BY <1>1, <1>t, <2>1
<1>2. ASSUME NEW r \in Requests, PhaseMoves(r, {"none"}, "reserved"),
             IF OrgOf[r] = NoOrg THEN UNCHANGED usageCount ELSE CheckAndDecrementQuota(OrgOf[r])
      PROVE  usageCount'[o] = Cardinality(Holders(o)')
  <2>1. CASE OrgOf[r] = o
    <3>1. Holders(o)' = Holders(o) \cup {r} /\ r \notin Holders(o)
      BY <1>2, <1>b, <1>s, <2>1 DEF PhaseMoves
    <3>2. Cardinality(Holders(o)') = Cardinality(Holders(o)) + 1
      BY <1>f, <3>1, FS_AddElement
    <3> QED
      BY <1>2, <1>t, <2>1, <3>2 DEF CheckAndDecrementQuota
  <2>2. CASE OrgOf[r] # o
    <3>1. Holders(o)' = Holders(o)
      BY <1>2, <1>b, <1>s, <2>2 DEF PhaseMoves
    <3> QED
      BY <1>2, <1>t, <2>2, <3>1 DEF CheckAndDecrementQuota
  <2> QED
    BY <2>1, <2>2
<1>3. ASSUME NEW r \in Requests,
             Unmetered(r), UNCHANGED usageCount
      PROVE  usageCount'[o] = Cardinality(Holders(o)')
  <2>1. Holders(o)' = Holders(o)
    BY <1>3, <1>b, <1>s DEF Unmetered, PhaseMoves
  <2> QED
    BY <1>3, <1>t, <2>1
<1>4. ASSUME NEW r \in Requests, PhaseMoves(r, {"open", "doubtful"}, "returned"), OrgOf[r] # NoOrg, RestoreQuota(OrgOf[r])
      PROVE  usageCount'[o] = Cardinality(Holders(o)')
  <2>1. CASE OrgOf[r] = o
    <3>1. Holders(o)' = Holders(o) \ {r} /\ r \in Holders(o)
      BY <1>4, <1>b, <1>s, <2>1 DEF PhaseMoves
    <3>2. Cardinality(Holders(o)') = Cardinality(Holders(o)) - 1 /\ Holders(o) # {}
      BY <1>f, <3>1, FS_RemoveElement
    <3>3. usageCount[o] > 0
      BY <1>f, <1>t, <3>2, FS_EmptySet
    <3> QED
      BY <1>4, <1>t, <2>1, <3>2, <3>3 DEF RestoreQuota
  <2>2. CASE OrgOf[r] # o
    <3>1. Holders(o)' = Holders(o)
      BY <1>4, <1>b, <1>s, <2>2 DEF PhaseMoves
    <3> QED
      BY <1>4, <1>t, <2>2, <3>1 DEF RestoreQuota
  <2> QED
    BY <2>1, <2>2
<1> QED
  BY <1>1, <1>2, <1>3, <1>4 DEF MeterStep

\* Each of these steps is one of ServiceLifecycle, or none that it sees.
LEMMA StepImplements ==
  ASSUME StoreAssumption, TypeOK, MeterExact, MeterStep
  PROVE  [Lifecycle!LNext]_<<[r \in Requests |-> Phase(r)], usageCount, faults>>
<1> DEFINE phase == [r \in Requests |-> Phase(r)]
<1>o. \A r \in Requests : OrgOf[r] \in Orgs <=> OrgOf[r] # NoOrg
  BY DEF StoreAssumption
<1>m. ASSUME NEW r \in Requests, NEW from, NEW to, PhaseMoves(r, from, to)
      PROVE  Lifecycle!Move(r, from, to)
  <2>1. phase' = [phase EXCEPT ![r] = to] /\ phase[r] \in from
    BY <1>m DEF PhaseMoves
  <2> QED
    BY <2>1 DEF Lifecycle!Move
<1>1. CASE (\A q \in Requests : Phase(q)' = Phase(q)) /\ UNCHANGED usageCount
  <2>1. phase' = phase
    BY <1>1
  <2>2. Lifecycle!LNext
    BY <1>1, <2>1 DEF MeterStep, Lifecycle!LNext, Lifecycle!PerhapsMishap
  <2> QED
    BY <2>2
<1>2. ASSUME NEW r \in Requests, PhaseMoves(r, {"none"}, "reserved"),
             IF OrgOf[r] = NoOrg THEN UNCHANGED usageCount ELSE CheckAndDecrementQuota(OrgOf[r])
      PROVE  Lifecycle!Reserve(r)
  BY <1>2, <1>m, <1>o DEF Lifecycle!Reserve, CheckAndDecrementQuota
<1>3. ASSUME NEW r \in Requests, UNCHANGED usageCount, Unmetered(r)
      PROVE  Lifecycle!Forfeit(r) \/ Lifecycle!Accept(r) \/ Lifecycle!Doubt(r) \/ Lifecycle!Serve(r)
  BY <1>3, <1>m DEF Unmetered, Lifecycle!Forfeit, Lifecycle!Accept, Lifecycle!Doubt, Lifecycle!Serve
<1>4. ASSUME NEW r \in Requests, PhaseMoves(r, {"open", "doubtful"}, "returned"), OrgOf[r] # NoOrg, RestoreQuota(OrgOf[r])
      PROVE  Lifecycle!GiveBack(r)
  <2>1. OrgOf[r] \in Orgs /\ usageCount[OrgOf[r]] = Cardinality(Holders(OrgOf[r]))
    BY <1>4, <1>o DEF MeterExact, Holders
  <2>2. r \in Holders(OrgOf[r]) /\ IsFiniteSet(Holders(OrgOf[r]))
    <3>1. intake[r] \in {"idle", "metered", "staged", "refused", "lost"} /\ Phase(r) \in {"open", "doubtful"}
      BY <1>4 DEF TypeOK, PhaseMoves
    <3>2. Billed(r)
      BY <3>1, PhaseCases DEF Billed
    <3> QED
      BY <3>2, FS_Subset DEF Holders, StoreAssumption
  <2>3. usageCount[OrgOf[r]] > 0
    BY <2>1, <2>2, FS_EmptySet, FS_CardinalityType
  <2>4. usageCount' = [usageCount EXCEPT ![OrgOf[r]] = usageCount[OrgOf[r]] - 1]
    BY <1>4, <2>3 DEF RestoreQuota
  <2> QED
    BY <1>4, <1>m, <2>1, <2>4 DEF Lifecycle!GiveBack
<1> QED
  BY <1>1, <1>2, <1>3, <1>4 DEF MeterStep, Lifecycle!LNext, Lifecycle!PerhapsMishap

\* The invariant with the meter, and what a step is worth in ServiceLifecycle.
MeterInv == SoloInv /\ RowPerSubmission /\ MeterExact

\* It holds initially, and with it every step is one of ServiceLifecycle or none.
LEMMA MeterInvHolds ==
  ASSUME Solo
  PROVE  /\ Init => MeterInv
         /\ TypeOK /\ TypeOK' /\ MeterInv /\ [Next]_vars =>
               MeterInv' /\ [Lifecycle!LNext]_<<[r \in Requests |-> Phase(r)], usageCount, faults>>
<1> USE StoreAssumption, WorkerAssumption
<1>1. ASSUME Init PROVE MeterInv
  <2>1. SoloInv /\ RowPerSubmission
    BY <1>1 DEF Init, WorkerInit, StoreInit, SoloInv, InMemory, Holding, Verified, ConfirmedBySignature,
       FailureAudited, RowPerSubmission
  <2>2. ASSUME NEW o \in Orgs PROVE usageCount[o] = Cardinality({r \in Requests : OrgOf[r] = o /\ Billed(r)})
    <3>1. {r \in Requests : OrgOf[r] = o /\ Billed(r)} = {}
      BY <1>1 DEF Init, Billed
    <3> QED
      BY <1>1, <3>1, FS_EmptySet DEF Init, WorkerInit, StoreInit
  <2> QED
    BY <2>1, <2>2 DEF MeterInv, MeterExact
<1>2. ASSUME TypeOK, TypeOK', MeterInv, [Next]_vars
      PROVE  MeterInv' /\ [Lifecycle!LNext]_<<[r \in Requests |-> Phase(r)], usageCount, faults>>
  <2>1. MeterStep /\ RowPerSubmission' /\ SoloInv'
    BY <1>2, SoloMeters, SoloStep DEF MeterInv
  <2> QED
    BY <1>2, <2>1, MeterCounts, StepImplements DEF MeterInv
<1> QED
  BY <1>1, <1>2

\* With a single worker the meter counts exactly the submissions that hold a
\* unit, through intake, crashes and rolled-back failures.
THEOREM MeterIsExact == Solo => (Spec => []MeterExact)
<1>1. Solo /\ Init => MeterInv
  BY MeterInvHolds
<1>2. Solo /\ TypeOK /\ TypeOK' /\ MeterInv /\ [Next]_vars => MeterInv'
  BY MeterInvHolds
<1>3. MeterInv => MeterExact
  BY DEF MeterInv
<1>4. SUFFICES ASSUME Solo PROVE Spec => []MeterExact
  OBVIOUS
<1> QED
  BY <1>1, <1>2, <1>3, <1>4, TypeCorrect, PTL DEF Spec

\* Intake, a single worker, failure handling and quota together implement the
\* promise: served for one unit or given back once, never both.
THEOREM SoloImplements == Solo => (Spec => ImplementsLifecycle)
<1>1. Solo /\ Init => MeterInv
  BY MeterInvHolds
<1>2. Init => Lifecycle!LInit
  <2> SUFFICES ASSUME Init PROVE Lifecycle!LInit
    OBVIOUS
  <2>1. \A r \in Requests : Phase(r) = "none"
    BY PhaseCases DEF Init
  <2> QED
    BY <2>1 DEF Init, WorkerInit, StoreInit, Lifecycle!LInit
<1>3. Solo /\ TypeOK /\ TypeOK' /\ MeterInv /\ [Next]_vars => MeterInv'
  BY MeterInvHolds
<1>4. Solo /\ TypeOK /\ TypeOK' /\ MeterInv /\ [Next]_vars =>
        [Lifecycle!LNext]_<<[r \in Requests |-> Phase(r)], usageCount, faults>>
  BY MeterInvHolds
<1>5. SUFFICES ASSUME Solo PROVE Spec => ImplementsLifecycle
  OBVIOUS
<1> QED
  BY <1>1, <1>2, <1>3, <1>4, <1>5, TypeCorrect, PTL DEF Spec, ImplementsLifecycle, Lifecycle!LSpec,
     Lifecycle!lifecycleVars

-----------------------------------------------------------------------------
(* Broadcasts.                                                             *)

\* The row names the signature, or the worker is about to write it there.
Named(s, r) ==
    \/ s = txSignature[r]
    \/ \E w \in Workers : pc[w] = "persist" /\ job[w] = r /\ sigOf[w] = s

\* The broadcasts for a request that nobody knows of any more.
Orphans(r) == {s \in Sigs : memoOf[s] = r /\ ~Named(s, r)}

OrphansPaidFor == \A r \in Requests : IsFiniteSet(Orphans(r)) /\ Cardinality(Orphans(r)) <= faults

\* A step makes an orphan of at most one signature, and that one costs a fault.
LEMMA OrphanStep ==
  ASSUME Solo, TypeOK, SoloInv, [Next]_vars, NEW r \in Requests
  PROVE  \/ Orphans(r)' \subseteq Orphans(r) /\ faults' \in {faults, faults + 1}
         \/ faults' = faults + 1 /\ \E s : Orphans(r)' \subseteq Orphans(r) \cup {s}
<1>t. /\ memoOf \in [Sigs -> Requests \cup {NoReq}] /\ pc \in [Workers -> Locations]
      /\ job \in [Workers -> Requests \cup {NoReq}] /\ sigOf \in [Workers -> Sigs \cup {NoSig}]
      /\ txSignature \in [Requests -> Sigs \cup {NoSig}]
      /\ \A w \in Workers : pc[w] \in {"claim", "persist", "confirm", "verify", "commit", "send", "fail"} => job[w] \in Requests
      /\ \A w \in Workers : pc[w] = "persist" => sigOf[w] \in Sigs
  BY DEF TypeOK, WorkerTypeOK, StoreTypeOK, Chain!ChainTypeOK
<1>k. \A w \in Workers : pc[w] \in {"send", "persist"} => txSignature[job[w]] = NoSig
  BY DEF SoloInv, InMemory
\* Nobody is at persist before or after the step, and the rows and the chain stay.
<1>q. ASSUME NEW w \in Workers, UNCHANGED <<memoOf, txSignature>>, pc[w] # "persist", pc'[w] # "persist"
      PROVE  Orphans(r)' \subseteq Orphans(r)
  BY <1>q DEF Orphans, Named, Solo
\* What the worker holds at persist is lost with its memory.
<1>l. ASSUME NEW w \in Workers, UNCHANGED <<memoOf, txSignature>>, pc'[w] # "persist"
      PROVE  \E s : Orphans(r)' \subseteq Orphans(r) \cup {s}
  <2>1. CASE pc[w] = "persist"
    <3>1. Orphans(r)' \subseteq Orphans(r) \cup {sigOf[w]}
      BY <1>l DEF Orphans, Named, Solo
    <3> QED
      BY <1>t, <2>1, <3>1
  <2>2. CASE pc[w] # "persist"
    <3>1. Orphans(r)' \subseteq Orphans(r)
      BY <1>l, <1>q, <2>2
    <3> QED
      BY <3>1
  <2> QED
    BY <2>1, <2>2
<1>1. ASSUME NEW q \in Requests, Meter(q) \/ Refuse(q) \/ Create(q) \/ CreateFails(q)
      PROVE  Orphans(r)' = Orphans(r) /\ faults' = faults
  BY <1>1 DEF Meter, Refuse, Create, CreateRow, CreateFails, coreVars, storeVars, workerVars, chainVars,
     Orphans, Named
<1>2. ASSUME NEW w \in Workers, Start(w) \/ RunOnce(w) \/ DbRefuses(w) \/ DbReplyLost(w) \/ Crash(w)
      PROVE  \/ Orphans(r)' \subseteq Orphans(r) /\ faults' \in {faults, faults + 1}
             \/ faults' = faults + 1 /\ \E s : Orphans(r)' \subseteq Orphans(r) \cup {s}
  <2>1. CASE Send(w)
    <3>1. PICK s \in Sigs : memoOf' = [memoOf EXCEPT ![s] = job[w]] /\ sigOf' = [sigOf EXCEPT ![w] = s]
      BY <2>1 DEF Send, Chain!Broadcast
    <3>2. pc'[w] = "persist" /\ job' = job /\ sigOf'[w] = s /\ txSignature' = txSignature /\ faults' = faults
      BY <1>t, <2>1, <3>1 DEF Send, storeVars
    <3>3. \A z \in Sigs : z # s => memoOf'[z] = memoOf[z]
      BY <1>t, <3>1
    <3>4. memoOf'[s] = job[w]
      BY <1>t, <3>1
    <3>5. \A v \in Workers : pc[v] # "persist"
      BY <2>1 DEF Send, Solo
    <3>6. ASSUME NEW z \in Sigs, z \in Orphans(r)'
          PROVE  z \in Orphans(r)
      <4>1. memoOf'[z] = r /\ ~Named(z, r)'
        BY <3>6 DEF Orphans
      <4>2. z # s
        BY <3>2, <3>4, <4>1 DEF Named
      <4> QED
        BY <3>2, <3>3, <3>5, <4>1, <4>2 DEF Orphans, Named
    <3> QED
      BY <3>2, <3>6 DEF Orphans
  <2>2. CASE SendReplyLost(w)
    <3>1. PICK s \in Sigs : memoOf' = [memoOf EXCEPT ![s] = job[w]]
      BY <2>2 DEF SendReplyLost, Chain!Broadcast
    <3>2. /\ pc[w] = "send" /\ UNCHANGED txSignature /\ faults' = faults + 1
          /\ \A z \in Sigs : z # s => memoOf'[z] = memoOf[z]
      BY <1>t, <2>2, <3>1 DEF SendReplyLost, storeVars, Fault
    <3>3. \A v \in Workers : pc[v] # "persist"
      BY <3>2 DEF Solo
    <3>4. Orphans(r)' \subseteq Orphans(r) \cup {s}
      BY <3>2, <3>3 DEF Orphans, Named
    <3> QED
      BY <3>2, <3>4
  <2>3. ASSUME pc[w] = "persist", WriteSignature(job[w], sigOf[w]), UNCHANGED <<chainVars, job, sigOf>>,
               faults' \in {faults, faults + 1}
        PROVE  Orphans(r)' \subseteq Orphans(r) /\ faults' \in {faults, faults + 1}
    <3>1. /\ pc[w] = "persist" /\ txSignature' = [txSignature EXCEPT ![job[w]] = sigOf[w]]
          /\ UNCHANGED <<memoOf, job, sigOf>>
      BY <2>3 DEF WriteSignature, chainVars
    <3>2. txSignature[job[w]] = NoSig /\ NoSig \notin Sigs /\ job[w] \in Requests
      BY <1>k, <1>t, <3>1, StoreAssumption
    <3>3. ASSUME NEW z \in Sigs, Named(z, r) PROVE Named(z, r)'
      <4>1. CASE r = job[w]
        BY <1>t, <3>1, <3>2, <3>3, <4>1 DEF Named, Solo
      <4>2. CASE r # job[w]
        BY <1>t, <3>1, <3>2, <3>3, <4>2 DEF Named, Solo
      <4> QED
        BY <4>1, <4>2
    <3> QED
      BY <2>3, <3>1, <3>3 DEF Orphans
  <2>4. CASE DbRefuses(w) \/ Crash(w)
    <3>1. UNCHANGED <<memoOf, txSignature>> /\ faults' = faults + 1
      BY <2>4 DEF DbRefuses, Crash, Fault, storeVars, chainVars
    <3>2. pc'[w] # "persist"
      BY <1>t, <2>4 DEF DbRefuses, Crash, Thrown, Forget, Goto
    <3> QED
      BY <1>l, <3>1, <3>2
  <2>5. CASE \/ Start(w) \/ Find(w) \/ FindNothing(w) \/ Claim(w) \/ LoseClaim(w) \/ SendFails(w)
             \/ Confirm(w) \/ ConfirmFails(w) \/ Verify(w) \/ VerifyFails(w) \/ Commit(w) \/ Fail(w)
             \/ FailThrows(w)
    <3>1. UNCHANGED <<memoOf, txSignature, faults>> /\ pc[w] # "persist"
      BY <2>5 DEF Start, Find, FindNothing, Claim, FlipToInProgress, LoseClaim, SendFails, Confirm,
         ConfirmFails, Verify, VerifyFails, Commit, WriteConfirmed, Fail, FailServiceRequest, FailThrows,
         storeVars, chainVars
    <3>2. pc'[w] # "persist"
      BY <1>t, <2>5 DEF Start, Find, FindNothing, Claim, LoseClaim, NothingClaimed, SendFails, Confirm,
         ConfirmFails, Verify, VerifyFails, Commit, Fail, FailThrows, Thrown, Forget, Goto
    <3> QED
      BY <1>q, <3>1, <3>2
  <2>6. CASE Persist(w)
    BY <2>3, <2>6 DEF Persist, Goto
  <2>7. CASE DbReplyLost(w)
    <3>1. faults' = faults + 1 /\ UNCHANGED chainVars
      BY <2>7 DEF DbReplyLost, Fault
    <3>2. CASE pc[w] = "persist" /\ WriteSignature(job[w], sigOf[w]) /\ Goto(w, "fail")
      BY <2>3, <3>1, <3>2 DEF Goto
    <3>3. CASE pc[w] \in {"claim", "commit", "fail"}
      <4>1. UNCHANGED <<memoOf, txSignature>>
        BY <2>7, <3>3 DEF DbReplyLost, FlipToInProgress, WriteConfirmed, FailServiceRequest, chainVars
      <4>2. pc'[w] # "persist"
        BY <1>t, <2>7, <3>3 DEF DbReplyLost, Thrown, Forget, Goto
      <4> QED
        BY <1>q, <3>1, <3>3, <4>1, <4>2
    <3> QED
      BY <2>7, <3>2, <3>3 DEF DbReplyLost
  <2> QED
    BY <1>2, <2>1, <2>2, <2>4, <2>5, <2>6, <2>7 DEF RunOnce
<1>3. CASE \E s \in Sigs : Chain!Settle(s) /\ UNCHANGED <<storeVars, workerVars, intake>>
  BY <1>3 DEF Chain!Settle, storeVars, workerVars, Orphans, Named
<1>4. CASE UNCHANGED vars
  BY <1>4 DEF vars, coreVars, storeVars, workerVars, chainVars, Orphans, Named
<1> QED
  BY <1>1, <1>2, <1>3, <1>4, NextCases

\* Every broadcast beyond the first costs a fault that lost the signature: a
\* single worker that resumes re-confirms what is on record and re-sends
\* nothing else.
THEOREM ExtraBroadcastsPaidFor == Solo => (Spec => []ExtraBroadcastsCostFaults)
<1>1. Init => SoloInv /\ OrphansPaidFor
  <2> SUFFICES ASSUME Init PROVE SoloInv /\ OrphansPaidFor
    OBVIOUS
  <2>1. SoloInv
    BY DEF Init, WorkerInit, StoreInit, SoloInv, InMemory, Holding, Verified, ConfirmedBySignature, FailureAudited
  <2>2. \A r \in Requests : Orphans(r) = {} /\ faults = 0
    BY WorkerAssumption DEF Init, WorkerInit, Chain!ChainInit, Orphans
  <2> QED
    BY <2>1, <2>2, FS_EmptySet DEF OrphansPaidFor
<1>2. Solo /\ TypeOK /\ TypeOK' /\ SoloInv /\ OrphansPaidFor /\ [Next]_vars => SoloInv' /\ OrphansPaidFor'
  <2> SUFFICES ASSUME Solo, TypeOK, TypeOK', SoloInv, OrphansPaidFor, [Next]_vars
               PROVE  SoloInv' /\ OrphansPaidFor'
    OBVIOUS
  <2>1. SoloInv'
    BY SoloStep, StoreAssumption, WorkerAssumption
  <2>2. ASSUME NEW r \in Requests
        PROVE  IsFiniteSet(Orphans(r)') /\ Cardinality(Orphans(r)') <= faults'
    <3>1. /\ IsFiniteSet(Orphans(r)) /\ Cardinality(Orphans(r)) <= faults
          /\ Cardinality(Orphans(r)) \in Nat /\ faults \in Nat
      BY FS_CardinalityType, WorkerAssumption DEF OrphansPaidFor, TypeOK, WorkerTypeOK
    <3>2. CASE Orphans(r)' \subseteq Orphans(r) /\ faults' \in {faults, faults + 1}
      <4>1. IsFiniteSet(Orphans(r)') /\ Cardinality(Orphans(r)') <= Cardinality(Orphans(r))
        BY <3>1, <3>2, FS_Subset
      <4> QED
        BY <3>1, <3>2, <4>1, FS_CardinalityType
    <3>3. ASSUME NEW s, Orphans(r)' \subseteq Orphans(r) \cup {s}, faults' = faults + 1
          PROVE  IsFiniteSet(Orphans(r)') /\ Cardinality(Orphans(r)') <= faults'
      <4>1. /\ IsFiniteSet(Orphans(r) \cup {s})
            /\ Cardinality(Orphans(r) \cup {s}) <= Cardinality(Orphans(r)) + 1
        BY <3>1, FS_AddElement
      <4>2. IsFiniteSet(Orphans(r)') /\ Cardinality(Orphans(r)') <= Cardinality(Orphans(r) \cup {s})
        BY <3>3, <4>1, FS_Subset
      <4> QED
        BY <3>1, <3>3, <4>1, <4>2, FS_CardinalityType
    <3> QED
      BY <3>2, <3>3, OrphanStep
  <2> QED
    BY <2>1, <2>2 DEF OrphansPaidFor
<1>3. Solo /\ TypeOK /\ SoloInv /\ OrphansPaidFor => ExtraBroadcastsCostFaults
  <2> SUFFICES ASSUME Solo, TypeOK, SoloInv, OrphansPaidFor, NEW r \in Requests
               PROVE  Cardinality({s \in Sigs : memoOf[s] = r}) <= 1 + faults
    BY DEF ExtraBroadcastsCostFaults
  <2> DEFINE All == {s \in Sigs : memoOf[s] = r}
  <2>1. /\ IsFiniteSet(Orphans(r)) /\ Cardinality(Orphans(r)) <= faults
        /\ Cardinality(Orphans(r)) \in Nat /\ faults \in Nat
    BY FS_CardinalityType, WorkerAssumption DEF OrphansPaidFor, TypeOK, WorkerTypeOK
  <2>2. PICK x : \A s \in Sigs : Named(s, r) => s = x
    <3>1. CASE txSignature[r] # NoSig
      BY <3>1 DEF Named, SoloInv, InMemory
    <3>2. CASE txSignature[r] = NoSig
      <4>1. \A s \in Sigs : Named(s, r) => \E w \in Workers : sigOf[w] = s
        BY <3>2, StoreAssumption DEF Named
      <4> QED
        BY <4>1 DEF Solo
    <3> QED
      BY <3>1, <3>2
  <2>3. All \subseteq Orphans(r) \cup {x}
    BY <2>2 DEF Orphans
  <2>4. /\ IsFiniteSet(Orphans(r) \cup {x})
        /\ Cardinality(Orphans(r) \cup {x}) <= Cardinality(Orphans(r)) + 1
    BY <2>1, FS_AddElement
  <2>5. IsFiniteSet(All) /\ Cardinality(All) <= Cardinality(Orphans(r) \cup {x})
    BY <2>3, <2>4, FS_Subset
  <2> QED
    BY <2>1, <2>4, <2>5, FS_CardinalityType
<1>4. SUFFICES ASSUME Solo PROVE Spec => []ExtraBroadcastsCostFaults
  OBVIOUS
<1> QED
  BY <1>1, <1>2, <1>3, <1>4, TypeCorrect, PTL DEF Spec

=============================================================================
