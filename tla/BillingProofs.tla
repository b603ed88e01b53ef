---------------------------- MODULE BillingProofs ----------------------------
(***************************************************************************)
(* Webhooks and grants, for every number of checkouts, events, handlers    *)
(* and grants and any faults: the ledger is exact, an event is lost only   *)
(* to a race on its organization or subscription, and every subscription   *)
(* is accounted for.                                                       *)
(***************************************************************************)
EXTENDS Billing, TLAPS

\* The event reports a checkout that the route has stamped.
Effective(e) == about[e] \in Checkouts /\ Attributed(about[e])

\* What Stripe has said is not taken back: an event that was sent is about a
\* paid checkout or nothing of ours, and neither changes any more.
StripeInv ==
    /\ \A e \in Events : e \notin sent => about[e] = NoCheckout
    /\ \A e \in Events : about[e] \in Checkouts => session[about[e]].paid

\* A handler past its first statement has staged the key of its event, which
\* nobody else has staged or committed.
StagedInv ==
    /\ \A d \in Slots : at[d] \notin {"findSub", "done"}
    /\ \A d \in Slots : at[d] # "idle" => event[d] \in sent
    /\ \A d \in Slots : at[d] \in {"findOrg", "insertOrg", "findRow", "insertRow", "write"} => Effective(event[d])
    /\ \A d \in Slots : staged[d] \cap Events = IF at[d] \in {"idle", "record"} THEN {} ELSE {event[d]}
    /\ \A g \in Grants : staged[g] \cap Events = {}
    /\ \A d \in Slots : staged[d] \cap ledger = {}
    /\ \A d, c \in Slots : d # c => staged[d] \cap staged[c] \cap Events = {}

\* By the time a transaction writes a subscription its organization is there.
OrgInv ==
    /\ \A g \in Grants : at[g] # "idle" => beneficiary[g] \in Orgs
    /\ \A g \in Grants : at[g] \in {"findSub", "write", "commit"} => beneficiary[g] \in orgs \cup staged[g]
    /\ \A d \in Slots : at[d] \in {"findRow", "insertRow", "write", "commit"} /\ Effective(event[d]) =>
           session[about[event[d]]].org \in orgs \cup staged[d]

\* A subscription keeps its organization; a grant writes one of its
\* beneficiary's or a new one.
RowInv ==
    /\ \A s \in Subs : row[s] # NoRow => row[s].org \in orgs
    /\ \A k \in Checkouts : row[k] # NoRow => session[k].paid /\ row[k].org = session[k].org
    /\ \A g \in Grants : g \in audits => at[g] = "done"
    /\ \A g \in Grants : row[g] # NoRow => g \in audits
    /\ \A g \in Grants : at[g] \in {"write", "commit"} =>
           target[g] = g \/ row[target[g]].org = beneficiary[g]

\* An organization comes with a subscription: whoever inserts the one commits
\* the other with it.
SubscribedInv ==
    /\ \A o \in orgs : \E s \in Subs : row[s].org = o
    /\ \A t \in Txs : \A o \in staged[t] \cap Orgs :
          /\ at[t] \notin {"idle", "record"} /\ o = OrgOf(t)
          /\ t \in Slots => Effective(event[t])

\* LedgerExact, with the row for what follows from RowInv.
LedgerInv ==
    \A e \in Events :
        /\ applied[e] = IF e \in ledger /\ Effective(e) THEN 1 ELSE 0
        /\ e \in ledger /\ Effective(e) => row[about[e]] # NoRow

BillingInv ==
    /\ TypeOK /\ StripeInv /\ StagedInv /\ OrgInv /\ RowInv /\ SubscribedInv /\ LedgerInv
    /\ LostOnlyToRaces /\ EveryRowAccountedFor

-----------------------------------------------------------------------------
\* The invariant holds at first.
LEMMA BillingInit ==
  ASSUME BillingAssumption, AuthAssumption, Init
  PROVE  BillingInv
<1> USE BillingAssumption, AuthAssumption DEF BillingAssumption, AuthAssumption, Init, NoRow, Rows, Subs, Txs
<1>1. TypeOK
  BY DEF TypeOK, Stages, Keys
<1>2. StripeInv /\ StagedInv /\ OrgInv
  BY DEF StripeInv, StagedInv, OrgInv
<1>3. RowInv /\ SubscribedInv /\ LedgerInv
  BY DEF RowInv, SubscribedInv, LedgerInv
<1>4. LostOnlyToRaces /\ EveryRowAccountedFor
  BY DEF LostOnlyToRaces, EveryRowAccountedFor
<1> QED
  BY <1>1, <1>2, <1>3, <1>4 DEF BillingInv

\* Types: the checkout and Stripe.
LEMMA StripeType ==
  ASSUME BillingAssumption, TypeOK, NEW k, NEW e,
         \/ k \in Checkouts /\ (StartCheckout(k) \/ Pay(k))
         \/ e \in Events /\ CreateEvent(e)
  PROVE  TypeOK'
<1> USE DEF TypeOK, tableVars, txVars
<1>1. CASE k \in Checkouts /\ StartCheckout(k)
  BY <1>1 DEF StartCheckout, Callers, isTier
<1>2. CASE k \in Checkouts /\ Pay(k)
  <2>1. session' = [session EXCEPT ![k] = [session[k] EXCEPT !.paid = TRUE]]
    BY <1>2 DEF Pay
  <2> DEFINE T == [org : Orgs \cup {NoOrg}, tier : Tiers \cup {NoTier}, paid : BOOLEAN]
  <2>2. session[k] \in T
    BY <1>2
  <2>3. [session[k] EXCEPT !.paid = TRUE] \in T
    BY <2>2, Zenon
  <2> QED
    BY <1>2, <2>1, <2>3 DEF Pay
<1>3. CASE e \in Events /\ CreateEvent(e)
  BY <1>3 DEF CreateEvent
<1> QED
  BY <1>1, <1>2, <1>3

\* Types: a rollback, and an answer.
LEMMA RollbackType ==
  ASSUME BillingAssumption, TypeOK, NEW t \in Txs, Rollback(t)
  PROVE  /\ at' \in [Txs -> Stages] /\ event' \in [Slots -> Events \cup {NoEvent}]
         /\ staged' \in [Txs -> SUBSET Keys]
BY DEF TypeOK, Rollback, Stages, Txs

\* Types: Stripe learns of a 2xx answer, or the answer is lost.
LEMMA AnswerType ==
  ASSUME BillingAssumption, TypeOK, NEW d \in Slots, event[d] \in sent, Answer200(d)
  PROVE  acked' \subseteq sent /\ faults' \in 0..MaxFaults /\ sent' = sent
BY DEF TypeOK, Answer200, Fault, BillingAssumption

\* Types: the steps of a transaction that is not over.
LEMMA MoveType ==
  ASSUME BillingAssumption, TypeOK, NEW t \in Txs, NEW e,
         \/ t \in Slots /\ (Deliver(t, e) \/ RecordEvent(t))
         \/ FindOrg(t) \/ InsertOrg(t) \/ OrgResolved(t) \/ WriteSubscription(t)
         \/ t \in Slots /\ (FindRow(t) \/ InsertRow(t) \/ RowResolved(t))
         \/ t \in Grants /\ (StartGrant(t) \/ FindSub(t)),
         (t \in Slots /\ at[t] = "record" => event[t] \in Events), (at[t] = "insertOrg" => OrgOf(t) \in Orgs),
         (t \in Slots /\ at[t] = "insertRow" => about[event[t]] \in Checkouts)
  PROVE  TypeOK'
<1> USE DEF TypeOK, stripeVars, tableVars, Continue, Stages, AfterOrg
<1>1. CASE t \in Slots /\ Deliver(t, e)
  BY <1>1 DEF Deliver
<1>2. CASE t \in Slots /\ RecordEvent(t)
  <2>1. event[t] \in Keys
    BY <1>2 DEF RecordEvent, Keys
  <2>2. staged' \in [Txs -> SUBSET Keys]
    BY <1>2, <2>1 DEF RecordEvent, Insert
  <2>3. at' \in [Txs -> Stages]
    BY <1>2 DEF RecordEvent
  <2> QED
    BY <1>2, <2>2, <2>3 DEF RecordEvent
<1>3. CASE FindOrg(t)
  BY <1>3 DEF FindOrg
<1>4. CASE InsertOrg(t)
  <2>1. OrgOf(t) \in Keys
    BY <1>4 DEF InsertOrg, Keys
  <2>2. staged' \in [Txs -> SUBSET Keys]
    BY <1>4, <2>1 DEF InsertOrg, Insert
  <2>3. at' \in [Txs -> Stages]
    BY <1>4 DEF InsertOrg
  <2> QED
    BY <1>4, <2>2, <2>3 DEF InsertOrg
<1>5. CASE OrgResolved(t)
  BY <1>5 DEF OrgResolved
<1>6. CASE WriteSubscription(t)
  BY <1>6 DEF WriteSubscription
<1>7. CASE t \in Grants /\ StartGrant(t)
  BY <1>7 DEF StartGrant
<1>8. CASE t \in Grants /\ FindSub(t)
  <2>1. t \in Subs
    BY <1>8 DEF Subs
  <2>2. PICK s \in Subs : target' = [target EXCEPT ![t] = s]
    BY <1>8, <2>1 DEF FindSub
  <2>3. target' \in [Grants -> Subs] /\ at' \in [Txs -> Stages]
    BY <1>8, <2>2 DEF FindSub
  <2> QED
    BY <1>8, <2>3 DEF FindSub
<1>9. CASE t \in Slots /\ (FindRow(t) \/ RowResolved(t))
  BY <1>9 DEF FindRow, RowResolved
<1>10. CASE t \in Slots /\ InsertRow(t)
  <2>1. about[event[t]] \in Keys
    BY <1>10 DEF InsertRow, Keys
  <2>2. staged' \in [Txs -> SUBSET Keys]
    BY <1>10, <2>1 DEF InsertRow, Insert
  <2>3. at' \in [Txs -> Stages]
    BY <1>10 DEF InsertRow
  <2> QED
    BY <1>10, <2>2, <2>3 DEF InsertRow
<1> QED
  BY <1>1, <1>2, <1>3, <1>4, <1>5, <1>6, <1>7, <1>8, <1>9, <1>10

\* Types: commits.
LEMMA CommitType ==
  ASSUME BillingAssumption, TypeOK, NEW t \in Txs,
         \/ t \in Slots /\ CommitEvent(t) /\ event[t] \in sent /\ staged[t] \cap Events \subseteq sent
         \/ t \in Grants /\ CommitGrant(t)
  PROVE  TypeOK'
<1>1. CASE t \in Slots /\ CommitEvent(t) /\ event[t] \in sent /\ staged[t] \cap Events \subseteq sent
  <2> DEFINE e == event[t]
             k == about[e]
  <2>1. acked' \subseteq sent /\ faults' \in 0..MaxFaults /\ sent' = sent
    BY <1>1, AnswerType DEF CommitEvent
  <2>2. ledger' \subseteq sent /\ orgs' \subseteq Orgs
    BY <1>1 DEF CommitEvent, TypeOK
  <2>3. row' \in [Subs -> Rows]
    <3>1. ASSUME k \in Checkouts
          PROVE  Upserted(row[k], k) \in Rows
      BY <3>1 DEF TypeOK, Upserted, Subs, Rows
    <3> QED
      BY <1>1, <3>1 DEF CommitEvent, TypeOK
  <2>4. applied' \in [Events -> Nat]
    BY <1>1 DEF CommitEvent, TypeOK
  <2>5. /\ at' \in [Txs -> Stages] /\ event' \in [Slots -> Events \cup {NoEvent}]
        /\ staged' \in [Txs -> SUBSET Keys]
    BY <1>1 DEF CommitEvent, TypeOK, Stages
  <2>6. UNCHANGED <<session, about, audits, target, beneficiary>>
    BY <1>1 DEF CommitEvent, Answer200
  <2> QED
    BY <2>1, <2>2, <2>3, <2>4, <2>5, <2>6 DEF TypeOK
<1>2. CASE t \in Grants /\ CommitGrant(t)
  <2>1. [org |-> beneficiary[t], tier |-> CompTier] \in Rows
    BY <1>2 DEF TypeOK, Rows, BillingAssumption
  <2>2. row' \in [Subs -> Rows]
    BY <1>2, <2>1 DEF CommitGrant, TypeOK
  <2>3. orgs' \subseteq Orgs /\ audits' \subseteq Grants
    BY <1>2 DEF CommitGrant, TypeOK
  <2>4. at' \in [Txs -> Stages] /\ staged' \in [Txs -> SUBSET Keys]
    BY <1>2 DEF CommitGrant, TypeOK, Stages
  <2> QED
    BY <1>2, <2>2, <2>3, <2>4 DEF CommitGrant, TypeOK, stripeVars
<1> QED
  BY <1>1, <1>2

-----------------------------------------------------------------------------
\* What Stripe knows of a paid checkout or a sent event is final.
LEMMA StripeStable ==
  ASSUME TypeOK, StripeInv, NEW k, NEW x, BillingAssumption,
         \/ k \in Checkouts /\ (StartCheckout(k) \/ Pay(k))
         \/ x \in Events /\ CreateEvent(x)
  PROVE  /\ StripeInv'
         /\ sent \subseteq sent'
         /\ \A e \in sent : about'[e] = about[e] /\ (Effective(e) <=> Effective(e)')
         /\ \A j \in Checkouts : session[j].paid => session'[j] = session[j]
         /\ UNCHANGED <<acked, tableVars, txVars, faults>>
<1>1. CASE k \in Checkouts /\ StartCheckout(k)
  <2>1. PICK r : session' = [session EXCEPT ![k] = r]
    BY <1>1 DEF StartCheckout
  <2>2. \A j \in Checkouts : session[j].paid => session'[j] = session[j]
    BY <1>1, <2>1 DEF StartCheckout, TypeOK
  <2> QED
    BY <1>1, <2>2 DEF StartCheckout, StripeInv, TypeOK, Effective, Attributed
<1>2. CASE k \in Checkouts /\ Pay(k)
  <2>1. \A j \in Checkouts : /\ session'[j].org = session[j].org
                             /\ session'[j].tier = session[j].tier
                             /\ j # k => session'[j] = session[j]
    BY <1>2 DEF Pay, TypeOK
  <2>2. \A j \in Checkouts : session[j].paid => session'[j] = session[j]
    BY <1>2, <2>1 DEF Pay
  <2> QED
    BY <1>2, <2>1, <2>2 DEF Pay, StripeInv, TypeOK, Effective, Attributed
<1>3. CASE x \in Events /\ CreateEvent(x)
  <2>1. PICK j \in Checkouts \cup {NoCheckout} :
           (j \in Checkouts => session[j].paid) /\ about' = [about EXCEPT ![x] = j]
    BY <1>3 DEF CreateEvent
  <2>2. /\ \A e \in Events : e # x => about'[e] = about[e]
        /\ about'[x] = j /\ x \notin sent /\ sent' = sent \cup {x} /\ session' = session
    BY <1>3, <2>1 DEF CreateEvent, TypeOK
  <2>3. StripeInv'
    BY <2>1, <2>2 DEF StripeInv, TypeOK
  <2> QED
    BY <1>3, <2>2, <2>3 DEF CreateEvent, TypeOK, Effective, Attributed
<1> QED
  BY <1>1, <1>2, <1>3

\* The invariant under the steps of the checkout route and of Stripe.
LEMMA StripeStep ==
  ASSUME BillingAssumption, BillingInv, NEW k, NEW x,
         \/ k \in Checkouts /\ (StartCheckout(k) \/ Pay(k))
         \/ x \in Events /\ CreateEvent(x)
  PROVE  BillingInv'
<1>1. TypeOK' /\ TypeOK
  BY StripeType DEF BillingInv
<1>2. /\ StripeInv'
      /\ sent \subseteq sent'
      /\ \A e \in sent : about'[e] = about[e] /\ (Effective(e) <=> Effective(e)')
      /\ \A j \in Checkouts : session[j].paid => session'[j] = session[j]
      /\ UNCHANGED <<acked, tableVars, txVars, faults>>
  BY StripeStable DEF BillingInv
<1>3. StagedInv'
  BY <1>1, <1>2 DEF BillingInv, StagedInv, tableVars, txVars
<1>4. OrgInv'
  BY <1>1, <1>2 DEF BillingInv, OrgInv, StagedInv, StripeInv, tableVars, txVars, Effective
<1>5. RowInv'
  BY <1>1, <1>2 DEF BillingInv, RowInv, tableVars, txVars
<1>6. LedgerInv'
  <2>1. \A e \in Events \ ledger : applied[e] = 0
    BY DEF BillingInv, LedgerInv
  <2>2. ledger \subseteq sent
    BY <1>1 DEF TypeOK
  <2> QED
    BY <1>1, <1>2, <2>1, <2>2 DEF BillingInv, LedgerInv, tableVars, Effective
<1>7. LostOnlyToRaces'
  BY <1>1, <1>2 DEF BillingInv, LostOnlyToRaces, StripeInv, TypeOK, tableVars, Effective
<1>9. SubscribedInv'
  <2>1. \A d \in Slots : at[d] # "idle" =>
           /\ event[d] \in sent
           /\ Effective(event[d]) => session'[about'[event[d]]] = session[about[event[d]]]
    BY <1>1, <1>2 DEF BillingInv, StagedInv, StripeInv, TypeOK, Effective
  <2> QED
    BY <1>1, <1>2, <2>1 DEF BillingInv, SubscribedInv, OrgOf, tableVars, txVars
<1>8. EveryRowAccountedFor'
  <2>1. UNCHANGED <<row, audits, target, beneficiary>>
    BY <1>2 DEF tableVars, txVars
  <2>2. \A j \in Checkouts : session[j].paid => session'[j].paid /\ session'[j] = session[j]
    BY <1>2
  <2>3. EveryRowAccountedFor
    BY DEF BillingInv
  <2>4. ASSUME NEW s \in Subs, row[s] # NoRow
        PROVE  \/ s \in Checkouts /\ session'[s].paid
                  /\ row[s] = [org |-> session'[s].org, tier |-> session'[s].tier]
               \/ \E g \in audits : target[g] = s /\ row[s] = [org |-> beneficiary[g], tier |-> CompTier]
    <3>1. CASE s \in Checkouts /\ session[s].paid
               /\ row[s] = [org |-> session[s].org, tier |-> session[s].tier]
      BY <3>1, <2>2
    <3> QED
      BY <2>3, <2>4, <3>1 DEF EveryRowAccountedFor
  <2> QED
    BY <2>1, <2>4 DEF EveryRowAccountedFor, NoRow
<1> QED
  BY <1>1, <1>2, <1>3, <1>4, <1>5, <1>6, <1>7, <1>8, <1>9 DEF BillingInv

\* A transaction that is rolled back leaves nothing.
LEMMA RollbackStep ==
  ASSUME BillingAssumption, BillingInv, NEW t \in Txs, Open(t), Rollback(t),
         UNCHANGED <<session, about, sent>>
  PROVE  /\ StripeInv' /\ StagedInv' /\ OrgInv' /\ RowInv' /\ SubscribedInv'
         /\ LedgerInv' /\ EveryRowAccountedFor'
<1>1. /\ UNCHANGED <<session, about, sent, tableVars, target, beneficiary>>
      /\ \A u \in Txs : u # t => at'[u] = at[u] /\ staged'[u] = staged[u]
      /\ at'[t] = (IF t \in Slots THEN "idle" ELSE "done") /\ staged'[t] = {}
      /\ \A d \in Slots : d # t => event'[d] = event[d]
  BY DEF Rollback, BillingInv, TypeOK
<1>2. StripeInv'
  BY <1>1 DEF BillingInv, StripeInv
<1>3. StagedInv'
  BY <1>1 DEF BillingInv, StagedInv, tableVars, Txs, Effective, Attributed, BillingAssumption
<1>4. OrgInv'
  BY <1>1 DEF BillingInv, OrgInv, tableVars, Txs, Effective, Attributed, BillingAssumption, Open
<1>5. RowInv'
  BY <1>1 DEF BillingInv, RowInv, tableVars, Txs, BillingAssumption, Open
<1>6. LedgerInv' /\ EveryRowAccountedFor'
  BY <1>1 DEF BillingInv, LedgerInv, EveryRowAccountedFor, tableVars, Effective, Attributed
<1>7. SubscribedInv'
  BY <1>1 DEF BillingInv, SubscribedInv, OrgOf, tableVars, Txs, Effective, Attributed, BillingAssumption
<1> QED
  BY <1>2, <1>3, <1>4, <1>5, <1>6, <1>7

\* Every way a transaction is rolled back.
LEMMA FailureStep ==
  ASSUME BillingAssumption, BillingInv, NEW t \in Txs,
         \/ t \in Slots /\ (AlreadyRecorded(t) \/ RowCollides(t) \/ DeliveryFails(t))
         \/ OrgCollides(t) \/ GrantFails(t)
  PROVE  BillingInv'
<1> USE DEF BillingInv
<1>1. Rollback(t) /\ Open(t) /\ UNCHANGED <<session, about, sent>>
  BY DEF AlreadyRecorded, OrgCollides, RowCollides, DeliveryFails, GrantFails, Open, Answer200, stripeVars
<1>2. /\ StripeInv' /\ StagedInv' /\ OrgInv' /\ RowInv' /\ SubscribedInv'
      /\ LedgerInv' /\ EveryRowAccountedFor'
  BY <1>1, RollbackStep
<1>3. /\ at' \in [Txs -> Stages] /\ event' \in [Slots -> Events \cup {NoEvent}]
      /\ staged' \in [Txs -> SUBSET Keys]
  BY <1>1, RollbackType
<1>4. t \in Slots => event[t] \in sent
  BY <1>1 DEF StagedInv, Open
<1>5. acked' \subseteq sent /\ faults' \in 0..MaxFaults
  <2>1. CASE t \in Slots /\ Answer200(t)
    BY <2>1, <1>4, AnswerType
  <2>2. CASE UNCHANGED acked /\ (Fault \/ UNCHANGED faults)
    BY <2>2 DEF TypeOK, Fault, BillingAssumption
  <2> QED
    BY <2>1, <2>2 DEF AlreadyRecorded, OrgCollides, RowCollides, DeliveryFails, GrantFails, stripeVars
<1>6. TypeOK'
  BY <1>1, <1>3, <1>5 DEF TypeOK, Rollback, tableVars
<1>7. LostOnlyToRaces'
  <2>1. UNCHANGED <<session, about, ledger, row>>
    BY <1>1 DEF Rollback, tableVars
  <2>2. ASSUME NEW e \in acked', e \notin ledger, e \notin acked
        PROVE  Effective(e) /\ \E s \in Subs : row[s].org = session[about[e]].org
    <3>1. t \in Slots /\ e = event[t] /\ (AlreadyRecorded(t) \/ OrgCollides(t) \/ RowCollides(t))
      BY <2>2 DEF AlreadyRecorded, OrgCollides, RowCollides, DeliveryFails, GrantFails, Answer200, stripeVars
    <3>2. CASE OrgCollides(t)
      <4>1. Effective(e) /\ session[about[e]].org \in orgs
        BY <3>1, <3>2 DEF OrgCollides, OrgOf, StagedInv
      <4> QED
        BY <4>1 DEF SubscribedInv
    <3>3. CASE RowCollides(t)
      <4>1. Effective(e) /\ row[about[e]] # NoRow /\ about[e] \in Checkouts
        BY <3>1, <3>3 DEF RowCollides, StagedInv, Effective
      <4>2. about[e] \in Subs /\ row[about[e]].org = session[about[e]].org
        BY <4>1 DEF RowInv, Subs
      <4> QED
        BY <4>1, <4>2
    <3> QED
      BY <2>2, <3>1, <3>2, <3>3 DEF AlreadyRecorded
  <2> QED
    BY <2>1, <2>2 DEF LostOnlyToRaces, Effective, Attributed
<1> QED
  BY <1>2, <1>6, <1>7

\* The steps of a transaction that goes on.
Move(t, e) ==
    \/ t \in Slots /\ (Deliver(t, e) \/ RecordEvent(t))
    \/ FindOrg(t) \/ InsertOrg(t) \/ OrgResolved(t) \/ WriteSubscription(t)
    \/ t \in Slots /\ (FindRow(t) \/ InsertRow(t) \/ RowResolved(t))
    \/ t \in Grants /\ (StartGrant(t) \/ FindSub(t))

\* What such a step leaves alone, and which facts it relies on.
LEMMA MoveFrame ==
  ASSUME BillingAssumption, AuthAssumption, BillingInv, NEW t \in Txs, NEW e, Move(t, e)
  PROVE  /\ TypeOK'
         /\ UNCHANGED <<stripeVars, tableVars, faults>>
         /\ \A u \in Txs : u # t => at'[u] = at[u] /\ staged'[u] = staged[u]
         /\ \A d \in Slots : d # t => event'[d] = event[d]
         /\ \A g \in Grants : g # t => target'[g] = target[g] /\ beneficiary'[g] = beneficiary[g]
         /\ at[t] # "commit" /\ at[t] # "done"
<1> USE DEF BillingInv, Move
<1>1. at[t] = "record" /\ t \in Slots => event[t] \in Events
  BY DEF StagedInv, TypeOK
<1>2. at[t] = "insertOrg" => OrgOf(t) \in Orgs
  <2>1. CASE t \in Slots
    BY <2>1 DEF StagedInv, TypeOK, OrgOf, Effective, Attributed
  <2>2. CASE t \notin Slots
    BY <2>2 DEF OrgInv, OrgOf, Txs
  <2> QED
    BY <2>1, <2>2
<1>4. at[t] = "insertRow" /\ t \in Slots => about[event[t]] \in Checkouts
  BY DEF StagedInv, Effective
<1>3. TypeOK'
  BY <1>1, <1>2, <1>4, MoveType
<1> QED
  BY <1>3 DEF Deliver, RecordEvent, FindOrg, InsertOrg, OrgResolved, FindRow, InsertRow, RowResolved,
       WriteSubscription, StartGrant, FindSub, Insert, Continue, TypeOK

\* A key is staged only when nobody has it.
LEMMA MoveStaged ==
  ASSUME BillingAssumption, AuthAssumption, BillingInv, NEW t \in Txs, NEW e, Move(t, e)
  PROVE  StagedInv'
<1> USE DEF BillingInv
<1>f. /\ TypeOK'
      /\ UNCHANGED <<stripeVars, tableVars, faults>>
      /\ \A u \in Txs : u # t => at'[u] = at[u] /\ staged'[u] = staged[u]
      /\ \A d \in Slots : d # t => event'[d] = event[d]
  BY MoveFrame
<1>s. \A x \in Events : Effective(x)' <=> Effective(x)
  BY <1>f DEF stripeVars, Effective, Attributed
<1>1. CASE t \in Slots /\ Deliver(t, e)
  BY <1>1, <1>f, <1>s DEF Deliver, StagedInv, TypeOK, Txs, stripeVars, tableVars, BillingAssumption
<1>2. CASE t \in Slots /\ RecordEvent(t)
  <2>1. /\ staged'[t] = staged[t] \cup {event[t]} /\ event' = event
        /\ event[t] \in Events /\ event[t] \notin ledger
        /\ \A u \in Txs \ {t} : event[t] \notin staged[u]
        /\ at'[t] = IF Effective(event[t]) THEN "findOrg" ELSE "commit"
        /\ at[t] = "record" /\ staged[t] \cap Events = {}
    BY <1>2 DEF RecordEvent, Insert, CanInsert, Continue, StagedInv, TypeOK, Effective, Txs
  <2> QED
    BY <1>2, <1>f, <1>s, <2>1 DEF StagedInv, Txs, stripeVars, tableVars, BillingAssumption
<1>3. CASE InsertOrg(t)
  <2>1. /\ staged'[t] = staged[t] \cup {OrgOf(t)} /\ event' = event
        /\ at'[t] = AfterOrg(t) /\ at[t] = "insertOrg"
    BY <1>3 DEF InsertOrg, Insert, Continue, TypeOK
  <2>2. OrgOf(t) \in Orgs
    BY <2>1 DEF StagedInv, OrgInv, TypeOK, OrgOf, Effective, Attributed, Txs
  <2>3. OrgOf(t) \notin Events /\ ledger \subseteq Events
    BY <2>2 DEF BillingAssumption, TypeOK
  <2> QED
    BY <1>3, <1>f, <1>s, <2>1, <2>3 DEF StagedInv, Txs, AfterOrg, stripeVars, tableVars, BillingAssumption
<1>4. CASE FindOrg(t) \/ OrgResolved(t) \/ WriteSubscription(t)
  <2>1. staged' = staged /\ event' = event
    BY <1>4 DEF FindOrg, OrgResolved, WriteSubscription
  <2>2. /\ at[t] \in {"findOrg", "insertOrg", "write"}
        /\ at'[t] \in {"insertOrg", AfterOrg(t), "commit"}
    BY <1>4 DEF FindOrg, OrgResolved, WriteSubscription, Continue, TypeOK
  <2> QED
    BY <1>f, <1>s, <2>1, <2>2 DEF StagedInv, Txs, AfterOrg, stripeVars, tableVars, BillingAssumption
<1>5. CASE t \in Grants /\ (StartGrant(t) \/ FindSub(t))
  BY <1>5, <1>f, <1>s DEF StartGrant, FindSub, StagedInv, Txs, stripeVars, tableVars, BillingAssumption
<1>6. CASE t \in Slots /\ InsertRow(t)
  <2>1. /\ staged'[t] = staged[t] \cup {about[event[t]]} /\ event' = event
        /\ at'[t] = "commit" /\ at[t] = "insertRow"
    BY <1>6 DEF InsertRow, Insert, Continue, TypeOK
  <2>2. about[event[t]] \notin Events /\ ledger \subseteq Events
    BY <1>6, <2>1 DEF StagedInv, Effective, BillingAssumption, TypeOK
  <2> QED
    BY <1>6, <1>f, <1>s, <2>1, <2>2 DEF StagedInv, Txs, stripeVars, tableVars, BillingAssumption
<1>7. CASE t \in Slots /\ (FindRow(t) \/ RowResolved(t))
  <2>1. /\ staged' = staged /\ event' = event
        /\ at[t] \in {"findRow", "insertRow"} /\ at'[t] \in {"insertRow", "write"}
    BY <1>7 DEF FindRow, RowResolved, Continue, TypeOK
  <2> QED
    BY <1>f, <1>s, <1>7, <2>1 DEF StagedInv, Txs, stripeVars, tableVars, BillingAssumption
<1> QED
  BY <1>1, <1>2, <1>3, <1>4, <1>5, <1>6, <1>7 DEF Move

\* Organizations come before subscriptions.
LEMMA MoveOrg ==
  ASSUME BillingAssumption, AuthAssumption, BillingInv, NEW t \in Txs, NEW e, Move(t, e)
  PROVE  OrgInv'
<1> USE DEF BillingInv
<1>f. /\ UNCHANGED <<stripeVars, tableVars, faults>>
      /\ \A u \in Txs : u # t => at'[u] = at[u] /\ staged'[u] = staged[u]
      /\ \A d \in Slots : d # t => event'[d] = event[d]
      /\ \A g \in Grants : g # t => target'[g] = target[g] /\ beneficiary'[g] = beneficiary[g]
  BY MoveFrame
<1>s. \A x \in Events : Effective(x)' <=> Effective(x)
  BY <1>f DEF stripeVars, Effective, Attributed
<1>t. Slots \subseteq Txs /\ Grants \subseteq Txs /\ Slots \cap Grants = {}
  BY DEF Txs, BillingAssumption
<1> DEFINE Own == /\ t \in Grants /\ at'[t] # "idle" => beneficiary'[t] \in Orgs
                  /\ t \in Grants /\ at'[t] \in {"findSub", "write", "commit"} =>
                        beneficiary'[t] \in orgs \cup staged'[t]
                  /\ t \in Slots /\ at'[t] \in {"findRow", "insertRow", "write", "commit"} /\ Effective(event'[t]) =>
                        session[about[event'[t]]].org \in orgs \cup staged'[t]
<1>1. Own
  <2>1. CASE t \in Slots /\ Deliver(t, e)
    BY <2>1, <1>t DEF Deliver, TypeOK
  <2>2. CASE t \in Slots /\ RecordEvent(t)
    BY <2>2, <1>t DEF RecordEvent, Continue, TypeOK, Effective
  <2>3. CASE FindOrg(t)
    BY <2>3, <1>t DEF FindOrg, Continue, TypeOK, OrgOf, AfterOrg, OrgInv
  <2>4. CASE InsertOrg(t)
    BY <2>4, <1>t DEF InsertOrg, Insert, Continue, TypeOK, OrgOf, AfterOrg, OrgInv
  <2>5. CASE OrgResolved(t)
    BY <2>5, <1>t DEF OrgResolved, Continue, TypeOK, OrgOf, AfterOrg, OrgInv
  <2>6. CASE WriteSubscription(t)
    BY <2>6, <1>t DEF WriteSubscription, Continue, TypeOK, OrgInv, stripeVars
  <2>7. CASE t \in Grants /\ StartGrant(t)
    BY <2>7, <1>t DEF StartGrant, Continue, TypeOK
  <2>8. CASE t \in Grants /\ FindSub(t)
    BY <2>8, <1>t DEF FindSub, Continue, TypeOK, OrgInv
  <2>9. CASE t \in Slots /\ (FindRow(t) \/ RowResolved(t))
    BY <2>9, <1>t DEF FindRow, RowResolved, Continue, TypeOK, OrgInv, stripeVars
  <2>10. CASE t \in Slots /\ InsertRow(t)
    BY <2>10, <1>t DEF InsertRow, Insert, Continue, TypeOK, OrgInv, stripeVars
  <2> QED
    BY <2>1, <2>2, <2>3, <2>4, <2>5, <2>6, <2>7, <2>8, <2>9, <2>10 DEF Move
<1> QED
  BY <1>1, <1>f, <1>s, <1>t DEF OrgInv, stripeVars, tableVars, Effective, Attributed

\* Only the organization of its own subscription is staged by a transaction.
LEMMA MoveSubscribed ==
  ASSUME BillingAssumption, AuthAssumption, BillingInv, NEW t \in Txs, NEW e, Move(t, e)
  PROVE  SubscribedInv'
<1> USE DEF BillingInv
<1>f. /\ UNCHANGED <<stripeVars, tableVars, faults>>
      /\ \A u \in Txs : u # t => at'[u] = at[u] /\ staged'[u] = staged[u]
      /\ \A d \in Slots : d # t => event'[d] = event[d]
      /\ \A g \in Grants : g # t => target'[g] = target[g] /\ beneficiary'[g] = beneficiary[g]
  BY MoveFrame
<1>t. Slots \cap Grants = {} /\ Txs = Slots \cup Grants
  BY DEF Txs, BillingAssumption
<1> DEFINE Own == \A o \in staged'[t] \cap Orgs :
                     /\ at'[t] \notin {"idle", "record"} /\ o = OrgOf(t)'
                     /\ t \in Slots => Effective(event'[t])
<1>1. Own
  <2>1. CASE (t \in Slots /\ Deliver(t, e)) \/ (t \in Grants /\ StartGrant(t))
    <3>1. staged'[t] = staged[t] /\ at[t] = "idle"
      BY <2>1 DEF Deliver, StartGrant
    <3> QED
      BY <3>1 DEF SubscribedInv
  <2>2. CASE t \in Slots /\ RecordEvent(t)
    <3>1. staged'[t] = staged[t] \cup {event[t]} /\ at[t] = "record"
      BY <2>2 DEF RecordEvent, Insert, TypeOK
    <3>2. event[t] \notin Orgs
      BY <2>2, <3>1 DEF StagedInv, TypeOK, BillingAssumption
    <3> QED
      BY <3>1, <3>2 DEF SubscribedInv
  <2>3. CASE InsertOrg(t)
    <3>1. /\ staged'[t] = staged[t] \cup {OrgOf(t)} /\ at[t] = "insertOrg" /\ at'[t] = AfterOrg(t)
          /\ event' = event /\ beneficiary' = beneficiary
      BY <2>3 DEF InsertOrg, Insert, Continue, TypeOK
    <3>2. OrgOf(t)' = OrgOf(t) /\ (t \in Slots => Effective(event'[t]))
      BY <1>f, <3>1 DEF StagedInv, OrgOf, stripeVars
    <3> QED
      BY <3>1, <3>2 DEF SubscribedInv, AfterOrg
  <2>4. CASE t \in Slots /\ InsertRow(t)
    <3>1. /\ staged'[t] = staged[t] \cup {about[event[t]]} /\ at[t] = "insertRow" /\ at'[t] = "commit"
          /\ event' = event /\ beneficiary' = beneficiary
      BY <2>4 DEF InsertRow, Insert, Continue, TypeOK
    <3>2. /\ OrgOf(t)' = OrgOf(t) /\ Effective(event'[t]) /\ about[event[t]] \in Checkouts
      BY <1>f, <2>4, <3>1 DEF StagedInv, OrgOf, stripeVars, Effective
    <3>3. about[event[t]] \notin Orgs
      BY <3>2 DEF BillingAssumption
    <3> QED
      BY <3>1, <3>2, <3>3 DEF SubscribedInv
  <2>5. CASE \/ FindOrg(t) \/ OrgResolved(t) \/ WriteSubscription(t)
             \/ t \in Slots /\ (FindRow(t) \/ RowResolved(t))
             \/ t \in Grants /\ FindSub(t)
    <3>1. UNCHANGED <<staged, event, beneficiary>> /\ at'[t] \notin {"idle", "record"}
      BY <2>5 DEF FindOrg, OrgResolved, WriteSubscription, FindRow, RowResolved, FindSub, Continue, AfterOrg, TypeOK
    <3>2. OrgOf(t)' = OrgOf(t)
      BY <1>f, <3>1 DEF OrgOf, stripeVars
    <3>3. t \in Slots /\ Effective(event[t]) => Effective(event'[t])
      BY <3>1
    <3> QED
      BY <3>1, <3>2, <3>3 DEF SubscribedInv
  <2> QED
    BY <2>1, <2>2, <2>3, <2>4, <2>5 DEF Move
<1>2. ASSUME NEW u \in Txs, u # t
      PROVE  OrgOf(u)' = OrgOf(u) /\ (u \in Slots => event'[u] = event[u])
  BY <1>2, <1>f, <1>t DEF OrgOf, stripeVars
<1>3. \A o \in orgs' : \E s \in Subs : row'[s].org = o
  BY <1>f DEF SubscribedInv, tableVars
<1>4. (\A u \in Txs : \A o \in staged[u] \cap Orgs :
          /\ at[u] \notin {"idle", "record"} /\ o = OrgOf(u)
          /\ u \in Slots => Effective(event[u]))'
  <2> SUFFICES ASSUME NEW u \in Txs, NEW o \in staged'[u] \cap Orgs
               PROVE  /\ at'[u] \notin {"idle", "record"} /\ o = OrgOf(u)'
                      /\ u \in Slots => Effective(event[u])'
    OBVIOUS
  <2>1. CASE u = t
    BY <1>1, <1>f, <2>1 DEF stripeVars, Effective, Attributed
  <2>2. CASE u # t
    <3>1. o \in staged[u] \cap Orgs /\ at'[u] = at[u] /\ OrgOf(u)' = OrgOf(u)
      BY <1>2, <1>f, <2>2
    <3>2. at[u] \notin {"idle", "record"} /\ o = OrgOf(u) /\ (u \in Slots => Effective(event[u]))
      BY <3>1 DEF SubscribedInv
    <3>3. u \in Slots => Effective(event[u])'
      BY <1>f, <2>2, <3>2 DEF stripeVars, Effective, Attributed
    <3> QED
      BY <3>1, <3>2, <3>3
  <2> QED
    BY <2>1, <2>2
<1> QED
  BY <1>3, <1>4 DEF SubscribedInv

\* The tables stay, and a grant that has found its subscription writes it.
LEMMA MoveStep ==
  ASSUME BillingAssumption, AuthAssumption, BillingInv, NEW t \in Txs, NEW e, Move(t, e)
  PROVE  BillingInv'
<1>f. /\ TypeOK'
      /\ UNCHANGED <<stripeVars, tableVars, faults>>
      /\ \A u \in Txs : u # t => at'[u] = at[u] /\ staged'[u] = staged[u]
      /\ \A g \in Grants : g # t => target'[g] = target[g] /\ beneficiary'[g] = beneficiary[g]
      /\ at[t] # "done"
  BY MoveFrame
<1>1. StagedInv' /\ OrgInv' /\ SubscribedInv'
  BY MoveStaged, MoveOrg, MoveSubscribed
<1>2. StripeInv' /\ LedgerInv' /\ LostOnlyToRaces'
  BY <1>f DEF BillingInv, StripeInv, LedgerInv, LostOnlyToRaces, Effective, Attributed,
       stripeVars, tableVars, NoRow
<1>3. \A g \in audits : g \in Grants /\ g # t
  BY <1>f DEF BillingInv, RowInv, TypeOK
<1>4. EveryRowAccountedFor'
  <2>1. \A g \in audits : target'[g] = target[g] /\ beneficiary'[g] = beneficiary[g]
    BY <1>f, <1>3
  <2>2. UNCHANGED <<session, row, audits>>
    BY <1>f DEF stripeVars, tableVars
  <2>3. ASSUME NEW s \in Subs, row'[s] # NoRow
        PROVE  \/ s \in Checkouts /\ session'[s].paid
                  /\ row'[s] = [org |-> session'[s].org, tier |-> session'[s].tier]
               \/ \E g \in audits' : target'[g] = s /\ row'[s] = [org |-> beneficiary'[g], tier |-> CompTier]
    <3>1. EveryRowAccountedFor /\ row[s] # NoRow
      BY <2>2, <2>3 DEF BillingInv
    <3>2. CASE \E g \in audits : target[g] = s /\ row[s] = [org |-> beneficiary[g], tier |-> CompTier]
      <4>1. PICK g \in audits : target[g] = s /\ row[s] = [org |-> beneficiary[g], tier |-> CompTier]
        BY <3>2
      <4>2. g \in audits' /\ target'[g] = s /\ row'[s] = [org |-> beneficiary'[g], tier |-> CompTier]
        BY <4>1, <2>1, <2>2
      <4> QED
        BY <4>2
    <3> QED
      BY <3>1, <3>2, <2>2 DEF EveryRowAccountedFor
  <2> QED
    BY <2>3 DEF EveryRowAccountedFor, NoRow
<1>5. t \in Grants /\ at'[t] \in {"write", "commit"} =>
         target'[t] = t \/ row[target'[t]].org = beneficiary'[t]
  <2> SUFFICES ASSUME t \in Grants, at'[t] \in {"write", "commit"}
               PROVE  target'[t] = t \/ row[target'[t]].org = beneficiary'[t]
    OBVIOUS
  <2>t. t \notin Slots
    BY DEF BillingAssumption
  <2>1. CASE FindSub(t)
    BY <2>1 DEF FindSub, BillingInv, TypeOK
  <2>2. CASE ~FindSub(t)
    BY <2>2, <2>t DEF Move, FindOrg, InsertOrg, OrgResolved, WriteSubscription, StartGrant,
         Continue, AfterOrg, BillingInv, TypeOK, RowInv
  <2> QED
    BY <2>1, <2>2
<1>6. RowInv'
  <2>1. \A g \in Grants : g \in Txs
    BY DEF Txs
  <2> QED
    BY <1>f, <1>3, <1>5, <2>1 DEF BillingInv, RowInv, stripeVars, tableVars, NoRow
<1> QED
  BY <1>f, <1>1, <1>2, <1>4, <1>6 DEF BillingInv

-----------------------------------------------------------------------------
\* What the commit of a webhook transaction adds: its event, for the first
\* time, and at most the row of its checkout, which had none.
LEMMA CommitEventEffect ==
  ASSUME BillingAssumption, AuthAssumption, BillingInv, NEW d \in Slots, CommitEvent(d)
  PROVE  /\ event[d] \in sent /\ event[d] \notin ledger
         /\ ledger' = ledger \cup {event[d]}
         /\ orgs' = orgs \cup (staged[d] \cap Orgs)
         /\ acked \subseteq acked' /\ acked' \subseteq acked \cup {event[d]}
         /\ UNCHANGED <<session, about, sent, audits, target, beneficiary>>
         /\ \A s \in Subs : row[s] # NoRow => row'[s] = row[s]
         /\ \A s \in Subs : row'[s] # row[s] =>
               /\ Effective(event[d]) /\ s = about[event[d]]
               /\ row'[s] = [org |-> session[s].org, tier |-> session[s].tier]
         /\ Effective(event[d]) => row'[about[event[d]]] # NoRow
<1> USE DEF BillingInv
<1>1. at[d] = "commit"
  BY DEF CommitEvent
<1>2. event[d] \in sent /\ staged[d] \cap Events = {event[d]} /\ event[d] \notin ledger
  BY <1>1 DEF StagedInv
<1>3. acked \subseteq acked' /\ acked' \subseteq acked \cup {event[d]}
  BY DEF CommitEvent, Answer200
<1>4. UNCHANGED <<session, about, sent, audits, target, beneficiary>>
  BY DEF CommitEvent, Answer200
<1>5. CASE Effective(event[d])
  <2> DEFINE k == about[event[d]]
  <2>1. k \in Subs /\ row' = [row EXCEPT ![k] = Upserted(row[k], k)]
    BY <1>5 DEF CommitEvent, Effective, Subs
  <2>2. \A s \in Subs : s # k => row'[s] = row[s]
    BY <2>1 DEF TypeOK
  <2>3. row'[k] = Upserted(row[k], k)
    BY <2>1 DEF TypeOK
  <2>4. session[k].org # NoOrg
    BY <1>5 DEF Effective, Attributed
  <2>5. row'[k] # NoRow
    BY <2>3, <2>4 DEF Upserted, NoRow
  <2> QED
    BY <1>2, <1>3, <1>4, <1>5, <2>2, <2>3, <2>5 DEF CommitEvent, Upserted
<1>6. CASE ~Effective(event[d])
  <2>1. row' = row
    BY <1>6 DEF CommitEvent, Effective
  <2> QED
    BY <1>2, <1>3, <1>4, <1>6, <2>1 DEF CommitEvent
<1> QED
  BY <1>5, <1>6

\* The invariant under it.
LEMMA CommitEventStep ==
  ASSUME BillingAssumption, AuthAssumption, BillingInv, NEW d \in Slots, CommitEvent(d)
  PROVE  BillingInv'
<1> USE DEF BillingInv
<1> DEFINE e == event[d]
<1>e. /\ e \in sent /\ e \notin ledger
      /\ ledger' = ledger \cup {e}
      /\ orgs' = orgs \cup (staged[d] \cap Orgs)
      /\ acked \subseteq acked' /\ acked' \subseteq acked \cup {e}
      /\ UNCHANGED <<session, about, sent, audits, target, beneficiary>>
      /\ \A s \in Subs : row[s] # NoRow => row'[s] = row[s]
      /\ \A s \in Subs : row'[s] # row[s] =>
            /\ Effective(e) /\ s = about[e]
            /\ row'[s] = [org |-> session[s].org, tier |-> session[s].tier]
      /\ Effective(e) => row'[about[e]] # NoRow
  BY CommitEventEffect
<1>x. /\ at[d] = "commit" /\ at'[d] = "idle" /\ staged'[d] = {} /\ d \in Txs
      /\ \A u \in Txs : u # d => at'[u] = at[u] /\ staged'[u] = staged[u]
      /\ \A c \in Slots : c # d => event'[c] = event[c]
      /\ staged[d] \cap Events = {e}
  BY DEF CommitEvent, TypeOK, StagedInv, Txs
<1>s. \A x \in Events : Effective(x)' <=> Effective(x)
  BY <1>e DEF Effective, Attributed
<1>t. Slots \subseteq Txs /\ Grants \subseteq Txs /\ Slots \cap Grants = {} /\ Checkouts \cap Grants = {}
  BY DEF Txs, BillingAssumption
<1>1. TypeOK'
  <2>1. staged[d] \cap Events \subseteq sent
    BY <1>e, <1>x
  <2> QED
    BY <1>e, <1>x, <2>1, CommitType
<1>2. StripeInv'
  BY <1>e DEF StripeInv
<1>3. StagedInv'
  <2>1. \A c \in Slots : c # d => at'[c] = at[c] /\ staged'[c] = staged[c] /\ event'[c] = event[c]
    BY <1>x, <1>t
  <2>2. \A g \in Grants : staged'[g] = staged[g]
    BY <1>x, <1>t
  <2>3. \A c \in Slots : c # d => e \notin staged[c]
    BY <1>x, <1>e DEF StagedInv, TypeOK, StripeInv
  <2>4. \A c \in Slots : c # d => staged[c] \cap ledger' = {}
    BY <1>e, <2>3 DEF StagedInv
  <2> QED
    BY <1>e, <1>x, <1>s, <2>1, <2>2, <2>4 DEF StagedInv
<1>4. OrgInv'
  BY <1>e, <1>x, <1>t DEF OrgInv, Effective, Attributed
<1>5. RowInv'
  <2>1. ASSUME NEW s \in Subs, row'[s] # NoRow
        PROVE  row'[s].org \in orgs'
    <3>1. CASE row'[s] = row[s]
      BY <3>1, <2>1, <1>e DEF RowInv
    <3>2. CASE row'[s] # row[s]
      <4>0. /\ Effective(e) /\ s = about[e]
            /\ row'[s] = [org |-> session[s].org, tier |-> session[s].tier]
        BY <3>2, <1>e
      <4>1. Effective(e) /\ s = about[e] /\ row'[s].org = session[s].org
        BY <4>0
      <4>2. session[s].org \in orgs \cup staged[d]
        BY <4>1, <1>x DEF OrgInv
      <4>3. session[s].org \in Orgs
        BY <4>1 DEF Effective, Attributed, TypeOK
      <4> QED
        BY <4>1, <4>2, <4>3, <1>e
    <3> QED
      BY <3>1, <3>2
  <2>2. ASSUME NEW k \in Checkouts, row'[k] # NoRow
        PROVE  session[k].paid /\ row'[k].org = session[k].org
    <3>1. k \in Subs
      BY DEF Subs
    <3>2. CASE row'[k] = row[k]
      BY <3>2, <2>2 DEF RowInv
    <3>3. CASE row'[k] # row[k]
      <4>1. Effective(e) /\ k = about[e] /\ e \in Events
        BY <3>1, <3>3, <1>e DEF TypeOK
      <4>2. row'[k] = [org |-> session[k].org, tier |-> session[k].tier]
        BY <3>1, <3>3, <1>e
      <4> QED
        BY <4>1, <4>2 DEF StripeInv
    <3> QED
      BY <3>2, <3>3
  <2>3. \A g \in Grants : row'[g] = row[g]
    BY <1>e, <1>t DEF Effective, Subs
  <2>4. \A g \in Grants : at'[g] = at[g]
    BY <1>x, <1>t
  <2>5. ASSUME NEW g \in Grants, at[g] \in {"write", "commit"}, target[g] # g
        PROVE  row'[target[g]].org = beneficiary[g]
    <3>1. row[target[g]].org = beneficiary[g] /\ beneficiary[g] \in Orgs /\ target[g] \in Subs
      BY <2>5 DEF RowInv, OrgInv, TypeOK
    <3>2. row[target[g]] # NoRow
      BY <3>1 DEF NoRow, AuthAssumption
    <3> QED
      BY <3>1, <3>2, <1>e
  <2> QED
    BY <2>1, <2>2, <2>3, <2>4, <2>5, <1>e DEF RowInv, NoRow
<1>6. LedgerInv'
  <2>1. /\ \A x \in Events : x # e => applied'[x] = applied[x]
        /\ applied'[e] = IF Effective(e) THEN 1 ELSE 0
    <3>1. applied[e] = 0 /\ e \in Events
      BY <1>e DEF LedgerInv, TypeOK
    <3> QED
      BY <3>1 DEF CommitEvent, Effective, TypeOK
  <2>2. \A x \in Events : Effective(x) => about[x] \in Subs
    BY DEF Effective, Subs
  <2> QED
    BY <2>1, <2>2, <1>e, <1>s DEF LedgerInv, NoRow
<1>k. \A s \in Subs : row[s].org # NoOrg => row'[s].org = row[s].org
  BY <1>e DEF NoRow
<1>7. LostOnlyToRaces'
  <2> SUFFICES ASSUME NEW x \in acked', x \notin ledger'
               PROVE  /\ about'[x] \in Checkouts /\ Attributed(about[x])'
                      /\ \E s \in Subs : row'[s].org = session'[about'[x]].org
    BY DEF LostOnlyToRaces
  <2>1. x \in acked \ ledger
    BY <1>e
  <2>2. PICK s \in Subs : row[s].org = session[about[x]].org
    BY <2>1 DEF LostOnlyToRaces
  <2>3. about[x] \in Checkouts /\ Attributed(about[x])
    BY <2>1 DEF LostOnlyToRaces
  <2> QED
    BY <1>e, <1>k, <2>2, <2>3 DEF Attributed
<1>9. SubscribedInv'
  <2>1. ASSUME NEW o \in orgs'
        PROVE  \E s \in Subs : row'[s].org = o
    <3>1. CASE o \in orgs
      BY <1>k, <3>1 DEF SubscribedInv, TypeOK, AuthAssumption
    <3>2. CASE o \in staged[d] \cap Orgs
      <4>1. Effective(e) /\ o = session[about[e]].org
        BY <1>x, <3>2 DEF SubscribedInv, OrgOf
      <4>2. about[e] \in Checkouts /\ about[e] \in Subs /\ row'[about[e]] # NoRow
        BY <1>e, <4>1 DEF Effective, Subs
      <4>3. row'[about[e]].org = session'[about[e]].org
        BY <1>5, <4>2 DEF RowInv, NoRow
      <4> QED
        BY <1>e, <4>1, <4>2, <4>3
    <3> QED
      BY <1>e, <3>1, <3>2
  <2>2. ASSUME NEW u \in Txs, u # d
        PROVE  OrgOf(u)' = OrgOf(u) /\ (u \in Slots => event'[u] = event[u])
    BY <1>e, <1>x, <2>2 DEF OrgOf
  <2>3. ASSUME NEW u \in Txs, NEW o \in staged'[u] \cap Orgs
        PROVE  /\ at'[u] \notin {"idle", "record"} /\ o = OrgOf(u)'
               /\ u \in Slots => Effective(event[u])'
    <3>1. u # d /\ o \in staged[u] \cap Orgs /\ at'[u] = at[u]
      BY <1>x, <2>3
    <3>2. at[u] \notin {"idle", "record"} /\ o = OrgOf(u) /\ (u \in Slots => Effective(event[u]))
      BY <3>1 DEF SubscribedInv
    <3>3. u \in Slots => Effective(event[u])'
      BY <1>e, <2>2, <3>1, <3>2 DEF Effective, Attributed
    <3> QED
      BY <2>2, <3>1, <3>2, <3>3
  <2> QED
    BY <2>1, <2>3 DEF SubscribedInv
<1>8. EveryRowAccountedFor'
  <2>1. ASSUME NEW s \in Subs, row'[s] # NoRow
        PROVE  \/ s \in Checkouts /\ session[s].paid
                  /\ row'[s] = [org |-> session[s].org, tier |-> session[s].tier]
               \/ \E g \in audits : target[g] = s /\ row'[s] = [org |-> beneficiary[g], tier |-> CompTier]
    <3>1. CASE row'[s] = row[s]
      BY <3>1, <2>1 DEF EveryRowAccountedFor
    <3>2. CASE row'[s] # row[s]
      BY <3>2, <1>e DEF Effective, StripeInv, TypeOK
    <3> QED
      BY <3>1, <3>2
  <2> QED
    BY <2>1, <1>e DEF EveryRowAccountedFor, NoRow
<1> QED
  BY <1>1, <1>2, <1>3, <1>4, <1>5, <1>6, <1>7, <1>8, <1>9

\* The commit of a grant overwrites a row of its own organization, or adds one.
LEMMA CommitGrantStep ==
  ASSUME BillingAssumption, AuthAssumption, BillingInv, NEW g \in Grants, CommitGrant(g)
  PROVE  BillingInv'
<1> USE DEF BillingInv
<1> DEFINE tgt == target[g]
           new == [org |-> beneficiary[g], tier |-> CompTier]
<1>t. Slots \subseteq Txs /\ Grants \subseteq Txs /\ Slots \cap Grants = {} /\ Checkouts \cap Grants = {}
  BY DEF Txs, BillingAssumption
<1>x. /\ at[g] = "commit" /\ at'[g] = "done" /\ staged'[g] = {}
      /\ \A u \in Txs : u # g => at'[u] = at[u] /\ staged'[u] = staged[u]
  BY <1>t DEF CommitGrant, TypeOK
<1>c. /\ UNCHANGED <<session, about, sent, acked, ledger, applied, event, target, beneficiary, faults>>
      /\ orgs' = orgs \cup (staged[g] \cap Orgs)
      /\ audits' = audits \cup {g}
  BY DEF CommitGrant, stripeVars
<1>b. beneficiary[g] \in Orgs /\ beneficiary[g] \in orgs'
  BY <1>x, <1>c DEF OrgInv
<1>n. tgt \in Subs /\ new # NoRow
  BY <1>b DEF TypeOK, NoRow, AuthAssumption
<1>r. /\ row'[tgt] = new
      /\ \A s \in Subs : s # tgt => row'[s] = row[s]
  BY <1>n DEF CommitGrant, TypeOK
<1>o. tgt = g \/ (row[tgt].org = beneficiary[g] /\ row[tgt] # NoRow)
  BY <1>x, <1>b DEF RowInv, NoRow, AuthAssumption
<1>s. \A x \in Events : Effective(x)' <=> Effective(x)
  BY <1>c DEF Effective, Attributed
<1>1. TypeOK'
  BY <1>t, CommitType
<1>2. StripeInv'
  BY <1>c DEF StripeInv
<1>3. StagedInv'
  BY <1>c, <1>x, <1>s, <1>t DEF StagedInv
<1>4. OrgInv'
  BY <1>c, <1>x, <1>t, <1>b, <1>s DEF OrgInv, Effective, Attributed
<1>5. RowInv'
  <2>1. ASSUME NEW s \in Subs, row'[s] # NoRow
        PROVE  row'[s].org \in orgs'
    BY <2>1, <1>c, <1>b, <1>r DEF RowInv
  <2>2. ASSUME NEW k \in Checkouts, row'[k] # NoRow
        PROVE  session[k].paid /\ row'[k].org = session[k].org
    <3>1. k \in Subs /\ k # g
      BY <1>t DEF Subs
    <3>2. row[k] # NoRow /\ row'[k].org = row[k].org
      BY <2>2, <3>1, <1>r, <1>o
    <3> QED
      BY <3>2 DEF RowInv
  <2>3. ASSUME NEW h \in Grants, row'[h] # NoRow
        PROVE  h \in audits'
    BY <2>3, <1>c, <1>r, <1>o DEF RowInv, Subs
  <2>4. ASSUME NEW h \in Grants, at'[h] \in {"write", "commit"}, target[h] # h
        PROVE  row'[target[h]].org = beneficiary[h]
    <3>1. h # g /\ at[h] \in {"write", "commit"}
      BY <2>4, <1>x, <1>t
    <3>2. row[target[h]].org = beneficiary[h] /\ beneficiary[h] \in Orgs /\ target[h] \in Subs
      BY <2>4, <3>1 DEF RowInv, OrgInv, TypeOK
    <3>3. row[target[h]] # NoRow
      BY <3>2 DEF NoRow, AuthAssumption
    <3>4. target[h] # g
      BY <3>3, <1>x DEF RowInv
    <3> QED
      BY <3>2, <3>4, <1>r, <1>o
  <2>5. \A h \in audits' : h \in Grants => at'[h] = "done"
    BY <1>c, <1>x, <1>t DEF RowInv
  <2> QED
    BY <2>1, <2>2, <2>3, <2>4, <2>5, <1>c DEF RowInv, NoRow
<1>6. LedgerInv'
  <2>1. \A x \in Events : Effective(x) => about[x] \in Subs
    BY DEF Effective, Subs
  <2> QED
    BY <2>1, <1>c, <1>s, <1>r, <1>n DEF LedgerInv, NoRow
<1>k. \A s \in Subs : row[s].org # NoOrg => row'[s].org = row[s].org
  <2>1. tgt = g => row[g] = NoRow
    BY <1>x DEF RowInv
  <2> QED
    BY <1>r, <1>o, <2>1 DEF NoRow
<1>7. LostOnlyToRaces'
  <2> SUFFICES ASSUME NEW x \in acked', x \notin ledger'
               PROVE  /\ about'[x] \in Checkouts /\ Attributed(about[x])'
                      /\ \E s \in Subs : row'[s].org = session'[about'[x]].org
    BY DEF LostOnlyToRaces
  <2>1. x \in acked \ ledger
    BY <1>c
  <2>2. PICK s \in Subs : row[s].org = session[about[x]].org
    BY <2>1 DEF LostOnlyToRaces
  <2>3. about[x] \in Checkouts /\ Attributed(about[x])
    BY <2>1 DEF LostOnlyToRaces
  <2> QED
    BY <1>c, <1>k, <2>2, <2>3 DEF Attributed
<1>9. SubscribedInv'
  <2>1. ASSUME NEW o \in orgs'
        PROVE  \E s \in Subs : row'[s].org = o
    <3>1. CASE o \in orgs
      BY <1>k, <3>1 DEF SubscribedInv, TypeOK, AuthAssumption
    <3>2. CASE o \in staged[g] \cap Orgs
      <4>1. o = beneficiary[g]
        BY <1>t, <3>2 DEF SubscribedInv, OrgOf
      <4> QED
        BY <1>n, <1>r, <4>1
    <3> QED
      BY <1>c, <3>1, <3>2
  <2>2. ASSUME NEW u \in Txs
        PROVE  OrgOf(u)' = OrgOf(u)
    BY <1>c DEF OrgOf
  <2>3. ASSUME NEW u \in Txs, NEW o \in staged'[u] \cap Orgs
        PROVE  /\ at'[u] \notin {"idle", "record"} /\ o = OrgOf(u)'
               /\ u \in Slots => Effective(event[u])'
    <3>1. u # g /\ o \in staged[u] \cap Orgs /\ at'[u] = at[u]
      BY <1>x, <2>3
    <3>2. at[u] \notin {"idle", "record"} /\ o = OrgOf(u) /\ (u \in Slots => Effective(event[u]))
      BY <3>1 DEF SubscribedInv
    <3>3. u \in Slots => Effective(event[u])'
      BY <1>c, <3>2 DEF Effective, Attributed
    <3> QED
      BY <2>2, <3>1, <3>2, <3>3
  <2> QED
    BY <2>1, <2>3 DEF SubscribedInv
<1>8. EveryRowAccountedFor'
  <2>1. ASSUME NEW s \in Subs, row'[s] # NoRow
        PROVE  \/ s \in Checkouts /\ session[s].paid
                  /\ row'[s] = [org |-> session[s].org, tier |-> session[s].tier]
               \/ \E h \in audits' : target[h] = s /\ row'[s] = [org |-> beneficiary[h], tier |-> CompTier]
    <3>1. CASE s = tgt
      BY <3>1, <1>r, <1>c
    <3>2. CASE s # tgt
      <4>1. row'[s] = row[s] /\ row[s] # NoRow
        BY <3>2, <2>1, <1>r
      <4>2. \/ s \in Checkouts /\ session[s].paid
               /\ row[s] = [org |-> session[s].org, tier |-> session[s].tier]
            \/ \E h \in audits : target[h] = s /\ row[s] = [org |-> beneficiary[h], tier |-> CompTier]
        BY <4>1 DEF EveryRowAccountedFor
      <4> QED
        BY <4>1, <4>2, <1>c
    <3> QED
      BY <3>1, <3>2
  <2> QED
    BY <2>1, <1>c DEF EveryRowAccountedFor, NoRow
<1> QED
  BY <1>1, <1>2, <1>3, <1>4, <1>5, <1>6, <1>7, <1>8, <1>9

-----------------------------------------------------------------------------
\* Nothing changes, so neither does the invariant.
LEMMA BillingStutter ==
  ASSUME BillingInv, UNCHANGED vars
  PROVE  BillingInv'
<1> USE DEF vars, stripeVars, tableVars, txVars, BillingInv
<1>1. TypeOK'
  BY DEF TypeOK
<1>2. StripeInv' /\ StagedInv' /\ OrgInv'
  BY DEF StripeInv, StagedInv, OrgInv, Effective, Attributed
<1>3. RowInv' /\ SubscribedInv' /\ LedgerInv'
  BY DEF RowInv, SubscribedInv, OrgOf, LedgerInv, Effective, Attributed, NoRow
<1>4. LostOnlyToRaces' /\ EveryRowAccountedFor'
  BY DEF LostOnlyToRaces, EveryRowAccountedFor, Attributed, NoRow
<1> QED
  BY <1>1, <1>2, <1>3, <1>4

\* Every step keeps the invariant.
LEMMA BillingStep ==
  ASSUME BillingAssumption, AuthAssumption, BillingInv, [Next]_vars
  PROVE  BillingInv'
<1>1. ASSUME NEW k \in Checkouts, StartCheckout(k) \/ Pay(k)
      PROVE  BillingInv'
  BY <1>1, StripeStep
<1>2. ASSUME NEW x \in Events, CreateEvent(x)
      PROVE  BillingInv'
  BY <1>2, StripeStep
<1>3. ASSUME NEW d \in Slots, NEW x \in Events, Deliver(d, x)
      PROVE  BillingInv'
  <2>1. d \in Txs /\ Move(d, x)
    BY <1>3 DEF Move, Txs
  <2> QED
    BY <2>1, MoveStep
<1>4. ASSUME NEW d \in Slots, Handle(d) \/ DeliveryFails(d)
      PROVE  BillingInv'
  <2>1. d \in Txs
    BY DEF Txs
  <2>2. CASE AlreadyRecorded(d) \/ DeliveryFails(d) \/ OrgCollides(d) \/ RowCollides(d)
    BY <2>1, <2>2, FailureStep
  <2>3. CASE \/ RecordEvent(d) \/ FindOrg(d) \/ InsertOrg(d) \/ OrgResolved(d)
             \/ FindRow(d) \/ InsertRow(d) \/ RowResolved(d) \/ WriteSubscription(d)
    <3>1. Move(d, NoEvent)
      BY <2>3 DEF Move
    <3> QED
      BY <2>1, <3>1, MoveStep
  <2>4. CASE CommitEvent(d)
    BY <2>4, CommitEventStep
  <2> QED
    BY <1>4, <2>2, <2>3, <2>4 DEF Handle
<1>5. ASSUME NEW g \in Grants, RunGrant(g)
      PROVE  BillingInv'
  <2>1. g \in Txs
    BY DEF Txs
  <2>2. CASE OrgCollides(g) \/ GrantFails(g)
    BY <2>1, <2>2, FailureStep
  <2>3. CASE StartGrant(g) \/ FindSub(g) \/ FindOrg(g) \/ InsertOrg(g) \/ OrgResolved(g) \/ WriteSubscription(g)
    <3>1. Move(g, NoEvent)
      BY <2>3 DEF Move
    <3> QED
      BY <2>1, <3>1, MoveStep
  <2>4. CASE CommitGrant(g)
    BY <2>4, CommitGrantStep
  <2> QED
    BY <1>5, <2>2, <2>3, <2>4 DEF RunGrant
<1>6. CASE UNCHANGED vars
  BY <1>6, BillingStutter
<1> QED
  BY <1>1, <1>2, <1>3, <1>4, <1>5, <1>6 DEF Next

-----------------------------------------------------------------------------
\* In every interleaving of handlers and grants: what the tables hold, what the
\* open transactions have staged and what Stripe was told fit together.
THEOREM BillingInvariant == Spec => []BillingInv
<1>1. Init => BillingInv
  BY BillingInit, BillingAssumption, AuthAssumption
<1>2. BillingInv /\ [Next]_vars => BillingInv'
  BY BillingStep, BillingAssumption, AuthAssumption
<1> QED
  BY <1>1, <1>2, PTL DEF Spec

\* However often Stripe repeats an event and wherever a handler is cut short,
\* its effects are committed exactly once if its ledger row is, and not at all
\* otherwise; then its subscription and its organization exist.
THEOREM LedgerIsExact == Spec => []LedgerExact
<1>1. BillingInv => LedgerExact
  <2> SUFFICES ASSUME BillingInv
               PROVE  LedgerExact
    OBVIOUS
  <2>1. ASSUME NEW e \in Events, e \in ledger, Effective(e)
        PROVE  /\ row[about[e]].org = session[about[e]].org
               /\ row[about[e]].org \in orgs
    <3>1. about[e] \in Checkouts /\ about[e] \in Subs /\ row[about[e]] # NoRow
      BY <2>1 DEF BillingInv, LedgerInv, Effective, Subs
    <3> QED
      BY <3>1 DEF BillingInv, RowInv
  <2> QED
    BY <2>1 DEF BillingInv, LedgerInv, LedgerExact, Effective
<1> QED
  BY <1>1, BillingInvariant, PTL

\* Stripe never forgets an event that was not recorded, unless its handler lost
\* the insert of its organization or subscription: by then the organization has
\* a subscription, its own or another.
THEOREM LostToRacesOnly == Spec => []LostOnlyToRaces
<1>1. BillingInv => LostOnlyToRaces
  BY DEF BillingInv
<1> QED
  BY <1>1, BillingInvariant, PTL

\* Every subscription row goes back to a payment or to an audited grant.
THEOREM RowsAccountedFor == Spec => []EveryRowAccountedFor
<1>1. BillingInv => EveryRowAccountedFor
  BY DEF BillingInv
<1> QED
  BY <1>1, BillingInvariant, PTL

\* No webhook takes a granted tier back, and another grant gives it again.
THEOREM GrantsAreKept == Spec => GrantKept
<1>1. ASSUME BillingInv, [Next]_vars, NEW s \in Subs, row[s].tier = CompTier
      PROVE  row'[s].tier = CompTier
  <2>1. row[s] # NoRow
    BY <1>1, BillingAssumption DEF NoRow, BillingAssumption
  <2>2. CASE \E d \in Slots : CommitEvent(d)
    BY <1>1, <2>1, <2>2, CommitEventEffect, BillingAssumption, AuthAssumption
  <2>3. CASE \E g \in Grants : CommitGrant(g)
    BY <1>1, <2>3 DEF CommitGrant, BillingInv, TypeOK
  <2>4. CASE UNCHANGED row
    BY <1>1, <2>4
  <2>5. (\E d \in Slots : CommitEvent(d)) \/ (\E g \in Grants : CommitGrant(g)) \/ UNCHANGED row
    BY <1>1 DEF Next, vars, tableVars, StartCheckout, Pay, CreateEvent, Deliver, Handle, DeliveryFails,
         RunGrant, RecordEvent, AlreadyRecorded, FindOrg, InsertOrg, OrgResolved, OrgCollides,
         FindRow, InsertRow, RowResolved, RowCollides,
         WriteSubscription, StartGrant, FindSub, GrantFails, Rollback
  <2> QED
    BY <2>2, <2>3, <2>4, <2>5
<1>2. BillingInv /\ [Next]_vars =>
         [\A s \in Subs : row[s].tier = CompTier => row'[s].tier = CompTier]_vars
  BY <1>1
<1> QED
  BY <1>2, BillingInvariant, PTL DEF Spec, GrantKept

=============================================================================
