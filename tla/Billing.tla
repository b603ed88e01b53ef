------------------------------- MODULE Billing -------------------------------
(***************************************************************************)
(* Stripe checkouts, the webhook that records their completion, and comp   *)
(* grants: app/api/checkout, app/api/webhooks/stripe, app/api/admin/       *)
(* comp-grant and lib/stripe.ts over the tables Organization,              *)
(* Subscription, WebhookEvent and AuditLog.                                *)
(*                                                                         *)
(* Webhook deliveries and grants run as transactions that interleave       *)
(* statement by statement (READ COMMITTED).  What an open transaction has  *)
(* inserted is in `staged`; the insert of a unique key waits for another   *)
(* open transaction that has staged it and fails once it is committed.     *)
(* Both upserts of the webhook are a select and an insert or an update.    *)
(* A subscription bought has the id of its checkout, one created by a      *)
(* grant the id of the grant.  Every row is ACTIVE: nothing in the         *)
(* repository ever writes another status.                                  *)
(***************************************************************************)
EXTENDS Auth, Integers, FiniteSets

CONSTANTS
    Tiers,       \* tier ids
    Priced,      \* those whose price id is configured (TIER_PRICE_ENV)
    CompTier,    \* COMP_GRANT_TIER
    NoTier,      \* no row; also the tier of a session without our metadata
    Checkouts,   \* Stripe checkout sessions, with the subscription each starts
    NoCheckout,  \* an event that was not sent, or of another type
    Events,      \* Stripe events
    NoEvent,
    Slots,       \* webhook requests the server handles at a time
    Grants,      \* requests to POST /api/admin/comp-grant
    MaxFaults    \* bound on failed or unanswered deliveries

ASSUME BillingAssumption ==
    /\ CompTier \in Tiers /\ NoTier \notin Tiers /\ Priced \subseteq Tiers
    /\ NoCheckout \notin Checkouts /\ NoEvent \notin Events
    /\ Checkouts \cap Grants = {} /\ Slots \cap Grants = {} /\ Events \cap Orgs = {}
    /\ Checkouts \cap (Events \cup Orgs) = {}
    /\ MaxFaults \in Nat

VARIABLES
    session,   \* per checkout: organization, tier, and whether it was paid
    about,     \* per event sent, the checkout it reports complete
    sent,      \* events Stripe has created
    acked,     \* events Stripe got a 2xx answer for
    ledger,    \* WebhookEvent.eventId
    orgs,      \* Organization.clerkOrgId
    row,       \* Subscription rows: organization and tier
    audits,    \* grants with a COMP_GRANT audit row
    at,        \* per transaction, the statement it makes next
    event,     \* per slot, the event being handled
    target,    \* per transaction, the subscription it writes
    beneficiary, \* per grant, targetOrgId
    staged,    \* per transaction, the unique keys it has inserted
    faults,
    applied    \* history: how often the effects of an event were committed

stripeVars == <<session, about, sent, acked>>
tableVars == <<ledger, orgs, row, audits, applied>>
txVars == <<at, event, target, beneficiary, staged>>
vars == <<stripeVars, tableVars, txVars, faults>>

Subs == Checkouts \cup Grants
Txs == Slots \cup Grants
NoRow == [org |-> NoOrg, tier |-> NoTier]
Rows == [org : Orgs \cup {NoOrg}, tier : Tiers \cup {NoTier}]
Keys == Events \cup Orgs \cup Checkouts
Stages == {"idle", "record", "findOrg", "insertOrg", "findRow", "insertRow",
           "findSub", "write", "commit", "done"}

TypeOK ==
    /\ session \in [Checkouts -> [org : Orgs \cup {NoOrg}, tier : Tiers \cup {NoTier}, paid : BOOLEAN]]
    /\ about \in [Events -> Checkouts \cup {NoCheckout}]
    /\ sent \subseteq Events /\ acked \subseteq sent
    /\ ledger \subseteq sent
    /\ orgs \subseteq Orgs
    /\ row \in [Subs -> Rows]
    /\ audits \subseteq Grants
    /\ applied \in [Events -> Nat]
    /\ at \in [Txs -> Stages]
    /\ event \in [Slots -> Events \cup {NoEvent}]
    /\ target \in [Grants -> Subs]
    /\ beneficiary \in [Grants -> Orgs \cup {NoOrg}]
    /\ staged \in [Txs -> SUBSET Keys]
    /\ faults \in 0..MaxFaults

Init ==
    /\ session = [k \in Checkouts |-> [org |-> NoOrg, tier |-> NoTier, paid |-> FALSE]]
    /\ about = [e \in Events |-> NoCheckout]
    /\ sent = {} /\ acked = {}
    /\ ledger = {} /\ orgs = {} /\ audits = {}
    /\ row = [s \in Subs |-> NoRow]
    /\ applied = [e \in Events |-> 0]
    /\ at = [t \in Txs |-> "idle"]
    /\ event = [d \in Slots |-> NoEvent]
    /\ target = [g \in Grants |-> g]
    /\ beneficiary = [g \in Grants |-> NoOrg]
    /\ staged = [t \in Txs |-> {}]
    /\ faults = 0

Fault == faults < MaxFaults /\ faults' = faults + 1

\* applyCheckoutCompleted returns early for a session that lacks them.
Attributed(k) == session[k].org # NoOrg /\ session[k].tier # NoTier

-----------------------------------------------------------------------------
(* Checkout and Stripe.                                                    *)

isTier(t) == t \in Tiers

\* priceIdForTier returns.
HasPriceId(t) == t \in Priced

\* POST /api/checkout: the session carries the caller's organization and the
\* tier whose price it charges.
StartCheckout(k) ==
    /\ session[k].org = NoOrg /\ ~session[k].paid
    /\ \E c \in Callers, t \in Tiers \cup {NoTier} :
          /\ requireAuth(c) = 200
          /\ isTier(t) /\ HasPriceId(t)
          /\ session' = [session EXCEPT ![k] = [org |-> c.orgId, tier |-> t, paid |-> FALSE]]
    /\ UNCHANGED <<about, sent, acked, tableVars, txVars, faults>>

\* The customer pays.  A session that the route did not create (a payment
\* link) carries none of our metadata.
Pay(k) ==
    /\ ~session[k].paid
    /\ session' = [session EXCEPT ![k].paid = TRUE]
    /\ UNCHANGED <<about, sent, acked, tableVars, txVars, faults>>

\* Stripe creates an event: a completed checkout, possibly reported a second
\* time under an id of its own, or something else about the account.
CreateEvent(e) ==
    /\ e \notin sent
    /\ sent' = sent \cup {e}
    /\ \E k \in Checkouts \cup {NoCheckout} :
          /\ k \in Checkouts => session[k].paid
          /\ about' = [about EXCEPT ![e] = k]
    /\ UNCHANGED <<session, acked, tableVars, txVars, faults>>

\* Stripe sends an event until it is acknowledged, possibly while an earlier
\* attempt is still running.
Deliver(d, e) ==
    /\ at[d] = "idle"
    /\ e \in sent \ acked
    /\ at' = [at EXCEPT ![d] = "record"]
    /\ event' = [event EXCEPT ![d] = e]
    /\ UNCHANGED <<stripeVars, tableVars, target, beneficiary, staged, faults>>

-----------------------------------------------------------------------------
(* Transactions.                                                           *)

Open(t) == at[t] \notin {"idle", "done"}

\* The unique key is neither committed nor staged by another transaction.
CanInsert(t, key) ==
    /\ key \notin ledger \cup orgs \cup {s \in Subs : row[s] # NoRow}
    /\ \A u \in Txs \ {t} : key \notin staged[u]

Insert(t, key) == CanInsert(t, key) /\ staged' = [staged EXCEPT ![t] = @ \cup {key}]

Continue(t, stage) == at' = [at EXCEPT ![t] = stage]

OrgOf(t) == IF t \in Slots THEN session[about[event[t]]].org ELSE beneficiary[t]

\* Where the transaction goes once its organization exists.
AfterOrg(t) == IF t \in Slots THEN "findRow" ELSE "findSub"

\* Rollback: nothing of t remains.
Rollback(t) ==
    /\ at' = [at EXCEPT ![t] = IF t \in Slots THEN "idle" ELSE "done"]
    /\ event' = IF t \in Slots THEN [event EXCEPT ![t] = NoEvent] ELSE event
    /\ staged' = [staged EXCEPT ![t] = {}]
    /\ UNCHANGED <<tableVars, target, beneficiary>>

\* A 2xx answer: Stripe learns of it, or it is lost on the way.
Answer200(d) ==
    /\ \/ acked' = acked \cup {event[d]} /\ UNCHANGED faults
       \/ Fault /\ UNCHANGED acked
    /\ UNCHANGED <<session, about, sent>>

\* Mutant of RecordEvent: the ledger row is upserted, so a repeat goes through.
RecordEventAgain(d) ==
    LET k == about[event[d]]
    IN  /\ at[d] = "record"
        /\ staged' = [staged EXCEPT ![d] = @ \cup {event[d]}]
        /\ Continue(d, IF k \in Checkouts /\ Attributed(k) THEN "findOrg" ELSE "commit")
        /\ UNCHANGED <<stripeVars, tableVars, event, target, beneficiary, faults>>

\* webhookEvent.create, the first statement.
RecordEvent(d) ==
    LET k == about[event[d]]
    IN  /\ at[d] = "record"
        /\ Insert(d, event[d])
        /\ Continue(d, IF k \in Checkouts /\ Attributed(k) THEN "findOrg" ELSE "commit")
        /\ UNCHANGED <<stripeVars, tableVars, event, target, beneficiary, faults>>

\* Mutant of AlreadyRecorded: P2002 is rethrown like any other error.
RepeatRejected(d) ==
    /\ at[d] = "record"
    /\ event[d] \in ledger
    /\ Rollback(d)
    /\ UNCHANGED <<stripeVars, faults>>

\* The event id exists: P2002, rolled back and answered 200.
AlreadyRecorded(d) ==
    /\ at[d] = "record"
    /\ event[d] \in ledger
    /\ Rollback(d)
    /\ Answer200(d)

\* The select of organization.upsert, whose update is empty.
FindOrg(t) ==
    /\ at[t] = "findOrg"
    /\ Continue(t, IF OrgOf(t) \in orgs THEN AfterOrg(t) ELSE "insertOrg")
    /\ UNCHANGED <<stripeVars, tableVars, event, target, beneficiary, staged, faults>>

InsertOrg(t) ==
    /\ at[t] = "insertOrg"
    /\ Insert(t, OrgOf(t))
    /\ Continue(t, AfterOrg(t))
    /\ UNCHANGED <<stripeVars, tableVars, event, target, beneficiary, faults>>

\* Another transaction has committed the organization since the select.
\* Depending on how Prisma runs the upsert it finds the row after all ...
OrgResolved(t) ==
    /\ at[t] = "insertOrg"
    /\ OrgOf(t) \in orgs
    /\ Continue(t, AfterOrg(t))
    /\ UNCHANGED <<stripeVars, tableVars, event, target, beneficiary, staged, faults>>

\* ... or throws P2002, which the webhook answers like a repeated event and
\* the grant with a 500.
OrgCollides(t) ==
    /\ at[t] = "insertOrg"
    /\ OrgOf(t) \in orgs
    /\ Rollback(t)
    /\ IF t \in Slots THEN Answer200(t) ELSE UNCHANGED <<stripeVars, faults>>

\* The select of subscription.upsert, by the id of Stripe's subscription.
FindRow(d) ==
    /\ at[d] = "findRow"
    /\ Continue(d, IF row[about[event[d]]] = NoRow THEN "insertRow" ELSE "write")
    /\ UNCHANGED <<stripeVars, tableVars, event, target, beneficiary, staged, faults>>

InsertRow(d) ==
    /\ at[d] = "insertRow"
    /\ Insert(d, about[event[d]])
    /\ Continue(d, "commit")
    /\ UNCHANGED <<stripeVars, tableVars, event, target, beneficiary, faults>>

\* Another event of the same subscription has committed the row since the
\* select: it is updated after all ...
RowResolved(d) ==
    /\ at[d] = "insertRow"
    /\ row[about[event[d]]] # NoRow
    /\ Continue(d, "write")
    /\ UNCHANGED <<stripeVars, tableVars, event, target, beneficiary, staged, faults>>

\* ... or P2002 is answered like a repeated event.
RowCollides(d) ==
    /\ at[d] = "insertRow"
    /\ row[about[event[d]]] # NoRow
    /\ Rollback(d)
    /\ Answer200(d)

\* POST /api/admin/comp-grant: an administrator names any organization.
StartGrant(g) ==
    /\ at[g] = "idle"
    /\ \E c \in Callers : requireOrgAdmin(c) = 200
    /\ \E o \in Orgs : beneficiary' = [beneficiary EXCEPT ![g] = o]
    /\ Continue(g, "findOrg")
    /\ UNCHANGED <<stripeVars, tableVars, event, target, staged, faults>>

\* subscription.findFirst: one of the organization's rows, or none, when the
\* grant creates its own.  (Which one is latest: see QuotaMeter.)
FindSub(g) ==
    LET found == {s \in Subs : row[s].org = beneficiary[g]}
    IN  /\ at[g] = "findSub"
        /\ \E s \in (IF found = {} THEN {g} ELSE found) : target' = [target EXCEPT ![g] = s]
        /\ Continue(g, "write")
        /\ UNCHANGED <<stripeVars, tableVars, event, beneficiary, staged, faults>>

\* The subscription the transaction writes.
Target(t) == IF t \in Slots THEN about[event[t]] ELSE target[t]

\* The update of the subscription, or the insert of a grant's own, after which
\* its row is locked.
WriteSubscription(t) ==
    /\ at[t] = "write"
    /\ \A u \in Txs \ {t} : at[u] = "commit" => Target(u) # Target(t)
    /\ Continue(t, "commit")
    /\ UNCHANGED <<stripeVars, tableVars, event, target, beneficiary, staged, faults>>

\* Mutant of Upserted: the update writes the same columns as the create.
UpsertedAnew(r, k) == [org |-> session[k].org, tier |-> session[k].tier]

\* What subscription.upsert leaves of row r: an existing row only becomes
\* ACTIVE again.
Upserted(r, k) ==
    IF r # NoRow THEN r ELSE [org |-> session[k].org, tier |-> session[k].tier]

\* COMMIT of a webhook transaction, answered 200.
CommitEvent(d) ==
    LET e == event[d]
        k == about[e]
        effective == k \in Checkouts /\ Attributed(k)
    IN  /\ at[d] = "commit"
        /\ ledger' = ledger \cup (staged[d] \cap Events)
        /\ orgs' = orgs \cup (staged[d] \cap Orgs)
        /\ row' = IF effective THEN [row EXCEPT ![k] = Upserted(@, k)] ELSE row
        /\ applied' = IF effective THEN [applied EXCEPT ![e] = @ + 1] ELSE applied
        /\ at' = [at EXCEPT ![d] = "idle"]
        /\ event' = [event EXCEPT ![d] = NoEvent]
        /\ staged' = [staged EXCEPT ![d] = {}]
        /\ Answer200(d)
        /\ UNCHANGED <<audits, target, beneficiary>>

\* Mutant of CommitGrant: the audit row is written elsewhere.
CommitGrantUnaudited(g) ==
    /\ at[g] = "commit"
    /\ orgs' = orgs \cup (staged[g] \cap Orgs)
    /\ row' = [row EXCEPT ![target[g]] = [org |-> beneficiary[g], tier |-> CompTier]]
    /\ at' = [at EXCEPT ![g] = "done"]
    /\ staged' = [staged EXCEPT ![g] = {}]
    /\ UNCHANGED <<stripeVars, ledger, applied, audits, event, target, beneficiary, faults>>

\* COMMIT of a grant: tier, period and meter of its target, and the audit row.
CommitGrant(g) ==
    /\ at[g] = "commit"
    /\ orgs' = orgs \cup (staged[g] \cap Orgs)
    /\ row' = [row EXCEPT ![target[g]] = [org |-> beneficiary[g], tier |-> CompTier]]
    /\ audits' = audits \cup {g}
    /\ at' = [at EXCEPT ![g] = "done"]
    /\ staged' = [staged EXCEPT ![g] = {}]
    /\ UNCHANGED <<stripeVars, ledger, applied, event, target, beneficiary, faults>>

\* Mutant of DeliveryFails: every error of the transaction is answered 200.
EveryErrorSwallowed(d) ==
    /\ d \in Slots /\ Open(d)
    /\ Rollback(d)
    /\ Answer200(d)

\* Any other error before COMMIT: a missing secret, a refused signature, a
\* timed-out transaction or the end of the process.  Stripe sees a non-2xx
\* answer or none, and sends the event again.
DeliveryFails(d) ==
    /\ d \in Slots /\ Open(d)
    /\ Fault
    /\ Rollback(d)
    /\ UNCHANGED stripeVars

GrantFails(g) ==
    /\ g \in Grants /\ Open(g)
    /\ Rollback(g)
    /\ UNCHANGED <<stripeVars, faults>>

-----------------------------------------------------------------------------
Handle(d) ==
    \/ RecordEvent(d) \/ AlreadyRecorded(d) \/ CommitEvent(d)
    \/ FindOrg(d) \/ InsertOrg(d) \/ OrgResolved(d) \/ OrgCollides(d)
    \/ FindRow(d) \/ InsertRow(d) \/ RowResolved(d) \/ RowCollides(d) \/ WriteSubscription(d)

RunGrant(g) ==
    \/ StartGrant(g) \/ FindSub(g) \/ CommitGrant(g) \/ GrantFails(g)
    \/ FindOrg(g) \/ InsertOrg(g) \/ OrgResolved(g) \/ OrgCollides(g) \/ WriteSubscription(g)

Next ==
    \/ \E k \in Checkouts : StartCheckout(k) \/ Pay(k)
    \/ \E e \in Events : CreateEvent(e)
    \/ \E d \in Slots, e \in Events : Deliver(d, e)
    \/ \E d \in Slots : Handle(d) \/ DeliveryFails(d)
    \/ \E g \in Grants : RunGrant(g)

Spec == Init /\ [][Next]_vars

\* Stripe goes on sending what was not acknowledged; a handler or a grant that
\* was started takes its next step (a grant that waits for a lock ends too).
Fairness ==
    /\ \A e \in Events : WF_vars(\E d \in Slots : Deliver(d, e))
    /\ \A d \in Slots : WF_vars(Handle(d))
    /\ \A g \in Grants : WF_vars(Open(g) /\ RunGrant(g))

FairSpec == Spec /\ Fairness

-----------------------------------------------------------------------------
\* An event is in the ledger exactly when its effects are committed, once, and
\* then its subscription and organization exist: whatever is repeated, runs at
\* the same time or is cut short, "WebhookEvent ... inside the SAME transaction
\* that applies its side effects" (webhooks/stripe/route.ts:18).
LedgerExact ==
    \A e \in Events :
        LET k == about[e]
            effective == k \in Checkouts /\ Attributed(k)
        IN  /\ applied[e] = (IF e \in ledger /\ effective THEN 1 ELSE 0)
            /\ e \in ledger /\ effective => row[k].org = session[k].org /\ row[k].org \in orgs

\* Stripe stops sending an event that was not recorded only when its handler
\* lost the insert of its organization, or of its subscription, to another
\* transaction (route.ts:64 takes every P2002 for a repeated event): the event
\* is about an organization that has a subscription by then, though not always
\* the one that was paid for.
LostOnlyToRaces ==
    \A e \in acked \ ledger :
        /\ about[e] \in Checkouts /\ Attributed(about[e])
        /\ \E s \in Subs : row[s].org = session[about[e]].org

\* Every subscription is accounted for: by a payment for this tier and
\* organization, or by the audit row of a grant to it.  The webhook reads what
\* the checkout route stamped, the grant writes row and audit together.
EveryRowAccountedFor ==
    \A s \in Subs : row[s] # NoRow =>
        \/ s \in Checkouts /\ session[s].paid /\ row[s] = [org |-> session[s].org, tier |-> session[s].tier]
        \/ \E g \in audits : target[g] = s /\ row[s] = [org |-> beneficiary[g], tier |-> CompTier]

\* A granted tier is not taken back by an event of the subscription that was
\* sent twice or arrives late (the update of subscription.upsert leaves it).
GrantKept == [][\A s \in Subs : row[s].tier = CompTier => row'[s].tier = CompTier]_vars

\* Every event is acknowledged in the end, through lost answers, rolled-back
\* transactions and locks: Stripe does not retry it for ever.
EveryEventAnswered == \A e \in Events : (e \in sent) ~> (e \in acked)

=============================================================================
