----------------------------- MODULE QuotaMeter -----------------------------
(***************************************************************************)
(* The usage meter of one organization over time: lib/quota.ts with        *)
(* concurrent callers, the subscriptions created by the Stripe webhook and *)
(* the comp grant of an administrator.  Rows of different organizations    *)
(* never meet, so one organization is enough.                              *)
(*                                                                         *)
(* checkAndDecrementQuota and restoreQuota each read the latest ACTIVE     *)
(* subscription in one statement and write in another; callers interleave  *)
(* between the two.  A transaction of billing is one step.                 *)
(***************************************************************************)
EXTENDS Integers, FiniteSets

CONSTANTS
    Callers,      \* submissions that consume a unit
    Subs,         \* subscription ids
    NoSub,        \* none
    Tiers,        \* tier ids
    TIER_QUOTA,   \* units per period of each tier
    CompTier,     \* COMP_GRANT_TIER
    Month,        \* length of a rolled-over or bought period
    GrantLength,  \* COMP_GRANT_MONTHS, in the same unit
    MaxTime,      \* bound on the clock
    MaxGrants     \* bound on comp grants

ASSUME QuotaAssumption ==
    /\ NoSub \notin Subs
    /\ TIER_QUOTA \in [Tiers -> Nat \ {0}]
    /\ CompTier \in Tiers
    /\ \A t \in Tiers : TIER_QUOTA[t] <= TIER_QUOTA[CompTier]
    /\ Month \in Nat \ {0} /\ GrantLength \in Nat \ {0}
    /\ MaxTime \in Nat /\ MaxGrants \in Nat

VARIABLES
    now,         \* the clock
    active,      \* the ids with an ACTIVE Subscription row
    tierId, usageCount, periodEnd,   \* its columns
    at,          \* per caller, where its consumption or restoration stands
    read,        \* per caller, the row findFirst returned: id and limit
    grants,      \* comp grants so far
    period,      \* history: per subscription, the periods it has been through
    charge,      \* history: the subscription and period a caller was charged to
    clean        \* history: no unit of the current period was lost or misdirected

meterVars == <<active, tierId, usageCount, periodEnd, grants, period, clean>>
callerVars == <<at, read, charge>>
vars == <<now, meterVars, callerVars>>

NoRead == [sub |-> NoSub, limit |-> 0]
NoCharge == <<NoSub, 0>>

Stages == {"idle", "metering", "rolling", "charged", "refused", "restoring", "restored"}

TypeOK ==
    /\ now \in 0..MaxTime
    /\ active \subseteq Subs
    /\ tierId \in [Subs -> Tiers]
    /\ usageCount \in [Subs -> Nat]
    /\ periodEnd \in [Subs -> Nat]
    /\ at \in [Callers -> Stages]
    /\ read \in [Callers -> [sub : Subs \cup {NoSub}, limit : Nat]]
    /\ grants \in 0..MaxGrants
    /\ period \in [Subs -> Nat]
    /\ charge \in [Callers -> (Subs \cup {NoSub}) \X Nat]
    /\ clean \in [Subs -> BOOLEAN]

Init ==
    /\ now = 0
    /\ active = {}
    /\ tierId \in [Subs -> Tiers]
    /\ usageCount = [s \in Subs |-> 0]
    /\ periodEnd = [s \in Subs |-> 0]
    /\ at = [c \in Callers |-> "idle"]
    /\ read = [c \in Callers |-> NoRead]
    /\ grants = 0
    /\ period = [s \in Subs |-> 0]
    /\ charge = [c \in Callers |-> NoCharge]
    /\ clean = [s \in Subs |-> TRUE]

\* findFirst({status: ACTIVE}, orderBy periodEnd desc) can return s.
IsLatestActive(s) == s \in active /\ \A q \in active : periodEnd[q] <= periodEnd[s]

-----------------------------------------------------------------------------
(* Billing.                                                                *)

\* checkout.session.completed: a new ACTIVE subscription of the tier bought.
\* (A repeated event finds the row ACTIVE already and changes nothing.)
CheckoutCompleted(s) ==
    /\ s \notin active
    /\ active' = active \cup {s}
    /\ periodEnd' = [periodEnd EXCEPT ![s] = now + Month]
    /\ UNCHANGED <<now, tierId, usageCount, grants, period, clean, callerVars>>

\* A fresh meter for s under the comp tier: a new period.
Grant(s) ==
    /\ active' = active \cup {s}
    /\ tierId' = [tierId EXCEPT ![s] = CompTier]
    /\ usageCount' = [usageCount EXCEPT ![s] = 0]
    /\ periodEnd' = [periodEnd EXCEPT ![s] = now + GrantLength]
    /\ period' = [period EXCEPT ![s] = @ + 1]
    /\ clean' = [clean EXCEPT ![s] = TRUE]

\* POST /api/admin/comp-grant: the organization's latest subscription is
\* reconciled, or one is created.
CompGrant ==
    /\ grants < MaxGrants
    /\ grants' = grants + 1
    /\ \/ \E s \in Subs : IsLatestActive(s) /\ Grant(s)
       \/ active = {} /\ \E s \in Subs : Grant(s)
    /\ UNCHANGED <<now, callerVars>>

-----------------------------------------------------------------------------
(* checkAndDecrementQuota.                                                 *)

\* findFirst, then `now` is read and compared with the row's periodEnd.
ReadSubscription(c) ==
    /\ at[c] = "idle"
    /\ \E s \in Subs :
          /\ IsLatestActive(s)
          /\ read' = [read EXCEPT ![c] = [sub |-> s, limit |-> TIER_QUOTA[tierId[s]]]]
          /\ at' = [at EXCEPT ![c] = IF now > periodEnd[s] THEN "rolling" ELSE "metering"]
    /\ UNCHANGED <<now, meterVars, charge>>

\* NoActiveSubscriptionError.
NoSubscription(c) ==
    /\ at[c] = "idle"
    /\ active = {}
    /\ at' = [at EXCEPT ![c] = "refused"]
    /\ UNCHANGED <<now, meterVars, read, charge>>

\* The rollover, by id: one unit of a fresh period.  It is a new period only
\* if the stored one has elapsed; otherwise another caller rolled over first
\* and what was counted since is overwritten.
Rollover(c) ==
    LET s == read[c].sub
        elapsed == now > periodEnd[s]
    IN  /\ at[c] = "rolling"
        /\ usageCount' = [usageCount EXCEPT ![s] = 1]
        /\ periodEnd' = [periodEnd EXCEPT ![s] = now + Month]
        /\ period' = IF elapsed THEN [period EXCEPT ![s] = @ + 1] ELSE period
        /\ clean' = [clean EXCEPT ![s] = elapsed]
        /\ charge' = [charge EXCEPT ![c] = <<s, period'[s]>>]
        /\ at' = [at EXCEPT ![c] = "charged"]
        /\ UNCHANGED <<now, active, tierId, grants, read>>

\* Mutant of Increment: the updateMany does not repeat the test of the limit.
IncrementUnguarded(c) ==
    LET s == read[c].sub
    IN  /\ at[c] = "metering"
        /\ usageCount' = [usageCount EXCEPT ![s] = @ + 1]
        /\ charge' = [charge EXCEPT ![c] = <<s, period[s]>>]
        /\ at' = [at EXCEPT ![c] = "charged"]
        /\ UNCHANGED <<now, active, tierId, periodEnd, grants, period, clean, read>>

\* The conditional increment, under the limit that was read.
Increment(c) ==
    LET s == read[c].sub
    IN  /\ at[c] = "metering"
        /\ usageCount[s] < read[c].limit
        /\ usageCount' = [usageCount EXCEPT ![s] = @ + 1]
        /\ charge' = [charge EXCEPT ![c] = <<s, period[s]>>]
        /\ at' = [at EXCEPT ![c] = "charged"]
        /\ UNCHANGED <<now, active, tierId, periodEnd, grants, period, clean, read>>

\* QuotaExceededError: updateMany matched nothing.
QuotaExceeded(c) ==
    /\ at[c] = "metering"
    /\ usageCount[read[c].sub] >= read[c].limit
    /\ at' = [at EXCEPT ![c] = "refused"]
    /\ UNCHANGED <<now, meterVars, read, charge>>

-----------------------------------------------------------------------------
(* restoreQuota, when the delivery of the submission fails.                *)

RestoreRead(c) ==
    /\ at[c] = "charged"
    /\ \E s \in Subs :
          /\ IsLatestActive(s)
          /\ read' = [read EXCEPT ![c] = [sub |-> s, limit |-> 0]]
    /\ at' = [at EXCEPT ![c] = "restoring"]
    /\ UNCHANGED <<now, meterVars, charge>>

\* A credit for a unit of another subscription or of an earlier period spoils
\* the period it hits and the one it should have hit.
CleanAfterCredit(c, s) ==
    IF charge[c] = <<s, period[s]>>
    THEN clean
    ELSE [q \in Subs |-> clean[q] /\ q # s /\ charge[c] # <<q, period[q]>>]

\* Mutant of RestoreWrite: the credit is applied twice.
RestoreTwice(c) ==
    LET s == read[c].sub
    IN  /\ at[c] = "restoring"
        /\ usageCount' = [usageCount EXCEPT ![s] = IF @ > 1 THEN @ - 2 ELSE 0]
        /\ clean' = CleanAfterCredit(c, s)
        /\ at' = [at EXCEPT ![c] = "restored"]
        /\ UNCHANGED <<now, active, tierId, periodEnd, grants, period, read, charge>>

\* The floored decrement.
RestoreWrite(c) ==
    LET s == read[c].sub
    IN  /\ at[c] = "restoring"
        /\ usageCount' = [usageCount EXCEPT ![s] = IF @ > 0 THEN @ - 1 ELSE @]
        /\ clean' = CleanAfterCredit(c, s)
        /\ at' = [at EXCEPT ![c] = "restored"]
        /\ UNCHANGED <<now, active, tierId, periodEnd, grants, period, read, charge>>

-----------------------------------------------------------------------------
Tick == now < MaxTime /\ now' = now + 1 /\ UNCHANGED <<meterVars, callerVars>>

Next ==
    \/ Tick
    \/ CompGrant
    \/ \E s \in Subs : CheckoutCompleted(s)
    \/ \E c \in Callers :
          \/ ReadSubscription(c) \/ NoSubscription(c) \/ Rollover(c) \/ Increment(c)
          \/ QuotaExceeded(c) \/ RestoreRead(c) \/ RestoreWrite(c)

Spec == Init /\ [][Next]_vars

-----------------------------------------------------------------------------
\* The units of subscription s that its current period still owes.
Owed(s) ==
    {c \in Callers : at[c] \in {"charged", "restoring"} /\ charge[c] = <<s, period[s]>>}

\* The meter never passes the limit of its tier, although the limit is the one
\* of the row that was read: a grant in between only raises it.
MeterWithinLimit == \A s \in Subs : usageCount[s] <= TIER_QUOTA[tierId[s]]

\* As long as no concurrent rollover and no misdirected credit hit a period,
\* its meter counts exactly the submissions charged to it and not given back,
\* through stale reads, grants, rollovers and second subscriptions.
CleanMeterExact == \A s \in Subs : clean[s] => usageCount[s] = Cardinality(Owed(s))

=============================================================================
